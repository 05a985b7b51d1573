---------------------------- MODULE MCSyslogRelay ----------------------------
(* Two connections: the one in use and one the relay is still reading. *)
EXTENDS SyslogRelay
CONSTANTS c1, c2
MCConns == {c1, c2}
=============================================================================
