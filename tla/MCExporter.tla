------------------------------ MODULE MCExporter ------------------------------
(* One security update. *)
EXTENDS Exporter
CONSTANT openssl
MCPackages == {openssl}
=============================================================================
