--------------------------------- MODULE MCTui ---------------------------------
(* The two services of the default configuration. *)
EXTENDS Tui
CONSTANTS chrony, gpsd
MCUnits == {chrony, gpsd}
=============================================================================
