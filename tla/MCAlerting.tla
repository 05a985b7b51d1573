------------------------------ MODULE MCAlerting ------------------------------
(* No updates; minutes of scrapes, scaled down. *)
EXTENDS Alerting
MCPackages == {}
MCHoldsFor == [ScrapeDown |-> 3, Critical |-> 2, Warning |-> 3]
=============================================================================
