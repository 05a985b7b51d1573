------------------------------ MODULE GpsdReports ------------------------------
(***************************************************************************)
(* What collectors/gpsd.py makes of the reports of one session.  A report  *)
(* is a record with a class; a TPV has a mode, a SKY the number of         *)
(* satellites flagged as used and, from a newer gpsd, a uSat.              *)
(***************************************************************************)
EXTENDS Integers, Sequences

Has(reports, class) == \E i \in DOMAIN reports : reports[i].class = class

(* Each report takes the place of the one of its class before it. *)
Latest(reports, class) ==
  reports[CHOOSE i \in DOMAIN reports :
            /\ reports[i].class = class
            /\ \A j \in DOMAIN reports : reports[j].class = class => j <= i]

Used(sky) == IF "uSat" \in DOMAIN sky THEN sky.uSat ELSE sky.used

(* A mistake the runs must notice: the first report of a class wins. *)
MergeReports_BUG(reports) ==
  LET First(class) == reports[CHOOSE i \in DOMAIN reports :
        /\ reports[i].class = class
        /\ \A j \in DOMAIN reports : reports[j].class = class => i <= j]
  IN  [reachable |-> TRUE,
       fix_mode |-> IF Has(reports, "TPV") THEN First("TPV").mode ELSE 0,
       satellites_used |-> IF Has(reports, "SKY") THEN Used(First("SKY")) ELSE 0]

(* The most recent TPV and SKY win. *)
MergeReports(reports) ==
  [reachable |-> TRUE,
   fix_mode |-> IF Has(reports, "TPV") THEN Latest(reports, "TPV").mode ELSE 0,
   satellites_used |-> IF Has(reports, "SKY") THEN Used(Latest(reports, "SKY")) ELSE 0]

(* A mistake the runs must notice: a fix mode of its own for "no answer". *)
Unreachable_BUG == [reachable |-> FALSE, fix_mode |-> -1, satellites_used |-> 0]

Unreachable == [reachable |-> FALSE, fix_mode |-> 0, satellites_used |-> 0]

(* The end of collect_gnss, when the session itself raised nothing. *)
Conclude(reports) == IF reports = <<>> THEN Unreachable ELSE MergeReports(reports)

=============================================================================
