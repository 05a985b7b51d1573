-------------------------------- MODULE Alerting --------------------------------
(***************************************************************************)
(* The way to the operator on the main LAN: the exporter's page, read over *)
(* HTTP by a Prometheus scraper, the health rules it evaluates with the    *)
(* time each must hold (grafana/rules/mother-ticker.rules.yml), and the    *)
(* health panel of the Grafana dashboard, which shows the last value that  *)
(* was not null.  The exporter is module Exporter; the scraper and the     *)
(* network are not part of the repository, and are taken from how the      *)
(* rules and the dashboard use them.                                       *)
(*                                                                         *)
(* A scrape that gets no answer sets `up` to 0 and ends every series of    *)
(* the unit.  A page without the series, as the exporter serves until its  *)
(* first refresh is done, sets `up` to 1 and ends them too.                *)
(***************************************************************************)
EXTENDS Exporter

CONSTANT HOLDS_FOR        \* `for` of each rule, in scrapes

HealthRule == {"ScrapeDown", "Critical", "Warning"}

ASSUME AlertingAssumption == HOLDS_FOR \in [HealthRule -> Nat \ {0}]

VARIABLES
  cut,       \* nothing passes between the scraper and the unit
  up,        \* the series `up`
  series,    \* mother_ticker_health_level at the last scrape; None when absent
  held,      \* for each rule, the scrapes in a row its expression has held
  panel      \* the value in the dashboard's health panel; None is "No data"

scraper == <<up, series, held, panel>>
allVars == <<vars, cut, scraper>>

Holds_BUG(r, u, l) ==      \* a critical level is above 2
  \/ r = "ScrapeDown" /\ u = 0
  \/ r = "Critical" /\ l # None /\ l > CRITICAL
  \/ r = "Warning" /\ l = WARNING

(* The expressions of the rules. *)
Holds(r, u, l) ==
  \/ r = "ScrapeDown" /\ u = 0
  \/ r = "Critical" /\ l # None /\ l >= CRITICAL
  \/ r = "Warning" /\ l = WARNING

Firing(r) == held[r] = HOLDS_FOR[r]

Held_BUG(r, u, l) == IF Holds(r, u, l) THEN held[r] + 1 ELSE 0

Held(r, u, l) ==
  IF Holds(r, u, l) THEN (IF Firing(r) THEN held[r] ELSE held[r] + 1) ELSE 0

-----------------------------------------------------------------------------
(* do_GET of the handler: the cache's body, whatever its age. *)
ServedLevel_BUG == IF body.level = OK THEN None ELSE body.level   \* nothing to say

ServedLevel == body.level

(* One scrape and the evaluation of the rules after it. *)
Scrape ==
  LET answers == ~cut /\ xpc # "down" IN
  /\ up' = IF answers THEN 1 ELSE 0
  /\ series' = IF answers THEN ServedLevel ELSE None
  /\ held' = [r \in HealthRule |-> Held(r, up', series')]
  /\ panel' \in IF series' # None THEN {series'} ELSE {panel, None}   \* until it is 6 h old
  /\ UNCHANGED <<vars, cut>>

(* A cable, the switch, nftables. *)
NetworkChanges == cut' = ~cut /\ UNCHANGED <<vars, scraper>>

AlertingInit ==
  /\ Init
  /\ cut \in BOOLEAN
  /\ up = 0 /\ series = None /\ panel = None
  /\ held = [r \in HealthRule |-> 0]

AlertingNext ==
  \/ Scrape
  \/ NetworkChanges
  \/ (Next /\ UNCHANGED <<cut, scraper>>)

(* The scraper works on its own clock; the exporter's fairness is its own. *)
AlertingSpec ==
  AlertingInit /\ [][AlertingNext]_allVars /\ Fairness /\ WF_allVars(Scrape)

-----------------------------------------------------------------------------
(* Properties. *)

AlertingTypeOK ==
  /\ cut \in BOOLEAN /\ up \in {0, 1}
  /\ series \in Level \cup {None} /\ panel \in Level \cup {None}
  /\ \A r \in HealthRule : held[r] \in 0 .. HOLDS_FOR[r]
  /\ up = 0 => series = None

(***************************************************************************)
(* What the way to the operator needs: the exporter is stopped, killed and *)
(* booted only so often, its refresh ends with a new page again and again, *)
(* and the network does not come and go for ever.  The second is not a     *)
(* detail: a refresh that raises on every turn leaves the page of long ago *)
(* in place, and `up` at 1.  Nor is the third: a network that flaps, or an *)
(* exporter that keeps dying, ends the series before any rule has held for *)
(* long enough.                                                            *)
(***************************************************************************)
WayStands ==
  /\ <>[][~(SigTerm \/ Killed \/ Boot)]_vars
  /\ []<><<Publish>>_vars
  /\ <>[]cut \/ <>[]~cut

(***************************************************************************)
(* rules.yml: "Power, network, nftables [...] or the exporter service",    *)
(* and "The unit's banner is red".  A unit that stays critical comes to    *)
(* fire a critical rule, and for good; unless nothing reaches it, the      *)
(* dashboard is red as well.                                               *)
(***************************************************************************)
CriticalIsPaged ==
  WayStands /\ <>[](level = CRITICAL) =>
    <>[](Firing("ScrapeDown") \/ (Firing("Critical") /\ panel = CRITICAL))

(***************************************************************************)
(* A unit that stays healthy, and can be reached, comes to have no rule    *)
(* pending and a green dashboard: no alert outlives its cause.             *)
(***************************************************************************)
AlertsClear ==
  WayStands /\ <>[](level = OK /\ ~cut) =>
    <>[](panel = OK /\ \A r \in HealthRule : held[r] = 0)

=============================================================================
