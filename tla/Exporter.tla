------------------------------- MODULE Exporter -------------------------------
(***************************************************************************)
(* The metrics exporter in prometheus mode (cmd_exporter's refresh, the    *)
(* AlertSender it calls, the page it serves), with its surroundings: the   *)
(* daily update check that leaves the list of pending security packages in *)
(* a file, the receiver of the webhook, and systemd, which restarts the    *)
(* exporter whenever it ends.                                              *)
(*                                                                         *)
(* One turn of the loop collects, evaluates and decides which alerts to    *)
(* send; sends them one after the other; and then replaces the page a      *)
(* scrape reads.  A POST succeeds, fails and is counted, or raises an      *)
(* exception that send() does not catch (http.client.HTTPException, when   *)
(* the answer is not HTTP; ValueError, when the URL has no scheme), which  *)
(* ends the turn in serve_forever's handler.                               *)
(*                                                                         *)
(* Definitions named ..._BUG are mistakes the runs must notice; nothing    *)
(* uses them.                                                              *)
(***************************************************************************)
EXTENDS Naturals

CONSTANTS
  Packages,     \* the security updates that can be pending
  WEBHOOK,      \* alerts.webhook_url is set
  None,         \* Python's None
  COUNT_MAX     \* bound: the counters saturate here

ASSUME ExporterAssumption ==
  /\ WEBHOOK \in BOOLEAN
  /\ COUNT_MAX \in Nat \ {0}
  /\ None \notin 0 .. 2
  /\ \A names \in SUBSET Packages : None # names

OK == 0
WARNING == 1
CRITICAL == 2
Level == OK .. CRITICAL

VARIABLES
  minLevel,      \* LEVEL_FLOOR[alerts.min_level]; set at start, never changed
  level,         \* the level evaluate() would find now
  lists,         \* the security packages apt would install now
  file,          \* security_packages of updates.json; {} when there is none
  xpc,           \* "down", "loop", "send", "wait"
  stop,          \* SIGTERM has been received
  lastLevel, lastSecurity,      \* AlertSender.last_level, .last_security
  mail,          \* the alerts consider() has decided and not sent yet
  sent, failed,  \* AlertSender.sent, .failed
  body,          \* MetricsCache._body: what a scrape of the page shows
  (* history, read by no action: *)
  told,          \* the level the receiver was told last; None when it may have missed one
  decided,       \* the alerts this process has decided to send
  announced,     \* how often a package was called new while it stayed pending
  dropped        \* pending packages that a failed check, or a boot, left out of the file

worldVars == <<minLevel, level, lists, file>>
counters == <<sent, failed, decided>>
updateHistory == <<announced, dropped>>
vars == <<minLevel, level, lists, file, xpc, stop, lastLevel, lastSecurity, mail,
          sent, failed, body, told, decided, announced, dropped>>

Up(n) == IF n < COUNT_MAX THEN n + 1 ELSE n

-----------------------------------------------------------------------------
(***************************************************************************)
(* decide(): at most one alert about health, then at most one about        *)
(* updates.  A health alert is its level; one about updates, the names.    *)
(***************************************************************************)
NoMail == [health |-> None, updates |-> {}]

HealthAlert_BUG1(now, last) ==      \* a recovery is not told
  IF last # None /\ now # last /\ now >= minLevel THEN now ELSE None
HealthAlert_BUG2(now, last) ==      \* on every tick above the floor
  IF last # None /\ (now >= minLevel \/ last >= minLevel) THEN now ELSE None

HealthAlert(now, last) ==
  IF last # None /\ now # last /\ (now >= minLevel \/ last >= minLevel)
  THEN now ELSE None

UpdatesAlert_BUG(now, last) ==      \* everything is new to a new process
  IF last # None THEN now \ last ELSE now

UpdatesAlert(now, last) == IF last # None THEN now \ last ELSE {}

-----------------------------------------------------------------------------
(* The host, the package archive and the daily check. *)

LevelChanges ==
  /\ level' \in Level
  /\ UNCHANGED <<minLevel, lists, file, xpc, stop, lastLevel, lastSecurity, mail,
                 counters, body, told, updateHistory>>

(* A package that leaves the lists and comes back is a new one. *)
Forget(gone) ==
  /\ announced' = [p \in Packages |-> IF p \in gone THEN 0 ELSE announced[p]]
  /\ dropped' = dropped \ gone

(* The operator installs updates. *)
Upgrade ==
  /\ \E installed \in SUBSET lists : lists' = lists \ installed /\ Forget(installed)
  /\ UNCHANGED <<minLevel, level, file, xpc, stop, lastLevel, lastSecurity, mail,
                 counters, body, told>>

(***************************************************************************)
(* run_check of the daily timer.  apt-get update may bring new lists or    *)
(* fail, without consequence.  A simulation that fails leaves the lines it *)
(* printed, or none, in a file that says it was checked now.  A check that *)
(* is killed, or cannot write, leaves the old file.                        *)
(***************************************************************************)
Refresh == \E fetched \in SUBSET Packages : lists' = lists \cup fetched

checkUntouched == <<minLevel, level, xpc, stop, lastLevel, lastSecurity, mail, counters,
                    body, told>>

CheckSucceeds ==
  /\ Refresh
  /\ file' = lists'
  /\ Forget(lists' \ lists)
  /\ UNCHANGED checkUntouched

CheckFails ==
  /\ Refresh
  /\ file' \in SUBSET lists' \ {lists'}
  /\ announced' = [p \in Packages |-> IF p \in lists' \ lists THEN 0 ELSE announced[p]]
  /\ dropped' = dropped \cup (lists' \ file')
  /\ UNCHANGED checkUntouched

CheckCut ==
  /\ Refresh
  /\ Forget(lists' \ lists)
  /\ UNCHANGED <<checkUntouched, file>>

-----------------------------------------------------------------------------
(* The exporter. *)

NoBody == [level |-> None, sent |-> 0, failed |-> 0]   \* "# no data yet", or no server

Init ==
  /\ minLevel \in {WARNING, CRITICAL}
  /\ level \in Level
  /\ lists \in SUBSET Packages /\ file \in SUBSET lists
  /\ xpc = "down" /\ stop = FALSE
  /\ lastLevel = None /\ lastSecurity = None /\ mail = NoMail
  /\ sent = 0 /\ failed = 0 /\ body = NoBody
  /\ told = None /\ decided = 0
  /\ announced = [p \in Packages |-> 0]
  /\ dropped = lists \ file

(* systemd starts it, five seconds after it ended. *)
Start ==
  /\ xpc = "down"
  /\ xpc' = "loop"
  /\ UNCHANGED <<worldVars, stop, lastLevel, lastSecurity, mail, counters, body, told,
                 updateHistory>>

(***************************************************************************)
(* refresh(): gather, evaluate, consider.  The last observation is         *)
(* remembered before the first alert is sent.                              *)
(***************************************************************************)
Remember(l, names) == lastLevel' = l /\ lastSecurity' = names

AfterCollect(m) == IF WEBHOOK THEN m ELSE NoMail

Collect ==
  /\ xpc = "loop" /\ ~stop
  /\ LET m == [health |-> HealthAlert(level, lastLevel),
               updates |-> UpdatesAlert(file, lastSecurity)]
     IN  /\ mail' = AfterCollect(m)
         /\ decided' = IF mail'.health # None /\ mail'.updates # {} THEN Up(Up(decided))
                       ELSE IF mail' # NoMail THEN Up(decided) ELSE decided
         /\ announced' = [p \in Packages |-> IF p \in mail'.updates /\ announced[p] < 2
                                             THEN announced[p] + 1 ELSE announced[p]]
  /\ Remember(level, file)
  /\ xpc' = "send"
  /\ UNCHANGED <<worldVars, stop, sent, failed, body, told, dropped>>

(* A collector raises: serve_forever logs it and keeps the page. *)
CollectRaises ==
  /\ xpc = "loop" /\ ~stop
  /\ xpc' = "wait"
  /\ UNCHANGED <<worldVars, stop, lastLevel, lastSecurity, mail, counters, body, told,
                 updateHistory>>

(* The alert being sent: health first. *)
SendsHealth == mail.health # None
Sent == IF SendsHealth THEN [mail EXCEPT !.health = None] ELSE NoMail

PostSucceeds ==
  /\ xpc = "send" /\ mail # NoMail
  /\ mail' = Sent
  /\ sent' = Up(sent)
  /\ told' = IF SendsHealth THEN mail.health ELSE told
  /\ UNCHANGED <<worldVars, xpc, stop, lastLevel, lastSecurity, failed, decided, body,
                 updateHistory>>

(* Whether a lost POST has reached the receiver is not known. *)
PostLost == told' = IF SendsHealth THEN None ELSE told

PostFails ==
  /\ xpc = "send" /\ mail # NoMail
  /\ mail' = Sent
  /\ failed' = Up(failed)
  /\ PostLost
  /\ UNCHANGED <<worldVars, xpc, stop, lastLevel, lastSecurity, sent, decided, body,
                 updateHistory>>

(* The alerts behind it are kept for the next turn. *)
PostRaises_BUG ==
  /\ xpc = "send" /\ mail # NoMail
  /\ mail' = Sent
  /\ PostLost
  /\ xpc' = "wait"
  /\ UNCHANGED <<worldVars, stop, lastLevel, lastSecurity, counters, body, updateHistory>>

PostRaises ==
  /\ xpc = "send" /\ mail # NoMail
  /\ mail' = NoMail
  /\ PostLost
  /\ xpc' = "wait"
  /\ UNCHANGED <<worldVars, stop, lastLevel, lastSecurity, counters, body, updateHistory>>

(* The alert counters are read when every alert has been sent; then render and update. *)
Publish ==
  /\ xpc = "send" /\ mail = NoMail
  /\ body' = [level |-> lastLevel, sent |-> sent, failed |-> failed]
  /\ xpc' = "wait"
  /\ UNCHANGED <<worldVars, stop, lastLevel, lastSecurity, mail, counters, told,
                 updateHistory>>

(* stop.wait(interval_s) returns; a stop already set ends the loop. *)
Tick ==
  /\ xpc = "wait" /\ ~stop
  /\ xpc' = "loop"
  /\ UNCHANGED <<worldVars, stop, lastLevel, lastSecurity, mail, counters, body, told,
                 updateHistory>>

SigTerm ==
  /\ xpc # "down" /\ ~stop
  /\ stop' = TRUE
  /\ UNCHANGED <<worldVars, xpc, lastLevel, lastSecurity, mail, counters, body, told,
                 updateHistory>>

Down ==
  /\ xpc' = "down" /\ stop' = FALSE
  /\ lastLevel' = None /\ lastSecurity' = None /\ mail' = NoMail
  /\ sent' = 0 /\ failed' = 0 /\ decided' = 0 /\ body' = NoBody
  /\ told' = None

Exit == xpc \in {"loop", "wait"} /\ stop /\ Down /\ UNCHANGED <<worldVars, updateHistory>>

(* Killed between any two steps; a POST cut short may have arrived. *)
Killed == xpc # "down" /\ Down /\ UNCHANGED <<worldVars, updateHistory>>

(* On the read-only overlay a boot forgets the file and the fetched lists. *)
Boot ==
  /\ Down
  /\ lists' \in SUBSET Packages
  /\ file' = {}
  /\ announced' = [p \in Packages |-> IF p \in lists \cap lists' THEN announced[p] ELSE 0]
  /\ dropped' = lists'
  /\ level' \in Level
  /\ UNCHANGED minLevel

Next ==
  \/ LevelChanges \/ Upgrade \/ CheckSucceeds \/ CheckFails \/ CheckCut
  \/ Start \/ Collect \/ CollectRaises
  \/ PostSucceeds \/ PostFails \/ PostRaises \/ Publish
  \/ Tick \/ SigTerm \/ Exit \/ Killed \/ Boot

Spec == Init /\ [][Next]_vars

(***************************************************************************)
(* systemd starts the exporter again, its timer ticks, and every POST ends *)
(* by its timeout in one of the three ways.  Nothing is assumed of the     *)
(* host, of the update check or of the receiver.                           *)
(***************************************************************************)
Post == PostSucceeds \/ PostFails \/ PostRaises

Fairness ==
  /\ WF_vars(Start) /\ WF_vars(Collect \/ CollectRaises) /\ WF_vars(Post)
  /\ WF_vars(Publish) /\ WF_vars(Tick) /\ WF_vars(Exit)

FairSpec == Spec /\ Fairness

-----------------------------------------------------------------------------
(* Properties. *)

TypeOK ==
  /\ minLevel \in {WARNING, CRITICAL} /\ level \in Level
  /\ lists \in SUBSET Packages /\ file \in SUBSET Packages
  /\ xpc \in {"down", "loop", "send", "wait"} /\ stop \in BOOLEAN
  /\ lastLevel \in {None} \cup Level /\ lastSecurity \in {None} \cup SUBSET Packages
  /\ mail \in [health : Level \cup {None}, updates : SUBSET Packages]
  /\ xpc # "send" => mail = NoMail
  /\ sent \in 0 .. COUNT_MAX /\ failed \in 0 .. COUNT_MAX /\ decided \in 0 .. COUNT_MAX
  /\ body \in [level : Level \cup {None}, sent : 0 .. COUNT_MAX, failed : 0 .. COUNT_MAX]
  /\ told \in {None} \cup Level
  /\ announced \in [Packages -> 0 .. 2] /\ dropped \in SUBSET Packages

(***************************************************************************)
(* A receiver that missed nothing knows on which side of the floor the     *)
(* unit is: the last level it was told is below the floor exactly if the   *)
(* last one observed is.  Alerts are sent on edges only and never          *)
(* repeated, so a crossing that is not sent leaves it wrong until the      *)
(* next.  This is what docs/alerts.md:74-75 promises, a message for each   *)
(* crossing "in either direction"; the code also sends one for a move      *)
(* above the floor (moved_while_high), against that sentence and           *)
(* alerts.py:5-6, and nothing here depends on it.                          *)
(***************************************************************************)
ReceiverInStep ==
  told # None /\ mail.health = None => (told >= minLevel <=> lastLevel >= minLevel)

(***************************************************************************)
(* docs/alerts.md: "never on every tick".  A receiver that missed nothing  *)
(* is never told the same level twice running.                             *)
(***************************************************************************)
NeverToldTwice == told # None => mail.health # told

(***************************************************************************)
(* A security package is announced once while it stays pending, whatever   *)
(* the ticks, the restarts of the exporter and the checks that could not   *)
(* finish; unless a check failed and recorded it as not pending, or a boot *)
(* forgot the record.                                                      *)
(***************************************************************************)
AnnouncedOnce == \A p \in Packages : announced[p] <= 1 \/ p \in dropped

(***************************************************************************)
(* docs/alerts.md: a message goes out "when a new security update          *)
(* appears": the same without the exception.                               *)
(***************************************************************************)
AnnouncedOnceAlways == \A p \in Packages : announced[p] <= 1

(***************************************************************************)
(* alerts.py: "a failed send is logged and counted".  Between two turns    *)
(* every alert decided has been counted as sent or as failed.              *)
(***************************************************************************)
EverySendCounted ==
  xpc = "loop" /\ decided < COUNT_MAX => sent + failed = decided

(***************************************************************************)
(* Whatever the receiver answers, and even if every POST raises, the page  *)
(* comes to show the level of the unit: when the exporter is not stopped,  *)
(* the collectors do not raise and nothing changes any more, the broken    *)
(* webhook costs the page a turn and not its life.                         *)
(***************************************************************************)
Undisturbed ==
  /\ <>[][~(SigTerm \/ Killed \/ Boot \/ CollectRaises)]_vars
  /\ <>[][UNCHANGED file]_vars

PageSurvivesBrokenWebhook ==
  Undisturbed => \A l \in Level : <>[](level = l) =>
    <>[](body = [level |-> l, sent |-> sent, failed |-> failed])

=============================================================================
