---------------------------------- MODULE Tui ----------------------------------
(***************************************************************************)
(* The terminal UI: one thread that handles keys and draws, one that       *)
(* collects, and the login script around them.                             *)
(*                                                                         *)
(* The UI thread is an event loop.  It does one thing at a time, and a     *)
(* privileged command or an admin login holds it until it returns; what    *)
(* other threads hand it (call_from_thread) waits, and so do they.         *)
(* Textual is external; a turn of its loop is one action here: a key with  *)
(* the handler it reaches, or a snapshot with every screen it is posted    *)
(* to.                                                                     *)
(***************************************************************************)
EXTENDS Naturals, Sequences

CONSTANTS
  Units,            \* config.tui.services
  ALLOW_SHELL,      \* config.tui.allow_shell
  ADMIN,            \* config.tui.admin_user is set
  None,
  HANDED_MAX        \* bound: snapshots that wait for the UI thread

ASSUME TuiAssumption ==
  /\ ALLOW_SHELL \in BOOLEAN /\ ADMIN \in BOOLEAN
  /\ HANDED_MAX \in Nat \ {0}
  /\ None \notin Units

VARIABLES
  level,            \* of the host: what evaluate() would say now
  proc,             \* the login script: "down", "tui", "leaving" or "shell"
  stack,            \* screen_stack
  yesFocused,       \* on a question: the focus is on the Yes button
  busy,             \* the command that holds the UI thread, None when it is free
  toShell,          \* exit_to_shell
  collector,        \* _collect_loop: its place, the level it saw, and whether a
                    \* command has run since it began to gather
  handed,           \* snapshots on their way to the UI thread
  banner,           \* the level that the dashboard shows, None while "STARTING"
  loads,            \* threads of JournalScreen._load that have not returned
  journal,          \* the unit whose journal the journal screen shows
  typed,            \* history: keys typed on the open question
  late              \* history: snapshots from before the last command shown since

screenVars == <<stack, yesFocused, typed>>
dataVars == <<collector, handed, banner, late>>
journalVars == <<loads, journal>>
vars == <<level, proc, screenVars, busy, toShell, dataVars, journalVars>>

Level == {"OK", "CRITICAL"}

Restart(u) == [do |-> "restart", unit |-> u]
Do(what) == [do |-> what, unit |-> None]
Privileged ==
  { Restart(u) : u \in Units } \cup { Do("reboot"), Do("maint-on"), Do("maint-off") }
Command == Privileged \cup { Do("shell"), Do("admin") }

ASSUME NoneIsNoCommand == None \notin Command

(* "detail" stands for the screens that only show: GNSS, chrony, network,  *)
(* system and About.  What they and the status lines show is left out.     *)
Plain == {"dashboard", "menu", "detail", "services", "maint", "help"}
Screen(s) == [is |-> s, of |-> None]
Journal(u) == [is |-> "journal", of |-> u]
Confirm(c) == [is |-> "confirm", of |-> c]
Screens ==
  { Screen(s) : s \in Plain } \cup { Journal(u) : u \in Units }
    \cup { Confirm(c) : c \in Command \ {Do("admin")} }

Top == stack[Len(stack)]
Base == SubSeq(stack, 1, Len(stack) - 1)
On(s) == Top.is = s

Free == proc = "tui" /\ busy = None

Ended == [at |-> "ended", saw |-> "OK", old |-> FALSE]

(* No process: nothing of its state is left. *)
NoProcess ==
  /\ stack' = <<>> /\ yesFocused' = FALSE /\ typed' = {}
  /\ busy' = None /\ toShell' = FALSE
  /\ collector' = Ended /\ handed' = <<>> /\ banner' = None /\ late' = 0
  /\ loads' = {} /\ journal' = None

Init ==
  /\ level \in Level /\ proc = "down"
  /\ stack = <<>> /\ yesFocused = FALSE /\ typed = {}
  /\ busy = None /\ toShell = FALSE
  /\ collector = Ended /\ handed = <<>> /\ banner = None /\ late = 0
  /\ loads = {} /\ journal = None

-----------------------------------------------------------------------------
(* The host, and the login script that systemd or sshd starts. *)

HostChanges ==
  /\ level' \in Level \ {level}
  /\ UNCHANGED <<proc, screenVars, busy, toShell, dataVars, journalVars>>

(* on_mount: the dashboard (above Textual's empty screen) and the          *)
(* collector thread.                                                       *)
StartTui ==
  /\ proc = "down"
  /\ proc' = "tui"
  /\ stack' = <<Screen("dashboard")>>
  /\ collector' = [at |-> "gather", saw |-> level, old |-> FALSE]
  /\ UNCHANGED <<level, yesFocused, typed, busy, toShell, handed, banner, late, journalVars>>

(* The process ends when its threads have.  Exit code 10 is a shell, and   *)
(* any other ends the session, which the console service starts again.     *)
Leave ==
  /\ proc = "leaving" /\ collector.at \in {"ended", "raised"} /\ loads = {}
  /\ proc' = IF toShell THEN "shell" ELSE "down"
  /\ NoProcess
  /\ UNCHANGED level

ShellExits ==
  /\ proc = "shell"
  /\ proc' = "down"
  /\ UNCHANGED <<level, screenVars, busy, toShell, dataVars, journalVars>>

(* The unit stops or reboots, or the connection drops. *)
Killed ==
  /\ proc # "down"
  /\ proc' = "down"
  /\ NoProcess
  /\ UNCHANGED level

-----------------------------------------------------------------------------
(* The collector thread. *)

(* The thread goes on without waiting for the UI thread. *)
Gathered_BUG ==
  /\ collector.at = "gather" /\ Len(handed) < HANDED_MAX
  /\ \E l \in {collector.saw, level} :
       handed' = Append(handed, [level |-> l, old |-> collector.old])
  /\ collector' = [collector EXCEPT !.at = "sleep"]
  /\ UNCHANGED <<level, proc, screenVars, busy, toShell, banner, late, journalVars>>

(* gather() and evaluate(), in a time in which the level may change. *)
Gathered ==
  /\ collector.at = "gather" /\ Len(handed) < HANDED_MAX
  /\ \E l \in {collector.saw, level} :
       handed' = Append(handed, [level |-> l, old |-> collector.old])
  /\ collector' = [collector EXCEPT !.at = "waiting"]
  /\ UNCHANGED <<level, proc, screenVars, busy, toShell, banner, late, journalVars>>

(* Nothing in the loop catches an exception. *)
CollectorRaises ==
  /\ collector.at = "gather"
  /\ collector' = [collector EXCEPT !.at = "raised"]
  /\ UNCHANGED <<level, proc, screenVars, busy, toShell, handed, banner, late, journalVars>>

(* A worker that failed ends the app. *)
WorkerFailed ==
  /\ Free /\ collector.at = "raised"
  /\ proc' = "leaving"
  /\ UNCHANGED <<level, screenVars, busy, toShell, dataVars, journalVars>>

Shown(snapshots) == IF snapshots = <<>> THEN banner ELSE Head(snapshots).level

(* The banner is only drawn when it lies open. *)
Publish_BUG ==
  /\ Free /\ handed # <<>>
  /\ banner' = IF On("dashboard") THEN Shown(handed) ELSE banner
  /\ late' = IF Head(handed).old /\ late < 2 THEN late + 1 ELSE late
  /\ handed' = Tail(handed)
  /\ collector' = IF collector.at = "waiting" THEN [collector EXCEPT !.at = "sleep"] ELSE collector
  /\ UNCHANGED <<level, proc, screenVars, busy, toShell, journalVars>>

(* _publish: to every screen of the stack, the dashboard under them all    *)
(* included.                                                               *)
Publish ==
  /\ Free /\ handed # <<>>
  /\ banner' = Shown(handed)
  /\ late' = IF Head(handed).old /\ late < 2 THEN late + 1 ELSE late
  /\ handed' = Tail(handed)
  /\ collector' = IF collector.at = "waiting" THEN [collector EXCEPT !.at = "sleep"] ELSE collector
  /\ UNCHANGED <<level, proc, screenVars, busy, toShell, journalVars>>

Wake ==
  /\ collector.at = "sleep" /\ proc = "tui"
  /\ collector' = [at |-> "gather", saw |-> level, old |-> FALSE]
  /\ UNCHANGED <<level, proc, screenVars, busy, toShell, handed, banner, late, journalVars>>

(* is_cancelled is not looked at: only a thread that is handing over ends. *)
Cancelled_BUG ==
  /\ proc = "leaving" /\ collector.at = "waiting"
  /\ collector' = [collector EXCEPT !.at = "ended"]
  /\ handed' = <<>>
  /\ UNCHANGED <<level, proc, screenVars, busy, toShell, banner, late, journalVars>>

(* The app has cancelled its workers: a sleeping thread sees it, and one   *)
(* that hands over is let go by the loop.                                  *)
Cancelled ==
  /\ proc = "leaving" /\ collector.at \in {"sleep", "waiting"}
  /\ collector' = [collector EXCEPT !.at = "ended"]
  /\ handed' = <<>>
  /\ UNCHANGED <<level, proc, screenVars, busy, toShell, banner, late, journalVars>>

-----------------------------------------------------------------------------
(* Keys.  Each is handled by the screen on top. *)

KeyUnchanged == UNCHANGED <<level, proc, busy, toShell, dataVars>>

Push(screen) ==
  /\ stack' = Append(stack, screen)
  /\ yesFocused' = FALSE /\ typed' = {}

(* on_key of the dashboard. *)
OpenMenu ==
  /\ Free /\ On("dashboard")
  /\ Push(Screen("menu"))
  /\ KeyUnchanged /\ UNCHANGED journalVars

(* Without looking whether the help is open. *)
OpenHelp_BUG ==
  /\ Free /\ ~On("confirm")
  /\ Push(Screen("help"))
  /\ KeyUnchanged /\ UNCHANGED journalVars

(* F1, or the option of the menu. *)
OpenHelp ==
  /\ Free /\ ~On("confirm") /\ ~On("help")
  /\ Push(Screen("help"))
  /\ KeyUnchanged /\ UNCHANGED journalVars

(* The dashboard takes Esc, like the screens above it. *)
Back_BUG ==
  /\ Free /\ ~On("confirm")
  /\ stack' = Base
  /\ IF On("journal")
     THEN loads' = { [l EXCEPT !.own = FALSE] : l \in loads } /\ journal' = None
     ELSE UNCHANGED journalVars
  /\ KeyUnchanged /\ UNCHANGED <<yesFocused, typed>>

(* Esc or q; a screen that is not in SCREENS is gone for good. *)
Back ==
  /\ Free /\ ~On("dashboard") /\ ~On("confirm")
  /\ stack' = Base
  /\ IF On("journal")
     THEN loads' = { [l EXCEPT !.own = FALSE] : l \in loads } /\ journal' = None
     ELSE UNCHANGED journalVars
  /\ KeyUnchanged /\ UNCHANGED <<yesFocused, typed>>

(* A selected option opens a screen or a question. *)
MenuSelected ==
  /\ Free /\ On("menu")
  /\ \/ \E s \in {"detail", "services", "maint"} : Push(Screen(s))
     \/ ALLOW_SHELL /\ Push(Confirm(Do("shell")))
  /\ KeyUnchanged /\ UNCHANGED journalVars

RestartSelected ==
  /\ Free /\ On("services")
  /\ \E u \in Units : Push(Confirm(Restart(u)))
  /\ KeyUnchanged /\ UNCHANGED journalVars

LogSelected ==
  /\ Free /\ On("services")
  /\ \E u \in Units :
       Push(Journal(u)) /\ loads' = loads \cup {[unit |-> u, own |-> TRUE]}
  /\ KeyUnchanged /\ UNCHANGED journal

MaintSelected ==
  /\ Free /\ On("maint")
  /\ \E what \in {"reboot", "maint-on", "maint-off"} : Push(Confirm(Do(what)))
  /\ KeyUnchanged /\ UNCHANGED journalVars

(* exclusive=True cancels the worker of an earlier load, not its thread. *)
Reload ==
  /\ Free /\ On("journal")
  /\ loads' = loads \cup {[unit |-> Top.of, own |-> TRUE]}
  /\ KeyUnchanged /\ UNCHANGED <<screenVars, journal>>

(* call_from_thread(_show): a screen that is gone has nothing to show it   *)
(* in, and the failure is that of a cancelled worker.  Here it goes to the *)
(* screen that is open.                                                    *)
LoadReturns_BUG(l) ==
  /\ proc = "leaving" \/ Free
  /\ loads' = loads \ {l}
  /\ journal' = l.unit
  /\ UNCHANGED <<level, proc, screenVars, busy, toShell, dataVars>>

(* call_from_thread(_show): a screen that is gone has nothing to show it   *)
(* in, and the failure is that of a cancelled worker.                      *)
LoadReturns(l) ==
  /\ proc = "leaving" \/ Free
  /\ loads' = loads \ {l}
  /\ journal' = IF l.own THEN l.unit ELSE journal
  /\ UNCHANGED <<level, proc, screenVars, busy, toShell, dataVars>>

-----------------------------------------------------------------------------
(* Questions and the commands behind them. *)

(* Tab moves the focus between the two buttons. *)
Tab ==
  /\ Free /\ On("confirm")
  /\ yesFocused' = ~yesFocused /\ typed' = typed \cup {"tab"}
  /\ KeyUnchanged /\ UNCHANGED <<stack, journalVars>>

(* The callback of the screen that asked. *)
Confirmed(c) ==
  IF c.do = "shell" THEN toShell' = TRUE /\ proc' = "leaving" /\ UNCHANGED busy
  ELSE busy' = c /\ UNCHANGED <<toShell, proc>>

(* Enter answers yes whatever button has the focus. *)
Answer_BUG(key) ==
  /\ Free /\ On("confirm")
  /\ stack' = Base /\ yesFocused' = FALSE /\ typed' = {key} \cup typed
  /\ IF key \in {"y", "enter"} THEN Confirmed(Top.of) ELSE UNCHANGED <<busy, toShell, proc>>
  /\ UNCHANGED <<level, dataVars, journalVars>>

(* The question closes first; then the callback runs in the UI thread. *)
Answer(key) ==
  /\ Free /\ On("confirm")
  /\ stack' = Base /\ yesFocused' = FALSE /\ typed' = {key} \cup typed
  /\ IF key = "y" \/ (key = "enter" /\ yesFocused)
     THEN Confirmed(Top.of) ELSE UNCHANGED <<busy, toShell, proc>>
  /\ UNCHANGED <<level, dataVars, journalVars>>

(* Ctrl+A or the option of the menu; a question has no such key. *)
AdminLogin ==
  /\ Free /\ ~On("confirm") /\ ADMIN
  /\ busy' = Do("admin")
  /\ UNCHANGED <<level, proc, screenVars, toShell, dataVars, journalVars>>

(* What was gathered before now, or is being gathered, is old. *)
Returned ==
  /\ busy' = None /\ late' = 0
  /\ collector' = [collector EXCEPT !.old = collector.at \in {"gather", "waiting"}]
  /\ handed' = [i \in DOMAIN handed |-> [handed[i] EXCEPT !.old = TRUE]]
  /\ UNCHANGED <<level, proc, screenVars, toShell, banner, journalVars>>

(* It succeeded, failed or ran into its timeout of 30 or 120 s. *)
CommandReturns == proc = "tui" /\ busy \in Privileged /\ Returned

AdminLogsOut == proc = "tui" /\ busy = Do("admin") /\ Returned

(* Ctrl+Q *)
Quit ==
  /\ Free
  /\ proc' = "leaving"
  /\ UNCHANGED <<level, screenVars, busy, toShell, dataVars, journalVars>>

-----------------------------------------------------------------------------
Key ==
  \/ OpenMenu \/ OpenHelp \/ Back \/ MenuSelected \/ RestartSelected \/ LogSelected
  \/ MaintSelected \/ Reload \/ Tab \/ AdminLogin
  \/ \E key \in {"y", "n", "escape", "enter"} : Answer(key)

Next ==
  \/ HostChanges \/ StartTui \/ Leave \/ ShellExits \/ Killed
  \/ Gathered \/ CollectorRaises \/ WorkerFailed \/ Publish \/ Wake \/ Cancelled
  \/ Key \/ (\E l \in loads : LoadReturns(l))
  \/ CommandReturns \/ AdminLogsOut \/ Quit

Spec == Init /\ [][Next]_vars

(***************************************************************************)
(* The service restarts, every collector and every command has a timeout,  *)
(* the event loop serves what is handed to it in order (so a hand-over     *)
(* that commands keep interrupting is served at last).  Nothing is assumed *)
(* of the operator, of a shell or of the host.                             *)
(***************************************************************************)
Fairness ==
  /\ WF_vars(StartTui) /\ WF_vars(Leave)
  /\ WF_vars(Gathered \/ CollectorRaises) /\ WF_vars(Wake) /\ WF_vars(Cancelled)
  /\ SF_vars(Publish) /\ SF_vars(WorkerFailed)
  /\ SF_vars(\E l \in loads : LoadReturns(l))
  /\ WF_vars(CommandReturns)

FairSpec == Spec /\ Fairness

-----------------------------------------------------------------------------
(* Properties. *)

TypeOK ==
  /\ level \in Level /\ proc \in {"down", "tui", "leaving", "shell"}
  /\ stack \in Seq(Screens) /\ (proc = "tui" => stack # <<>> /\ stack[1] = Screen("dashboard"))
  /\ yesFocused \in BOOLEAN /\ typed \in SUBSET {"y", "n", "escape", "enter", "tab"}
  /\ busy \in {None} \cup Privileged \cup {Do("admin")} /\ toShell \in BOOLEAN
  /\ collector \in [at : {"gather", "waiting", "sleep", "raised", "ended"}, saw : Level, old : BOOLEAN]
  /\ handed \in Seq([level : Level, old : BOOLEAN]) /\ Len(handed) <= HANDED_MAX
  /\ banner \in {None} \cup Level
  /\ loads \in SUBSET [unit : Units, own : BOOLEAN] /\ journal \in {None} \cup Units
  /\ late \in 0 .. 2

(***************************************************************************)
(* The screens of SCREENS are one instance each: whatever the keys, none   *)
(* is on the stack twice, so Esc always leads home.                        *)
(***************************************************************************)
EachScreenOnce ==
  \A i, j \in DOMAIN stack : stack[i].is = stack[j].is => i = j

(***************************************************************************)
(* README.md, "Every restart and reboot asks for confirmation, and No is   *)
(* the default answer": a command runs, or the TUI gives way to a shell,   *)
(* only when its own question was on top of the screen that offers it and  *)
(* the operator typed something else than Enter on it.  Keys typed ahead   *)
(* while a command held the UI thread are no exception.                    *)
(***************************************************************************)
Offers(s) ==
  CASE s = "services" -> { Restart(u) : u \in Units }
    [] s = "maint" -> { Do("reboot"), Do("maint-on"), Do("maint-off") }
    [] s = "menu" -> { c \in { Do("shell") } : ALLOW_SHELL }
    [] OTHER -> {}

AskedFirst(c) ==
  /\ On("confirm") /\ Top.of = c /\ c \in Offers(Base[Len(Base)].is)
  /\ typed' \cap {"y", "tab"} # {}

CommandAsAsked ==
  [][ /\ busy' \in Privileged /\ busy' # busy => AskedFirst(busy')
      /\ toShell' /\ ~toShell => AskedFirst(Do("shell")) ]_vars

(***************************************************************************)
(* The same promise over whole sessions: the terminal UI, its two threads  *)
(* and the login script implement the console.  A command runs alone, with *)
(* no question open, and the script ends in a shell only when its question *)
(* was answered so, whatever a quit, a crash or the collector does there.  *)
(***************************************************************************)
Asking == proc = "tui" /\ busy = None /\ On("confirm")
Place ==
  IF proc = "tui" THEN (IF Asking THEN "asking" ELSE IF busy = None THEN "screens" ELSE "running")
  ELSE [down |-> "closed", shell |-> "shell", leaving |-> "ending"][proc]
Seen ==
  IF proc # "tui" THEN None
  ELSE IF On("confirm") THEN stack[Len(stack) - 1].is ELSE Top.is
About ==
  IF proc = "leaving" THEN (IF toShell THEN Do("shell") ELSE None)
  ELSE IF Asking THEN Top.of ELSE busy
Meant == About \in Command \ {Do("admin")} /\ typed \cap {"y", "tab"} # {}

Promise ==
  INSTANCE Console WITH
    Offered <- { sc \in Plain \X Command : sc[2] \in Offers(sc[1]) },
    Unasked <- {Do("admin")}, Shell <- Do("shell"), None <- None,
    at <- Place, on <- Seen, what <- About, meant <- Meant
ConsoleSpec == Promise!Spec

(***************************************************************************)
(* A journal screen shows the journal of its unit, whatever loads of       *)
(* screens before it return late.                                          *)
(***************************************************************************)
RightJournal ==
  \A i \in DOMAIN stack : stack[i].is = "journal" => journal \in {None, stack[i].of}

(***************************************************************************)
(* However long a command held the UI thread, at most one snapshot from    *)
(* before its end is shown after it: the collector waits, nothing piles up *)
(* that would show the old state of a unit that was restarted.             *)
(***************************************************************************)
OneLateSnapshot == late <= 1

(***************************************************************************)
(* README.md: the banner is red "on a critical fault".  When the level no  *)
(* longer changes, the dashboard comes to show it and keeps showing it,    *)
(* under any screens, keys and commands, unless for ever somebody quits    *)
(* the TUI or the collector raises; and nobody stays in a shell.           *)
(***************************************************************************)
BannerFollows ==
  \A l \in Level :
    /\ <>[](level = l) /\ <>[](busy # Do("admin") /\ proc # "shell")
    /\ <>[][~(Quit \/ CollectorRaises \/ Killed)]_vars
    => <>[](banner = l)

(***************************************************************************)
(* A TUI that is told to quit, or to make way for a shell, ends, wherever  *)
(* the collector and the loads are at that moment.                         *)
(***************************************************************************)
LeavesInTheEnd == proc = "leaving" ~> proc # "leaving"

=============================================================================
