------------------------------- MODULE TuiProofs -------------------------------
(***************************************************************************)
(* What the terminal UI keeps true whatever is typed, for every set of     *)
(* services: commands run only as asked, each screen is open once, each    *)
(* journal is the right one, no backlog of old snapshots builds up, and    *)
(* the whole implements the console (Console.tla).                         *)
(***************************************************************************)
EXTENDS Tui, TLAPS, SequenceTheorems

(* How deep a screen can lie: a screen is opened only by shallower ones. *)
Rank(s) ==
  IF s = "dashboard" THEN 1
  ELSE IF s = "menu" THEN 2
  ELSE IF s \in {"detail", "services", "maint"} THEN 3
  ELSE IF s = "journal" THEN 4
  ELSE 5

(* A stack in which each screen lies on a shallower one, none higher than  *)
(* it is deep, and a question on the screen that offers its command.       *)
Orderly(st) ==
  /\ \A i, j \in DOMAIN st : i < j => Rank(st[i].is) < Rank(st[j].is)
  /\ \A i \in DOMAIN st : i <= Rank(st[i].is)
  /\ \A i \in DOMAIN st :
       st[i].is = "confirm" => i > 1 /\ st[i].of \in Offers(st[i - 1].is)

Focus == yesFocused => "tab" \in typed

(* Whatever is loaded for a screen that is still there, or was shown on    *)
(* it, is for the journal screen on the stack.                             *)
JournalsOpen ==
  /\ \A l \in loads : l.own => \E i \in DOMAIN stack : stack[i] = Journal(l.unit)
  /\ journal # None => \E i \in DOMAIN stack : stack[i] = Journal(journal)

(* The collector hands over one snapshot at a time; once an old one has    *)
(* been shown, none is left.                                               *)
OneAtATime ==
  /\ handed # <<>> =>
       /\ collector.at = "waiting" /\ Len(handed) = 1
       /\ handed[1].old = collector.old
  /\ collector.at \in {"gather", "waiting"} /\ collector.old => late = 0

(* Without the TUI there are no screens and no thread. *)
Empty == proc \in {"down", "shell"} => stack = <<>> /\ collector.at = "ended"

StackInv ==
  /\ stack \in Seq(Screens)
  /\ proc \in {"tui", "leaving"} => stack # <<>> /\ stack[1] = Screen("dashboard")
  /\ Orderly(stack) /\ Focus

-----------------------------------------------------------------------------
(* The screens that are pushed are screens. *)
LEMMA ScreenTypes ==
  /\ \A s \in Plain : Screen(s) \in Screens
  /\ \A u \in Units : Journal(u) \in Screens
  /\ \A u \in Units : Confirm(Restart(u)) \in Screens
  /\ \A what \in {"reboot", "maint-on", "maint-off", "shell"} : Confirm(Do(what)) \in Screens
<1>1. \A what \in {"reboot", "maint-on", "maint-off", "shell"} : Do(what) \in Command \ {Do("admin")}
  BY DEF Command, Privileged, Do
<1>2. \A u \in Units : Restart(u) \in Command \ {Do("admin")}
  BY DEF Command, Privileged, Do, Restart
<1> QED BY <1>1, <1>2 DEF Screens

(* A stack stays orderly when a deeper screen is put on it, a question     *)
(* only on the screen that offers it.                                      *)
LEMMA PushOrderly ==
  ASSUME NEW st \in Seq(Screens), Orderly(st), st # <<>>, NEW s \in Screens,
         Rank(st[Len(st)].is) < Rank(s.is),
         s.is = "confirm" => s.of \in Offers(st[Len(st)].is)
  PROVE  /\ Append(st, s) \in Seq(Screens) /\ Orderly(Append(st, s))
         /\ Append(st, s) # <<>> /\ Append(st, s)[1] = st[1]
         /\ \A i \in DOMAIN st : i \in DOMAIN Append(st, s) /\ Append(st, s)[i] = st[i]
         /\ Len(st) + 1 \in DOMAIN Append(st, s) /\ Append(st, s)[Len(st) + 1] = s
<1> DEFINE new == Append(st, s)
           n == Len(st)
<1>1. /\ new \in Seq(Screens) /\ Len(new) = n + 1 /\ new[n + 1] = s
      /\ \A i \in 1 .. n : new[i] = st[i]
  OBVIOUS
<1>2. n \in Nat \ {0} /\ DOMAIN st = 1 .. n /\ DOMAIN new = 1 .. n + 1
  BY <1>1, EmptySeq
<1> HIDE DEF new, n
<1>3. st[n] = st[Len(st)]
  BY DEF n
<1>4. \A i \in 1 .. n : Rank(st[i].is) < Rank(s.is)
  <2> TAKE i \in 1 .. n
  <2>1. Rank(st[i].is) \in Nat /\ Rank(st[n].is) \in Nat /\ Rank(s.is) \in Nat
    BY DEF Rank
  <2>2. i < n => Rank(st[i].is) < Rank(st[n].is)
    BY <1>2 DEF Orderly
  <2> QED BY <1>2, <1>3, <2>1, <2>2
<1>5. \A i, j \in DOMAIN new : i < j => Rank(new[i].is) < Rank(new[j].is)
  BY <1>1, <1>2, <1>4 DEF Orderly
<1>9. \A i \in DOMAIN new : i <= Rank(new[i].is)
  <2>1. n <= Rank(st[n].is) /\ Rank(st[n].is) \in Nat /\ Rank(s.is) \in Nat
    BY <1>2 DEF Orderly, Rank
  <2> QED BY <1>1, <1>2, <1>3, <2>1 DEF Orderly
<1>6. \A i \in DOMAIN new :
        new[i].is = "confirm" => i > 1 /\ new[i].of \in Offers(new[i - 1].is)
  <2> TAKE i \in DOMAIN new
  <2>1. CASE i \in 1 .. n
    BY <1>1, <1>2, <2>1 DEF Orderly
  <2>2. CASE i = n + 1
    BY <1>1, <1>2, <1>3, <2>2
  <2> QED BY <1>2, <2>1, <2>2
<1>7. new # <<>>
  BY <1>2, EmptySeq
<1>8. Orderly(new)
  BY <1>5, <1>6, <1>9 DEF Orderly
<1> QED BY <1>1, <1>2, <1>7, <1>8 DEF new, n

(* And when its top is taken off. *)
LEMMA PopOrderly ==
  ASSUME NEW st \in Seq(Screens), Orderly(st), Len(st) > 1
  PROVE  LET b == SubSeq(st, 1, Len(st) - 1)
         IN  /\ b \in Seq(Screens) /\ Orderly(b) /\ b # <<>> /\ b[1] = st[1]
             /\ Len(b) = Len(st) - 1 /\ DOMAIN b = 1 .. Len(st) - 1
             /\ \A i \in DOMAIN b : b[i] = st[i]
<1> DEFINE n == Len(st)
           b == SubSeq(st, 1, n - 1)
<1>1. n \in Nat /\ DOMAIN st = 1 .. n
  OBVIOUS
<1>2. \A i \in 1 .. n - 1 : st[i] \in Screens
  BY <1>1, ElementOfSeq
<1>3. /\ b \in Seq(Screens) /\ Len(b) = n - 1
      /\ \A i \in 1 .. n - 1 : b[i] = st[i]
  <2>1. /\ SubSeq(st, 1, n - 1) \in Seq(Screens)
        /\ Len(SubSeq(st, 1, n - 1)) = IF 1 <= n - 1 THEN n - 1 - 1 + 1 ELSE 0
        /\ \A i \in 1 .. n - 1 - 1 + 1 : SubSeq(st, 1, n - 1)[i] = st[1 + i - 1]
    <3> HIDE DEF n
    <3> QED BY <1>1, <1>2, SubSeqProperties
  <2> HIDE DEF n
  <2> QED BY <1>1, <2>1
<1> HIDE DEF b
<1>4. DOMAIN b = 1 .. n - 1
  BY <1>3
<1>5. n > 1 /\ Orderly(st)
  OBVIOUS
<1> HIDE DEF n
<1>6. Orderly(b) /\ b # <<>> /\ b[1] = st[1]
  BY <1>1, <1>3, <1>4, <1>5, EmptySeq DEF Orderly
<1> QED BY <1>3, <1>4, <1>6 DEF b, n

-----------------------------------------------------------------------------
(* Pushing a deeper screen keeps the stack in shape. *)
LEMMA PushStep ==
  ASSUME StackInv, Free, NEW s \in Screens, Push(s), Rank(Top.is) < Rank(s.is),
         s.is = "confirm" => s.of \in Offers(Top.is)
  PROVE  /\ stack' \in Seq(Screens) /\ stack' # <<>> /\ stack'[1] = stack[1]
         /\ Orderly(stack') /\ Focus'
         /\ \A i \in DOMAIN stack : i \in DOMAIN stack' /\ stack'[i] = stack[i]
         /\ Len(stack) + 1 \in DOMAIN stack' /\ stack'[Len(stack) + 1] = s
<1>1. stack \in Seq(Screens) /\ Orderly(stack) /\ stack # <<>>
  BY DEF StackInv, Free
<1>2. stack' = Append(stack, s) /\ Focus'
  BY DEF Push, Focus
<1> QED BY <1>1, <1>2, PushOrderly DEF Top

(* So does leaving the screen on top, when it is not the dashboard. *)
LEMMA PopStep ==
  ASSUME StackInv, Free, ~On("dashboard"), stack' = Base
  PROVE  /\ Len(stack) > 1
         /\ stack' \in Seq(Screens) /\ stack' # <<>> /\ stack'[1] = stack[1]
         /\ Orderly(stack') /\ DOMAIN stack' = 1 .. Len(stack) - 1
         /\ Len(stack') = Len(stack) - 1
         /\ \A i \in DOMAIN stack' : stack'[i] = stack[i]
<1>1. stack \in Seq(Screens) /\ Orderly(stack) /\ stack # <<>> /\ stack[1].is = "dashboard"
  BY DEF StackInv, Free, Screen
<1>2. Len(stack) \in Nat \ {0}
  BY <1>1, EmptySeq
<1>3. Len(stack) > 1
  BY <1>1, <1>2 DEF On, Top
<1> QED BY <1>1, <1>3, PopOrderly DEF Base

(* What a key opens is deeper than the screen it is typed on, and a         *)
(* question is one that this screen offers.                                *)
LEMMA PushedScreen ==
  ASSUME StackInv,
         OpenMenu \/ OpenHelp \/ MenuSelected \/ RestartSelected \/ LogSelected \/ MaintSelected
  PROVE  /\ Free /\ ~On("confirm") /\ UNCHANGED <<proc, busy, toShell>>
         /\ \E s \in Screens : /\ Push(s) /\ Rank(Top.is) < Rank(s.is)
                               /\ s.is = "confirm" => s.of \in Offers(Top.is)
<1> DEFINE Fits(s) == /\ s \in Screens /\ Push(s) /\ Rank(Top.is) < Rank(s.is)
                      /\ s.is = "confirm" => s.of \in Offers(Top.is)
<1>0. /\ Free /\ ~On("confirm") /\ UNCHANGED <<proc, busy, toShell>>
  BY DEF OpenMenu, OpenHelp, MenuSelected, RestartSelected, LogSelected, MaintSelected,
         KeyUnchanged, On
<1>1. CASE OpenMenu
  <2>1. Screen("menu") \in Screens /\ Screen("menu").is = "menu"
    BY ScreenTypes DEF Plain, Screen
  <2>2. Fits(Screen("menu"))
    BY <1>1, <2>1 DEF OpenMenu, On, Rank
  <2> QED BY <1>0, <2>2
<1>2. CASE OpenHelp
  <2>1. Screen("help") \in Screens /\ Screen("help").is = "help"
    BY ScreenTypes DEF Plain, Screen
  <2>2. Top \in Screens
    BY <1>2, EmptySeq, ElementOfSeq DEF OpenHelp, StackInv, Top, Free
  <2>3. Rank(Top.is) < Rank("help")
    BY <1>2, <2>2 DEF OpenHelp, On, Screens, Screen, Journal, Confirm, Plain, Rank
  <2>4. Fits(Screen("help"))
    BY <1>2, <2>1, <2>3 DEF OpenHelp
  <2> QED BY <1>0, <2>4
<1>3. CASE MenuSelected
  <2>1. ASSUME NEW s \in {"detail", "services", "maint"}, Push(Screen(s)) PROVE Fits(Screen(s))
    <3>1. Screen(s) \in Screens /\ Screen(s).is = s
      BY ScreenTypes DEF Plain, Screen
    <3> QED BY <1>3, <2>1, <3>1 DEF MenuSelected, On, Rank
  <2>2. ASSUME ALLOW_SHELL, Push(Confirm(Do("shell"))) PROVE Fits(Confirm(Do("shell")))
    <3>1. /\ Confirm(Do("shell")) \in Screens /\ Rank("menu") < Rank(Confirm(Do("shell")).is)
          /\ Confirm(Do("shell")).of \in Offers("menu")
      BY <2>2, ScreenTypes DEF Confirm, Rank, Offers
    <3> QED BY <1>3, <2>2, <3>1 DEF MenuSelected, On
  <2>3. \E s : Fits(s)
    BY <1>3, <2>1, <2>2 DEF MenuSelected
  <2> QED BY <1>0, <2>3
<1>4. CASE RestartSelected
  <2>1. PICK u \in Units : Push(Confirm(Restart(u)))
    BY <1>4 DEF RestartSelected
  <2>2. /\ Confirm(Restart(u)) \in Screens /\ Rank("services") < Rank(Confirm(Restart(u)).is)
        /\ Confirm(Restart(u)).of \in Offers("services")
    BY ScreenTypes DEF Confirm, Rank, Offers
  <2>3. Fits(Confirm(Restart(u)))
    BY <1>4, <2>1, <2>2 DEF RestartSelected, On
  <2> QED BY <1>0, <2>3
<1>5. CASE LogSelected
  <2>1. PICK u \in Units : Push(Journal(u))
    BY <1>5 DEF LogSelected
  <2>2. /\ Journal(u) \in Screens /\ Rank("services") < Rank(Journal(u).is)
        /\ Journal(u).is # "confirm"
    BY ScreenTypes DEF Journal, Rank
  <2>3. Fits(Journal(u))
    BY <1>5, <2>1, <2>2 DEF LogSelected, On
  <2> QED BY <1>0, <2>3
<1>6. CASE MaintSelected
  <2>1. PICK what \in {"reboot", "maint-on", "maint-off"} : Push(Confirm(Do(what)))
    BY <1>6 DEF MaintSelected
  <2>2. /\ Confirm(Do(what)) \in Screens /\ Rank("maint") < Rank(Confirm(Do(what)).is)
        /\ Confirm(Do(what)).of \in Offers("maint")
    BY ScreenTypes DEF Confirm, Rank, Offers
  <2>3. Fits(Confirm(Do(what)))
    BY <1>6, <2>1, <2>2 DEF MaintSelected, On
  <2> QED BY <1>0, <2>3
<1> QED BY <1>1, <1>2, <1>3, <1>4, <1>5, <1>6

(* Every step keeps the stack in shape: one step per action that moves it. *)
LEMMA StackNext == StackInv /\ Empty /\ [Next]_vars => StackInv'
<1> SUFFICES ASSUME StackInv, Empty, [Next]_vars PROVE StackInv'
  OBVIOUS
<1>k. ASSUME UNCHANGED screenVars, proc' \in {"tui", "leaving"} => proc \in {"tui", "leaving"}
      PROVE StackInv'
  BY <1>k DEF StackInv, Orderly, Focus, screenVars
<1>p. ASSUME Free, NEW s \in Screens, Push(s), Rank(Top.is) < Rank(s.is), UNCHANGED proc,
             s.is = "confirm" => s.of \in Offers(Top.is)
      PROVE  StackInv'
  BY <1>p, PushStep DEF StackInv, Free
<1>b. ASSUME Free, ~On("dashboard"), stack' = Base, Focus', proc' \in {"tui", "leaving"}
      PROVE  StackInv'
  BY <1>b, PopStep DEF StackInv, Free
<1>n. ASSUME NoProcess, proc' \in {"down", "shell"} PROVE StackInv'
  BY <1>n, EmptySeq DEF NoProcess, StackInv, Orderly, Focus
<1>1. CASE HostChanges
  BY <1>1, <1>k DEF HostChanges
<1>2. CASE StartTui
  <2>1. stack' = <<Screen("dashboard")>> /\ UNCHANGED <<yesFocused, typed>>
    BY <1>2 DEF StartTui
  <2>2. Screen("dashboard") \in Screens /\ Screen("dashboard").is = "dashboard"
    BY ScreenTypes DEF Plain, Screen
  <2>3. stack' \in Seq(Screens) /\ DOMAIN stack' = {1} /\ stack'[1] = Screen("dashboard")
    BY <2>1, <2>2
  <2> QED BY <2>1, <2>2, <2>3 DEF StackInv, Orderly, Focus, Rank
<1>3. CASE Leave \/ Killed
  BY <1>3, <1>n DEF Leave, Killed
<1>4. CASE ShellExits \/ Gathered \/ CollectorRaises \/ WorkerFailed \/ Publish \/ Wake \/ Cancelled
  BY <1>4, <1>k DEF ShellExits, Gathered, CollectorRaises, WorkerFailed, Publish, Wake, Cancelled, Free
<1>5. CASE OpenMenu \/ OpenHelp \/ MenuSelected \/ RestartSelected \/ LogSelected \/ MaintSelected
  BY <1>5, <1>p, PushedScreen
<1>7. CASE Back
  BY <1>7, <1>b DEF Back, KeyUnchanged, StackInv, Focus, Free
<1>12. CASE Tab
  BY <1>12 DEF Tab, KeyUnchanged, StackInv, Orderly, Focus
<1>13. CASE \E key \in {"y", "n", "escape", "enter"} : Answer(key)
  BY <1>13, <1>b DEF Answer, Confirmed, On, Focus, Free
<1>14. CASE Reload \/ AdminLogin \/ Quit \/ CommandReturns \/ AdminLogsOut \/ UNCHANGED vars
  BY <1>14, <1>k DEF Reload, KeyUnchanged, AdminLogin, Quit, CommandReturns, AdminLogsOut,
                     Returned, Free, vars
<1>15. CASE \E l \in loads : LoadReturns(l)
  BY <1>15, <1>k DEF LoadReturns
<1> QED
  BY <1>1, <1>2, <1>3, <1>4, <1>5, <1>7, <1>12, <1>13, <1>14, <1>15 DEF Next, Key

-----------------------------------------------------------------------------
(* The collector's place is one of five, and its snapshots stay typed.     *)
CollectorType ==
  /\ collector \in [at : {"gather", "waiting", "sleep", "raised", "ended"}, saw : Level, old : BOOLEAN]
  /\ handed \in Seq([level : Level, old : BOOLEAN]) /\ Len(handed) <= HANDED_MAX
  /\ level \in Level /\ banner \in {None} \cup Level /\ late \in 0 .. 2

CollectorInv == CollectorType /\ OneAtATime /\ Empty /\ OneLateSnapshot

(* Each step of the collector and of a returning command keeps one         *)
(* snapshot at most on its way.                                            *)
LEMMA CollectorNext == CollectorInv /\ [Next]_vars => CollectorInv'
<1> SUFFICES ASSUME CollectorInv, [Next]_vars PROVE CollectorInv'
  OBVIOUS
<1> DEFINE Spot  == {"gather", "waiting", "sleep", "raised", "ended"}
           CR == [at : Spot, saw : Level, old : BOOLEAN]
           SR == [level : Level, old : BOOLEAN]
<1>t. /\ collector \in CR /\ handed \in Seq(SR) /\ level \in Level /\ HANDED_MAX \in Nat \ {0}
      /\ banner \in {None} \cup Level /\ late \in 0 .. 2 /\ Len(handed) <= HANDED_MAX
  BY TuiAssumption DEF CollectorInv, CollectorType
<1>h. /\ DOMAIN handed = 1 .. Len(handed) /\ \A i \in DOMAIN handed : handed[i] \in SR
      /\ handed # <<>> => Head(handed) = handed[1]
  <2> HIDE DEF SR
  <2> QED BY <1>t, ElementOfSeq, HeadTailProperties
<1>a. \A place \in Spot :
        LET c == [collector EXCEPT !.at = place]
        IN  c \in CR /\ c.at = place /\ c.old = collector.old
  BY <1>t
<1>e. collector.at # "waiting" => handed = <<>>
  BY DEF CollectorInv, OneAtATime
<1>k. ASSUME UNCHANGED dataVars, level' \in Level, proc' \in {"down", "shell"} => proc \in {"down", "shell"},
             stack' = stack \/ proc' \notin {"down", "shell"}
      PROVE  CollectorInv'
  BY <1>k DEF CollectorInv, CollectorType, OneAtATime, Empty, OneLateSnapshot, dataVars
<1>1. CASE HostChanges
  BY <1>1, <1>k DEF HostChanges, screenVars
<1>2. CASE StartTui
  <2>1. handed = <<>> /\ proc' = "tui"
    BY <1>2, <1>e DEF StartTui, CollectorInv, Empty
  <2>2. collector' \in CR /\ collector'.at = "gather" /\ collector'.old = FALSE
    BY <1>2, <1>t DEF StartTui
  <2> QED BY <1>2, <2>1, <2>2 DEF StartTui, CollectorInv, CollectorType, OneAtATime, Empty, OneLateSnapshot
<1>3. CASE Leave \/ Killed
  <2>1. NoProcess /\ UNCHANGED level
    BY <1>3 DEF Leave, Killed
  <2>2. Ended \in CR /\ Ended.at = "ended" /\ <<>> \in Seq(SR) /\ Len(<<>>) = 0
    BY DEF Ended, Level
  <2> QED BY <1>t, <2>1, <2>2 DEF NoProcess, CollectorInv, CollectorType, OneAtATime, Empty, OneLateSnapshot
<1>4. CASE ShellExits
  BY <1>4, <1>k, <1>t DEF ShellExits, screenVars
<1>5. CASE Gathered
  <2>1. PICK l \in {collector.saw, level} :
          handed' = Append(handed, [level |-> l, old |-> collector.old])
    BY <1>5 DEF Gathered
  <2> DEFINE snap == [level |-> l, old |-> collector.old]
  <2>2. handed = <<>> /\ snap \in SR /\ snap.old = collector.old
    BY <1>5, <1>e, <1>t DEF Gathered
  <2> HIDE DEF snap
  <2>3. handed' \in Seq(SR) /\ Len(handed') = 1 /\ handed'[1] = snap
    BY <2>1, <2>2 DEF snap
  <2>4. collector' \in CR /\ collector'.at = "waiting" /\ collector'.old = collector.old
    BY <1>5, <1>a DEF Gathered
  <2>5. collector.old => late = 0
    BY <1>5 DEF Gathered, CollectorInv, OneAtATime
  <2>6. UNCHANGED <<level, banner, late, proc, stack>> /\ collector.at = "gather"
    BY <1>5 DEF Gathered, screenVars
  <2> QED
    BY <1>t, <2>2, <2>3, <2>4, <2>5, <2>6 DEF CollectorInv, CollectorType, OneAtATime, Empty, OneLateSnapshot
<1>6. CASE CollectorRaises
  <2>1. collector' \in CR /\ collector'.at = "raised" /\ handed = <<>>
    BY <1>6, <1>a, <1>e DEF CollectorRaises
  <2> QED
    BY <1>6, <1>t, <2>1 DEF CollectorRaises, screenVars, CollectorInv, CollectorType, OneAtATime, Empty,
                            OneLateSnapshot
<1>7. CASE Publish
  <2>1. /\ handed # <<>> /\ collector.at = "waiting" /\ Len(handed) = 1
        /\ handed[1].old = collector.old /\ (collector.old => late = 0)
    BY <1>7 DEF Publish, CollectorInv, OneAtATime
  <2>2. handed' = <<>> /\ handed' \in Seq(SR) /\ Len(handed') = 0
    BY <1>7, <1>t, <2>1, HeadTailProperties, EmptySeq DEF Publish
  <2>3. Head(handed) = handed[1] /\ Head(handed) \in SR
    BY <1>h, <2>1
  <2>4. banner' \in Level
    BY <1>7, <2>1, <2>3 DEF Publish, Shown
  <2>5. collector' \in CR /\ collector'.at = "sleep"
    BY <1>7, <1>a, <2>1 DEF Publish
  <2>6. late' \in 0 .. 1
    BY <1>7, <1>t, <2>1, <2>3 DEF Publish, CollectorInv, OneLateSnapshot
  <2>7. UNCHANGED <<level, proc>> /\ proc = "tui"
    BY <1>7 DEF Publish, Free
  <2> QED
    BY <1>t, <2>2, <2>4, <2>5, <2>6, <2>7 DEF CollectorInv, CollectorType, OneAtATime, Empty, OneLateSnapshot
<1>8. CASE Wake
  <2>1. collector' \in CR /\ collector'.at = "gather" /\ collector'.old = FALSE /\ handed = <<>>
    BY <1>8, <1>t, <1>e DEF Wake
  <2> QED
    BY <1>8, <1>t, <2>1 DEF Wake, CollectorInv, CollectorType, OneAtATime, Empty, OneLateSnapshot
<1>9. CASE Cancelled
  <2>1. collector' \in CR /\ collector'.at = "ended" /\ handed' = <<>> /\ <<>> \in Seq(SR)
    BY <1>9, <1>a DEF Cancelled
  <2> QED
    BY <1>9, <1>t, <2>1 DEF Cancelled, screenVars, CollectorInv, CollectorType, OneAtATime, Empty,
                            OneLateSnapshot
<1>10. CASE CommandReturns \/ AdminLogsOut
  <2>1. Returned /\ proc = "tui"
    BY <1>10 DEF CommandReturns, AdminLogsOut
  <2>2. collector' \in CR /\ collector'.at = collector.at
        /\ (collector.at = "waiting" => collector'.old = TRUE)
    <3> DEFINE isOld == collector.at \in {"gather", "waiting"}
               c == [collector EXCEPT !.old = isOld]
    <3>1. isOld \in BOOLEAN /\ (collector.at = "waiting" => isOld = TRUE)
      OBVIOUS
    <3> HIDE DEF isOld
    <3>2. c \in CR /\ c.at = collector.at /\ c.old = isOld
      BY <1>t, <3>1
    <3> QED BY <2>1, <3>1, <3>2 DEF Returned, isOld
  <2>3. \A i \in DOMAIN handed : LET r == [handed[i] EXCEPT !.old = TRUE] IN r \in SR /\ r.old = TRUE
    <3> TAKE i \in DOMAIN handed
    <3>1. handed[i] \in SR
      BY <1>h
    <3> QED BY <3>1
  <2>4. /\ handed' \in Seq(SR) /\ Len(handed') = Len(handed)
        /\ \A i \in DOMAIN handed : handed'[i].old = TRUE
    <3>1. Len(handed) \in Nat /\ DOMAIN handed = 1 .. Len(handed)
      BY <1>t
    <3>2. handed' = [i \in 1 .. Len(handed) |-> [handed[i] EXCEPT !.old = TRUE]]
      BY <2>1, <3>1 DEF Returned
    <3> QED BY <2>3, <3>1, <3>2
  <2>5. handed' # <<>> => handed # <<>>
    BY <1>t, <2>4, EmptySeq
  <2>6. handed # <<>> => Len(handed) = 1 /\ collector.at = "waiting" /\ 1 \in DOMAIN handed
    BY <1>t DEF CollectorInv, OneAtATime
  <2>7. late' = 0 /\ UNCHANGED <<level, proc, banner>>
    BY <2>1 DEF Returned
  <2>8. CollectorType'
    BY <1>t, <2>2, <2>4, <2>7 DEF CollectorType
  <2>9. OneAtATime'
    <3>1. handed' # <<>> =>
            collector'.at = "waiting" /\ Len(handed') = 1 /\ handed'[1].old = TRUE
      BY <2>2, <2>4, <2>5, <2>6
    <3>2. handed' # <<>> => collector'.old = TRUE
      BY ZenonT(30), <2>2, <2>5, <2>6
    <3>3. handed' # <<>> => handed'[1].old = collector'.old
      BY ZenonT(30), <3>1, <3>2
    <3> QED BY <2>7, <3>1, <3>3 DEF OneAtATime
  <2> QED BY <2>1, <2>7, <2>8, <2>9 DEF CollectorInv, Empty, OneLateSnapshot
<1>11. CASE Key
  BY <1>11, <1>k, <1>t DEF Key, OpenMenu, OpenHelp, Back, MenuSelected, RestartSelected, LogSelected,
       MaintSelected, Reload, Tab, AdminLogin, Answer, Confirmed, KeyUnchanged, Free
<1>12. CASE WorkerFailed \/ Quit \/ (\E l \in loads : LoadReturns(l)) \/ UNCHANGED vars
  BY <1>12, <1>k, <1>t DEF WorkerFailed, Quit, LoadReturns, Free, vars, screenVars
<1> QED
  BY <1>1, <1>2, <1>3, <1>4, <1>5, <1>6, <1>7, <1>8, <1>9, <1>10, <1>11, <1>12 DEF Next

-----------------------------------------------------------------------------
(* The rest of the types: the script, the question, the command, the loads. *)
RestType ==
  /\ proc \in {"down", "tui", "leaving", "shell"}
  /\ yesFocused \in BOOLEAN /\ typed \in SUBSET {"y", "n", "escape", "enter", "tab"}
  /\ busy \in {None} \cup Privileged \cup {Do("admin")} /\ toShell \in BOOLEAN
  /\ loads \in SUBSET [unit : Units, own : BOOLEAN] /\ journal \in {None} \cup Units

(* The screens on top, by what they are. *)
LEMMA TopTypes ==
  ASSUME StackInv, Free
  PROVE  /\ stack # <<>> /\ Len(stack) \in Nat \ {0} /\ DOMAIN stack = 1 .. Len(stack)
         /\ Top \in Screens
         /\ On("journal") => Top.of \in Units /\ Top = Journal(Top.of)
         /\ On("confirm") => Top.of \in Command \ {Do("admin")}
<1>1. /\ stack \in Seq(Screens) /\ stack # <<>> /\ Len(stack) \in Nat \ {0}
      /\ DOMAIN stack = 1 .. Len(stack)
  BY EmptySeq DEF StackInv, Free
<1>2. Top \in Screens
  BY <1>1, ElementOfSeq DEF Top
<1>3. On("journal") => Top.of \in Units /\ Top = Journal(Top.of)
  BY <1>2 DEF On, Screens, Screen, Journal, Confirm, Plain
<1>4. On("confirm") => Top.of \in Command \ {Do("admin")}
  BY <1>2 DEF On, Screens, Screen, Journal, Confirm, Plain
<1> QED BY <1>1, <1>2, <1>3, <1>4

(* A confirmed command is a privileged one, or the way to the shell. *)
LEMMA ConfirmedCommand ==
  \A c \in Command \ {Do("admin")} : c.do # "shell" => c \in Privileged
BY DEF Command, Do

LEMMA RestNext == RestType /\ StackInv /\ [Next]_vars => RestType'
<1> SUFFICES ASSUME RestType, StackInv, [Next]_vars PROVE RestType'
  OBVIOUS
<1>1. CASE HostChanges \/ StartTui \/ ShellExits \/ Gathered \/ CollectorRaises \/ WorkerFailed
           \/ Publish \/ Wake \/ Cancelled \/ Quit \/ UNCHANGED vars
  BY <1>1 DEF HostChanges, StartTui, ShellExits, Gathered, CollectorRaises, WorkerFailed, Publish,
              Wake, Cancelled, Quit, RestType, screenVars, journalVars, vars
<1>2. CASE Leave \/ Killed
  BY <1>2 DEF Leave, Killed, NoProcess, RestType
<1>3. CASE CommandReturns \/ AdminLogsOut
  BY <1>3 DEF CommandReturns, AdminLogsOut, Returned, RestType, screenVars, journalVars
<1>4. CASE OpenMenu \/ OpenHelp \/ MenuSelected \/ RestartSelected \/ MaintSelected
  BY <1>4 DEF OpenMenu, OpenHelp, MenuSelected, RestartSelected, MaintSelected, Push, KeyUnchanged,
              RestType, journalVars
<1>5. CASE LogSelected
  <2>1. PICK u \in Units : Push(Journal(u)) /\ loads' = loads \cup {[unit |-> u, own |-> TRUE]}
    BY <1>5 DEF LogSelected
  <2>2. [unit |-> u, own |-> TRUE] \in [unit : Units, own : BOOLEAN]
    OBVIOUS
  <2>3. loads' \in SUBSET [unit : Units, own : BOOLEAN]
    BY <2>1, <2>2 DEF RestType
  <2> QED BY <1>5, <2>1, <2>3 DEF LogSelected, Push, KeyUnchanged, RestType
<1>6. CASE Back
  <2>1. \A l \in loads : [l EXCEPT !.own = FALSE] \in [unit : Units, own : BOOLEAN]
    BY DEF RestType
  <2> QED BY <1>6, <2>1 DEF Back, KeyUnchanged, RestType, journalVars
<1>7. CASE Reload
  <2>1. [unit |-> Top.of, own |-> TRUE] \in [unit : Units, own : BOOLEAN]
    BY <1>7, TopTypes DEF Reload
  <2>2. loads' \in SUBSET [unit : Units, own : BOOLEAN]
    BY <1>7, <2>1 DEF Reload, RestType
  <2> QED BY <1>7, <2>2 DEF Reload, KeyUnchanged, RestType, screenVars
<1>8. CASE Tab \/ AdminLogin
  BY <1>8 DEF Tab, AdminLogin, KeyUnchanged, RestType, journalVars, screenVars
<1>9. CASE \E key \in {"y", "n", "escape", "enter"} : Answer(key)
  BY <1>9, TopTypes, ConfirmedCommand DEF Answer, Confirmed, RestType, journalVars
<1>10. CASE \E l \in loads : LoadReturns(l)
  BY <1>10 DEF LoadReturns, RestType, screenVars
<1> QED
  BY <1>1, <1>2, <1>3, <1>4, <1>5, <1>6, <1>7, <1>8, <1>9, <1>10 DEF Next, Key

(* What is loaded for a screen goes when the screen goes. *)
LEMMA JournalsNext ==
  JournalsOpen /\ StackInv /\ Empty /\ RestType /\ [Next]_vars => JournalsOpen'
<1> SUFFICES ASSUME JournalsOpen, StackInv, Empty, RestType, [Next]_vars PROVE JournalsOpen'
  OBVIOUS
<1>k. ASSUME UNCHANGED stack, UNCHANGED journalVars PROVE JournalsOpen'
  BY <1>k DEF JournalsOpen, journalVars
<1>p. ASSUME Free, \A i \in DOMAIN stack : i \in DOMAIN stack' /\ stack'[i] = stack[i],
             UNCHANGED journalVars
      PROVE  JournalsOpen'
  BY <1>p DEF JournalsOpen, journalVars
<1>s. ASSUME Free, NEW s, s \in Screens, Push(s)
      PROVE  /\ \A i \in DOMAIN stack : i \in DOMAIN stack' /\ stack'[i] = stack[i]
             /\ Len(stack) + 1 \in DOMAIN stack' /\ stack'[Len(stack) + 1] = s
  <2>1. stack \in Seq(Screens) /\ stack' = Append(stack, s)
    BY <1>s DEF StackInv, Push
  <2> QED BY <1>s, <2>1
<1>b. ASSUME Free, ~On("dashboard"), ~On("journal"), stack' = Base, UNCHANGED journalVars
      PROVE  JournalsOpen'
  <2>1. /\ Len(stack) > 1 /\ DOMAIN stack' = 1 .. Len(stack) - 1
        /\ \A i \in DOMAIN stack' : stack'[i] = stack[i]
    BY <1>b, PopStep
  <2>2. Len(stack) \in Nat \ {0} /\ DOMAIN stack = 1 .. Len(stack)
    BY <1>b, TopTypes
  <2>3. ASSUME NEW i \in DOMAIN stack, NEW u, stack[i] = Journal(u)
        PROVE  i \in DOMAIN stack' /\ stack'[i] = Journal(u)
    <3>1. i # Len(stack)
      BY <1>b, <2>3 DEF On, Top, Journal
    <3> QED BY <2>1, <2>2, <2>3, <3>1
  <2> QED BY <1>b, <2>3 DEF JournalsOpen, journalVars
<1>1. CASE HostChanges \/ ShellExits \/ Gathered \/ CollectorRaises \/ WorkerFailed \/ Publish
           \/ Wake \/ Cancelled \/ Quit \/ Tab \/ AdminLogin \/ CommandReturns \/ AdminLogsOut
           \/ UNCHANGED vars
  BY <1>1, <1>k DEF HostChanges, ShellExits, Gathered, CollectorRaises, WorkerFailed, Publish, Wake,
       Cancelled, Quit, Tab, AdminLogin, KeyUnchanged, CommandReturns, AdminLogsOut, Returned,
       screenVars, vars
<1>2. CASE StartTui
  <2>1. DOMAIN stack = {}
    BY <1>2 DEF StartTui, Empty
  <2>2. (\A l \in loads : ~l.own) /\ journal = None
    BY <2>1 DEF JournalsOpen
  <2> QED BY <1>2, <2>2 DEF StartTui, JournalsOpen, journalVars
<1>3. CASE Leave \/ Killed
  BY <1>3 DEF Leave, Killed, NoProcess, JournalsOpen
<1>4. CASE OpenMenu \/ OpenHelp \/ MenuSelected \/ RestartSelected \/ MaintSelected
  <2>1. /\ Screen("menu") \in Screens /\ Screen("help") \in Screens
        /\ \A s \in {"detail", "services", "maint"} : Screen(s) \in Screens
    BY ScreenTypes DEF Plain
  <2>2. Free /\ UNCHANGED journalVars /\ \E s \in Screens : Push(s)
    BY <1>4, <2>1, ScreenTypes DEF OpenMenu, OpenHelp, MenuSelected, RestartSelected, MaintSelected
  <2> QED BY <1>p, <1>s, <2>2
<1>5. CASE LogSelected
  <2>1. PICK u \in Units : Push(Journal(u)) /\ loads' = loads \cup {[unit |-> u, own |-> TRUE]}
    BY <1>5 DEF LogSelected
  <2>2. /\ \A i \in DOMAIN stack : i \in DOMAIN stack' /\ stack'[i] = stack[i]
        /\ Len(stack) + 1 \in DOMAIN stack' /\ stack'[Len(stack) + 1] = Journal(u)
    BY <1>5, <1>s, <2>1, ScreenTypes DEF LogSelected
  <2> QED BY <1>5, <2>1, <2>2 DEF LogSelected, JournalsOpen
<1>6. CASE Back
  <2>1. CASE On("journal")
    <3>1. \A l \in loads : [l EXCEPT !.own = FALSE].own = FALSE
      BY DEF RestType
    <3>2. loads' = { [l EXCEPT !.own = FALSE] : l \in loads } /\ journal' = None
      BY <1>6, <2>1 DEF Back
    <3>3. \A l \in loads' : l.own = FALSE
      BY <3>1, <3>2
    <3> QED BY <3>2, <3>3 DEF JournalsOpen
  <2>2. CASE ~On("journal")
    BY <1>6, <1>b, <2>2 DEF Back
  <2> QED BY <2>1, <2>2
<1>7. CASE Reload
  <2>1. Len(stack) \in DOMAIN stack /\ stack[Len(stack)] = Journal(Top.of)
    BY <1>7, TopTypes DEF Reload, Top
  <2>2. UNCHANGED <<stack, journal>> /\ loads' = loads \cup {[unit |-> Top.of, own |-> TRUE]}
    BY <1>7 DEF Reload, screenVars
  <2> QED BY <2>1, <2>2 DEF JournalsOpen
<1>8. CASE \E key \in {"y", "n", "escape", "enter"} : Answer(key)
  BY <1>8, <1>b DEF Answer, On
<1>9. CASE \E l \in loads : LoadReturns(l)
  <2>1. PICK l \in loads : LoadReturns(l)
    BY <1>9
  <2>2. UNCHANGED stack /\ loads' = loads \ {l}
        /\ journal' = (IF l.own THEN l.unit ELSE journal)
    BY <2>1 DEF LoadReturns, screenVars
  <2> QED BY <2>1, <2>2 DEF JournalsOpen
<1> QED
  BY <1>1, <1>2, <1>3, <1>4, <1>5, <1>6, <1>7, <1>8, <1>9 DEF Next, Key

-----------------------------------------------------------------------------
(* The inductive invariant. *)
TuiInv == StackInv /\ CollectorInv /\ RestType /\ JournalsOpen

LEMMA TuiInit == Init => TuiInv
<1> SUFFICES ASSUME Init PROVE TuiInv
  OBVIOUS
<1>1. HANDED_MAX \in Nat \ {0} /\ Ended.at = "ended"
  BY TuiAssumption DEF Ended
<1>2. StackInv
  BY EmptySeq DEF Init, StackInv, Orderly, Focus
<1>5. RestType /\ JournalsOpen
  BY DEF Init, RestType, JournalsOpen
<1>3. CollectorType
  BY <1>1 DEF Init, CollectorType, Ended, Level
<1>4. OneAtATime /\ Empty /\ OneLateSnapshot
  BY <1>1, EmptySeq DEF Init, OneAtATime, Empty, OneLateSnapshot
<1> QED BY <1>2, <1>3, <1>4, <1>5 DEF TuiInv, CollectorInv

LEMMA TuiNext == TuiInv /\ [Next]_vars => TuiInv'
BY StackNext, CollectorNext, RestNext, JournalsNext DEF TuiInv, CollectorInv

LEMMA TuiInvHolds == Spec => []TuiInv
<1> QED BY TuiInit, TuiNext, PTL DEF Spec

(* Every variable keeps its type, and the dashboard lies at the bottom of  *)
(* the stack while the TUI runs.                                           *)
THEOREM TypeCorrect == Spec => []TypeOK
<1>1. TuiInv => TypeOK
  BY DEF TuiInv, StackInv, CollectorInv, CollectorType, RestType, TypeOK
<1> QED BY <1>1, TuiInvHolds, PTL

(* No screen is on the stack twice, for any set of services and any keys:  *)
(* in code, App.push_screen is never given an instance that it holds.      *)
THEOREM ScreensOnce == Spec => []EachScreenOnce
<1>1. TuiInv => EachScreenOnce
  <2> SUFFICES ASSUME TuiInv, NEW i \in DOMAIN stack, NEW j \in DOMAIN stack,
                      stack[i].is = stack[j].is
               PROVE  i = j
    BY DEF EachScreenOnce
  <2>1. i \in Nat /\ j \in Nat /\ Rank(stack[i].is) = Rank(stack[j].is) /\ Rank(stack[i].is) \in Nat
    BY DEF TuiInv, StackInv, Rank
  <2>2. ~(i < j) /\ ~(j < i)
    BY <2>1 DEF TuiInv, StackInv, Orderly
  <2> QED BY <2>1, <2>2
<1> QED BY <1>1, TuiInvHolds, PTL

(* The journal that is shown is that of the screen's unit, however many    *)
(* loads of earlier screens are still on their way.                        *)
THEOREM JournalRight == Spec => []RightJournal
<1>1. TuiInv /\ EachScreenOnce => RightJournal
  <2> SUFFICES ASSUME TuiInv, EachScreenOnce, NEW i \in DOMAIN stack, stack[i].is = "journal",
                      journal # None
               PROVE  journal = stack[i].of
    BY DEF RightJournal
  <2>1. PICK k \in DOMAIN stack : stack[k] = Journal(journal)
    BY DEF TuiInv, JournalsOpen
  <2>2. i = k
    BY <2>1 DEF EachScreenOnce, Journal
  <2> QED BY <2>1, <2>2 DEF Journal
<1> QED BY <1>1, TuiInvHolds, ScreensOnce, PTL

(* After a command at most one snapshot from before its end is shown: the  *)
(* collector waits until the UI thread has taken what it hands over.       *)
THEOREM OneLate == Spec => []OneLateSnapshot
<1>1. TuiInv => OneLateSnapshot
  BY DEF TuiInv, CollectorInv
<1> QED BY <1>1, TuiInvHolds, PTL

-----------------------------------------------------------------------------
(* The command that starts, and the shell that is asked for, were on the   *)
(* question on top, and more than Enter was typed on it.                   *)
LEMMA AnswerAsked ==
  ASSUME TuiInv, NEW key \in {"y", "n", "escape", "enter"}, Answer(key)
  PROVE  /\ busy' # busy => AskedFirst(busy')
         /\ toShell' /\ ~toShell => AskedFirst(Do("shell"))
<1>1. StackInv /\ Free /\ On("confirm")
  BY DEF TuiInv, Answer
<1>2. /\ Len(stack) > 1 /\ Len(stack) \in Nat /\ DOMAIN stack = 1 .. Len(stack)
      /\ Top.of \in Command \ {Do("admin")}
  BY <1>1, PopStep, TopTypes DEF Answer, On
<1>3. Top.of \in Offers(stack[Len(stack) - 1].is)
  BY <1>1, <1>2 DEF StackInv, Orderly, On, Top
<1>4. Base[Len(Base)] = stack[Len(stack) - 1]
  <2>1. stack' = Base
    BY DEF Answer
  <2>2. /\ stack' \in Seq(Screens) /\ DOMAIN stack' = 1 .. Len(stack) - 1
        /\ \A i \in DOMAIN stack' : stack'[i] = stack[i]
    BY <1>1, <2>1, PopStep DEF On
  <2>3. Len(stack') = Len(stack) - 1
    BY <1>1, <2>1, PopStep DEF On
  <2> QED BY <1>2, <2>1, <2>2, <2>3
<1>5. CASE key = "y" \/ (key = "enter" /\ yesFocused)
  <2>1. typed' \cap {"y", "tab"} # {}
    BY <1>1, <1>5 DEF StackInv, Focus, Answer
  <2>2. AskedFirst(Top.of)
    BY <1>1, <1>3, <1>4, <2>1 DEF AskedFirst
  <2>3. Top.of.do = "shell" => Top.of = Do("shell")
    BY <1>2 DEF Command, Privileged, Restart, Do
  <2> QED BY <1>5, <2>2, <2>3 DEF Answer, Confirmed
<1>6. CASE ~(key = "y" \/ (key = "enter" /\ yesFocused))
  BY <1>6 DEF Answer
<1> QED BY <1>5, <1>6

(* README.md, "Every restart and reboot asks for confirmation": only the   *)
(* answer to a command's own question starts it, on the screen that offers *)
(* it, never by Enter alone; no other step starts a privileged command.    *)
THEOREM AsAsked == Spec => CommandAsAsked
<1>1. ASSUME TuiInv, [Next]_vars
      PROVE  [ /\ busy' \in Privileged /\ busy' # busy => AskedFirst(busy')
               /\ toShell' /\ ~toShell => AskedFirst(Do("shell")) ]_vars
  <2>1. CASE \E key \in {"y", "n", "escape", "enter"} : Answer(key)
    BY <1>1, <2>1, AnswerAsked
  <2>2. ASSUME busy' \notin Privileged \/ busy' = busy, ~toShell' \/ toShell' = toShell
        PROVE  /\ busy' \in Privileged /\ busy' # busy => AskedFirst(busy')
               /\ toShell' /\ ~toShell => AskedFirst(Do("shell"))
    BY <2>2
  <2>3. None \notin Privileged /\ Do("admin") \notin Privileged
    BY NoneIsNoCommand DEF Command, Privileged, Do, Restart
  <2>4. CASE HostChanges \/ StartTui \/ ShellExits \/ Gathered \/ CollectorRaises \/ WorkerFailed
             \/ Publish \/ Wake \/ Cancelled \/ Quit \/ (\E l \in loads : LoadReturns(l))
             \/ UNCHANGED vars
    BY <2>4, <2>2 DEF HostChanges, StartTui, ShellExits, Gathered, CollectorRaises, WorkerFailed,
         Publish, Wake, Cancelled, Quit, LoadReturns, vars
  <2>5. CASE Leave \/ Killed \/ CommandReturns \/ AdminLogsOut
    BY <2>5, <2>2, <2>3 DEF Leave, Killed, NoProcess, CommandReturns, AdminLogsOut, Returned
  <2>6. CASE OpenMenu \/ OpenHelp \/ Back \/ MenuSelected \/ RestartSelected \/ LogSelected
             \/ MaintSelected \/ Reload \/ Tab \/ AdminLogin
    BY <2>6, <2>2, <2>3 DEF OpenMenu, OpenHelp, Back, MenuSelected, RestartSelected, LogSelected,
         MaintSelected, Reload, Tab, AdminLogin, KeyUnchanged
  <2> QED BY <1>1, <2>1, <2>4, <2>5, <2>6 DEF Next, Key
<1> QED BY <1>1, TuiInvHolds, PTL DEF Spec, CommandAsAsked

-----------------------------------------------------------------------------
(* A command, and the way to the shell, begin in the TUI, and a question    *)
(* is closed before its command runs.                                      *)
Session == (toShell => proc = "leaving") /\ (busy # None => proc = "tui" /\ ~On("confirm"))

(* Nothing lies on a question.                                             *)
LEMMA BelowTop ==
  ASSUME StackInv, Free, Len(stack) > 1
  PROVE  stack[Len(stack) - 1].is # "confirm"
<1>1. Len(stack) \in Nat /\ DOMAIN stack = 1 .. Len(stack)
  BY TopTypes
<1>2. Rank(stack[Len(stack) - 1].is) < Rank(stack[Len(stack)].is)
  BY <1>1 DEF StackInv, Orderly
<1> QED BY <1>2 DEF Rank

(* When the screen on top goes, the one below it is on top.                *)
LEMMA Popped ==
  ASSUME StackInv, Free, ~On("dashboard"), stack' = Base
  PROVE  /\ Len(stack) > 1 /\ stack'[Len(stack')] = stack[Len(stack) - 1]
         /\ stack'[Len(stack')].is # "confirm"
<1>1. Len(stack) \in Nat /\ Len(stack) > 1 /\ Len(stack') = Len(stack) - 1
      /\ DOMAIN stack' = 1 .. Len(stack) - 1 /\ \A i \in DOMAIN stack' : stack'[i] = stack[i]
  BY PopStep, TopTypes
<1> QED BY <1>1, BelowTop

(* A question that opens lies on the screen it is asked from.              *)
LEMMA Pushed ==
  ASSUME StackInv, Free, NEW s \in Screens, Push(s)
  PROVE  /\ stack'[Len(stack')] = s /\ stack'[Len(stack') - 1] = Top /\ typed' = {}
         /\ ~yesFocused'
<1>1. /\ Len(stack) \in Nat \ {0} /\ stack' = Append(stack, s) /\ stack \in Seq(Screens)
      /\ typed' = {} /\ ~yesFocused'
  BY TopTypes DEF StackInv, Push
<1>2. Len(stack') = Len(stack) + 1 /\ stack'[Len(stack) + 1] = s
      /\ \A i \in 1 .. Len(stack) : stack'[i] = stack[i]
  BY <1>1
<1>3. Len(stack) \in 1 .. Len(stack) /\ Len(stack') - 1 = Len(stack)
  BY <1>1, <1>2
<1> QED BY <1>1, <1>2, <1>3 DEF Top

(* Every step keeps commands in the TUI, with no question open.            *)
LEMMA SessionNext == Session /\ StackInv /\ RestType /\ [Next]_vars => Session'
<1> SUFFICES ASSUME Session, StackInv, RestType, [Next]_vars PROVE Session'
  OBVIOUS
<1>1. CASE HostChanges \/ StartTui \/ ShellExits \/ Gathered \/ CollectorRaises \/ WorkerFailed
           \/ Publish \/ Wake \/ Cancelled \/ Quit \/ Tab \/ Reload
           \/ (\E l \in loads : LoadReturns(l)) \/ UNCHANGED vars
  BY <1>1 DEF HostChanges, StartTui, ShellExits, Gathered, CollectorRaises, WorkerFailed, Publish,
       Wake, Cancelled, Quit, Tab, Reload, LoadReturns, KeyUnchanged, Session, RestType, Free, On,
       Top, screenVars, vars
<1>2. CASE Leave \/ Killed
  BY <1>2 DEF Leave, Killed, NoProcess, Session
<1>3. CASE CommandReturns \/ AdminLogsOut
  BY <1>3 DEF CommandReturns, AdminLogsOut, Returned, Session, screenVars
<1>4. CASE OpenMenu \/ OpenHelp \/ MenuSelected \/ RestartSelected \/ LogSelected \/ MaintSelected
  BY <1>4, PushedScreen DEF Session, Free
<1>5. CASE Back
  BY <1>5 DEF Back, KeyUnchanged, Session, Free
<1>6. CASE AdminLogin
  BY <1>6 DEF AdminLogin, Session, Free, On, Top, screenVars
<1>7. CASE \E key \in {"y", "n", "escape", "enter"} : Answer(key)
  <2>1. Free /\ ~On("dashboard") /\ stack' = Base
    BY <1>7 DEF Answer, On
  <2>2. ~On("confirm")'
    BY <2>1, Popped DEF On, Top
  <2> QED BY <1>7, <2>2 DEF Answer, Confirmed, Session, Free
<1> QED
  BY <1>1, <1>2, <1>3, <1>4, <1>5, <1>6, <1>7 DEF Next, Key

-----------------------------------------------------------------------------
(* What the console sees while the UI thread is free.                      *)
LEMMA SeenFree ==
  ASSUME StackInv, Session, Free
  PROVE  /\ ~On("confirm") => Place = "screens" /\ Seen = Top.is /\ About = None /\ ~Meant
         /\ On("confirm") => /\ Place = "asking" /\ Seen = stack[Len(stack) - 1].is
                             /\ About = Top.of /\ About \in Command \ {Do("admin")}
<1>1. None \notin Command
  BY NoneIsNoCommand
<1>2. On("confirm") => Top.of \in Command \ {Do("admin")}
  BY TopTypes
<1> QED BY <1>1, <1>2 DEF Free, Place, Asking, Seen, About, Meant

(* What the console sees does not change with what it does not look at.    *)
LEMMA SeenSame ==
  ASSUME UNCHANGED <<proc, stack, typed, busy, toShell>> PROVE UNCHANGED Promise!vars
BY DEF Promise!vars, Place, Asking, Seen, About, Meant, On, Top

(* Opening a screen is a look at it, opening a question is asking.         *)
LEMMA OpensScreen ==
  ASSUME StackInv, Session,
         OpenMenu \/ OpenHelp \/ MenuSelected \/ RestartSelected \/ LogSelected \/ MaintSelected
  PROVE  Promise!Ask \/ Promise!Look
<1>1. /\ Free /\ ~On("confirm") /\ UNCHANGED <<proc, busy, toShell>>
  BY PushedScreen
<1>2. PICK s \in Screens : Push(s) /\ (s.is = "confirm" => s.of \in Offers(Top.is))
  BY PushedScreen
<1>3. /\ stack'[Len(stack')] = s /\ stack'[Len(stack') - 1] = Top /\ typed' = {}
  BY <1>1, <1>2, Pushed
<1>4. Place = "screens" /\ Seen = Top.is /\ About = None /\ Meant = FALSE
  BY <1>1, SeenFree DEF Meant
<1>5. proc' = "tui" /\ busy' = None
  BY <1>1 DEF Free
<1>6. CASE s.is = "confirm"
  <2>1. s.of \in Command
    BY <1>6 DEF Screens, Screen, Journal, Confirm, Plain
  <2>2. Top.is \in Plain
    BY <1>2, <1>6 DEF Offers, Plain
  <2>3. <<Top.is, s.of>> \in { sc \in Plain \X Command : sc[2] \in Offers(sc[1]) }
    BY <1>2, <1>6, <2>1, <2>2
  <2>4. Place' = "asking" /\ Seen' = Top.is /\ About' = s.of /\ Meant' = FALSE
    BY <1>3, <1>5, <1>6 DEF Place, Asking, Seen, About, Meant, On, Top
  <2> QED BY <1>4, <2>3, <2>4 DEF Promise!Ask
<1>7. CASE s.is # "confirm"
  <2>1. Place' = "screens" /\ About' = None /\ Meant' = FALSE
    BY <1>3, <1>5, <1>7, NoneIsNoCommand DEF Place, Asking, About, Meant, On, Top
  <2> QED BY <1>4, <2>1 DEF Promise!Look
<1> QED BY <1>6, <1>7

(* An answer that was meant runs the command asked about, or ends the      *)
(* session; any other leads back to the screen that asked.                 *)
LEMMA Answers ==
  ASSUME StackInv, Session, RestType, NEW key \in {"y", "n", "escape", "enter"}, Answer(key)
  PROVE  Promise!Agree \/ Promise!AgreeToShell \/ Promise!Refuse
<1>1. Free /\ On("confirm") /\ ~On("dashboard") /\ stack' = Base /\ typed' = {key} \cup typed
  BY DEF Answer, On
<1>2. /\ Place = "asking" /\ Seen = stack[Len(stack) - 1].is
      /\ About = Top.of /\ About \in Command \ {Do("admin")} /\ About # None
  BY <1>1, SeenFree, NoneIsNoCommand
<1>3. stack'[Len(stack')] = stack[Len(stack) - 1] /\ stack'[Len(stack')].is # "confirm"
  BY <1>1, Popped
<1>4. proc = "tui" /\ busy = None /\ ~toShell
  BY <1>1 DEF Free, Session
<1>5. CASE key = "y" \/ (key = "enter" /\ yesFocused)
  <2>1. typed' \cap {"y", "tab"} # {}
    BY <1>1, <1>5 DEF StackInv, Focus
  <2>2. Confirmed(Top.of)
    BY <1>5 DEF Answer
  <2>3. CASE Top.of.do = "shell"
    <3>1. Top.of = Do("shell")
      BY <1>2, <2>3 DEF Command, Privileged, Restart, Do
    <3>2. proc' = "leaving" /\ toShell'
      BY <2>2, <2>3 DEF Confirmed
    <3>3. Place' = "ending" /\ Seen' = None /\ About' = Do("shell")
      BY <3>2 DEF Place, Seen, About
    <3>4. Meant' = TRUE
      BY <1>2, <2>1, <3>1, <3>3 DEF Meant
    <3> QED BY <1>2, <3>1, <3>3, <3>4 DEF Promise!AgreeToShell
  <2>4. CASE Top.of.do # "shell"
    <3>1. busy' = Top.of /\ proc' = "tui"
      BY <1>4, <2>2, <2>4 DEF Confirmed
    <3>2. Place' = "running" /\ Seen' = Seen /\ About' = About
      BY <1>2, <1>3, <3>1 DEF Place, Asking, Seen, About, On, Top
    <3>3. Meant' = TRUE
      BY <1>2, <2>1, <3>2 DEF Meant
    <3>4. About # Do("shell")
      BY <1>2, <2>4 DEF Do
    <3> QED BY <1>2, <3>2, <3>3, <3>4 DEF Promise!Agree
  <2> QED BY <2>3, <2>4
<1>6. CASE ~(key = "y" \/ (key = "enter" /\ yesFocused))
  <2>1. busy' = None /\ proc' = "tui"
    BY <1>4, <1>6 DEF Answer
  <2>2. Place' = "screens" /\ Seen' = Seen /\ About' = None
    BY <1>2, <1>3, <2>1 DEF Place, Asking, Seen, About, On, Top
  <2>3. Meant' = FALSE
    BY <2>2, NoneIsNoCommand DEF Meant
  <2> QED BY <1>2, <2>2, <2>3 DEF Promise!Refuse
<1> QED BY <1>5, <1>6

(* Each step is one of the console's, or none that it sees.                *)
LEMMA ConsoleStep ==
  ASSUME Session, StackInv, RestType, [Next]_vars
  PROVE  [Promise!Next]_(Promise!vars)
<1>n. None \notin Command
  BY NoneIsNoCommand
<1>f. Free => Place \in {"screens", "asking"} /\ ~toShell
  BY SeenFree DEF Free, Session
<1>q. ASSUME Free, proc' = "leaving", ~toShell' PROVE Promise!Quit
  <2>1. Place' = "ending" /\ Seen' = None /\ About' = None
    BY <1>q DEF Place, Seen, About
  <2>2. Meant' = FALSE
    BY <1>n, <2>1 DEF Meant
  <2> QED BY <1>f, <1>q, <2>1, <2>2 DEF Promise!Quit
<1>d. ASSUME proc' = "down", busy' = None PROVE Promise!Close
  <2>1. Place' = "closed" /\ Seen' = None /\ About' = None
    BY <1>d DEF Place, Asking, Seen, About
  <2>2. Meant' = FALSE
    BY <1>n, <2>1 DEF Meant
  <2> QED BY <2>1, <2>2 DEF Promise!Close
<1>1. CASE HostChanges \/ Gathered \/ CollectorRaises \/ Publish \/ Wake \/ Cancelled \/ Reload
           \/ (\E l \in loads : LoadReturns(l)) \/ UNCHANGED vars
  <2>1. UNCHANGED <<proc, stack, typed, busy, toShell>>
    BY <1>1 DEF HostChanges, Gathered, CollectorRaises, Publish, Wake, Cancelled, Reload,
         LoadReturns, KeyUnchanged, screenVars, vars
  <2> QED BY <2>1, SeenSame
<1>2. CASE StartTui
  <2>1. Place = "closed" /\ About = None
    BY <1>2 DEF StartTui, Session, Place, Asking, About
  <2>2. proc' = "tui" /\ busy' = None /\ stack' = <<Screen("dashboard")>>
    BY <1>2 DEF StartTui, Session
  <2>3. stack'[Len(stack')].is = "dashboard"
    BY <2>2 DEF Screen
  <2>4. Place' = "screens" /\ About' = None
    BY <2>2, <2>3 DEF Place, Asking, About, On, Top
  <2>5. Meant = FALSE /\ Meant' = FALSE
    BY <1>n, <2>1, <2>4 DEF Meant
  <2> QED BY <2>1, <2>4, <2>5 DEF Promise!Open, Promise!Next
<1>3. CASE Leave
  <2>1. /\ proc = "leaving" /\ proc' = IF toShell THEN "shell" ELSE "down"
        /\ busy' = None /\ toShell \in BOOLEAN
    BY <1>3 DEF Leave, NoProcess, RestType
  <2>2. /\ Place = "ending" /\ Seen = None /\ Seen' = None /\ About' = None
        /\ About = IF toShell THEN Do("shell") ELSE None
    BY <2>1 DEF Place, Asking, Seen, About
  <2>3. Place' = IF toShell THEN "shell" ELSE "closed"
    BY <2>1 DEF Place
  <2>4. None # Do("shell") /\ Meant' = FALSE
    BY <1>n, <2>2 DEF Meant, Command
  <2> QED BY <2>2, <2>3, <2>4 DEF Promise!End, Promise!Next
<1>4. CASE ShellExits \/ Killed
  <2>1. proc' = "down" /\ busy' = None
    BY <1>4 DEF ShellExits, Killed, NoProcess, Session
  <2> QED BY <1>d, <2>1 DEF Promise!Next
<1>5. CASE WorkerFailed \/ Quit
  <2>1. Free /\ proc' = "leaving" /\ toShell' = toShell
    BY <1>5 DEF WorkerFailed, Quit
  <2> QED BY <1>f, <1>q, <2>1 DEF Promise!Next
<1>6. CASE OpenMenu \/ OpenHelp \/ MenuSelected \/ RestartSelected \/ LogSelected \/ MaintSelected
  BY <1>6, OpensScreen DEF Promise!Next
<1>7. CASE Back
  <2>1. Free /\ ~On("dashboard") /\ ~On("confirm") /\ stack' = Base /\ UNCHANGED <<proc, busy>>
    BY <1>7 DEF Back, KeyUnchanged
  <2>2. Place = "screens" /\ About = None /\ Meant = FALSE
    BY <2>1, SeenFree DEF Meant
  <2>3. Place' = "screens" /\ About' = None
    BY <2>1, Popped DEF Free, Place, Asking, About, On, Top
  <2>4. Meant' = FALSE
    BY <1>n, <2>3 DEF Meant
  <2> QED BY <2>2, <2>3, <2>4 DEF Promise!Look, Promise!Next
<1>8. CASE Tab
  <2>1. Free /\ On("confirm") /\ "tab" \in typed' /\ UNCHANGED <<proc, stack, busy, toShell>>
    BY <1>8 DEF Tab, KeyUnchanged
  <2>2. Place = "asking" /\ About \in Command \ {Do("admin")}
    BY <2>1, SeenFree
  <2>3. UNCHANGED <<Place, Seen, About>>
    BY <2>1 DEF Place, Asking, Seen, About, On, Top
  <2>4. Meant' = TRUE
    BY <2>1, <2>2, <2>3 DEF Meant
  <2> QED BY <2>2, <2>3, <2>4 DEF Promise!Consider, Promise!Next
<1>9. CASE \E key \in {"y", "n", "escape", "enter"} : Answer(key)
  BY <1>9, Answers DEF Promise!Next
<1>10. CASE AdminLogin
  <2>1. /\ Free /\ ~On("confirm") /\ busy' = Do("admin") /\ UNCHANGED <<proc, stack, typed, toShell>>
    BY <1>10 DEF AdminLogin, screenVars
  <2>2. Place = "screens" /\ Meant = FALSE /\ Do("admin") # None
    BY <1>n, <2>1, SeenFree DEF Meant, Command
  <2>3. Place' = "running" /\ Seen' = Seen /\ About' = Do("admin")
    BY <2>1, <2>2 DEF Free, Place, Asking, Seen, About, On, Top
  <2>4. Meant' = FALSE
    BY <2>3 DEF Meant
  <2> QED BY <2>2, <2>3, <2>4 DEF Promise!RunUnasked, Promise!Next
<1>11. CASE CommandReturns \/ AdminLogsOut
  <2>1. /\ proc = "tui" /\ busy # None /\ busy' = None /\ UNCHANGED <<proc, stack>> /\ ~On("confirm")
    BY <1>11, <1>n DEF CommandReturns, AdminLogsOut, Returned, Session, screenVars, Command
  <2>2. Place = "running" /\ Place' = "screens" /\ Seen' = Seen /\ About' = None
    BY <2>1 DEF Place, Asking, Seen, About, On, Top
  <2>3. Meant' = FALSE
    BY <1>n, <2>2 DEF Meant
  <2> QED BY <2>2, <2>3 DEF Promise!Return, Promise!Next
<1> QED
  BY <1>1, <1>2, <1>3, <1>4, <1>5, <1>6, <1>7, <1>8, <1>9, <1>10, <1>11 DEF Next, Key

LEMMA SessionHolds == Spec => []Session
<1>1. Init => Session
  BY DEF Init, Session
<1>2. TuiInv => StackInv /\ RestType
  BY DEF TuiInv
<1> QED BY <1>1, <1>2, SessionNext, TuiInvHolds, PTL DEF Spec

(***************************************************************************)
(* The terminal UI implements the console: through keys, screens, quits,   *)
(* crashes, a collector and journal loads that hand over to the UI thread, *)
(* each command is asked about where it is offered, runs once, alone and   *)
(* only after an answer that was meant, and so does a session that ends in *)
(* a shell.                                                                *)
(***************************************************************************)
THEOREM ImplementsConsole == Spec => ConsoleSpec
<1>1. Init => Promise!Init
  <2> SUFFICES ASSUME Init PROVE Promise!Init
    OBVIOUS
  <2>1. Place = "closed" /\ Seen = None /\ About = None
    BY DEF Init, Place, Asking, Seen, About
  <2>2. Meant = FALSE
    BY <2>1, NoneIsNoCommand DEF Meant
  <2> QED BY <2>1, <2>2 DEF Promise!Init
<1>2. TuiInv => StackInv /\ RestType
  BY DEF TuiInv
<1> QED BY <1>1, <1>2, ConsoleStep, SessionHolds, TuiInvHolds, PTL DEF Spec, ConsoleSpec, Promise!Spec

-----------------------------------------------------------------------------
(* The most that the terminal UI ever holds: five screens, one on another, *)
(* and one snapshot on its way; none while the next is gathered (so that   *)
(* the bound HANDED_MAX of the runs never holds the collector up).         *)
Bounded == Len(stack) <= 5 /\ Len(handed) <= 1 /\ (collector.at = "gather" => handed = <<>>)

(* Whatever is typed and however slow the UI thread is, screens and        *)
(* snapshots do not pile up: screens open only deeper ones (push_screen),  *)
(* and the collector waits in call_from_thread.                            *)
THEOREM NothingPilesUp == Spec => []Bounded
<1>1. TuiInv => Bounded
  <2> SUFFICES ASSUME TuiInv PROVE Bounded
    OBVIOUS
  <2>1. stack \in Seq(Screens) /\ Orderly(stack) /\ Len(stack) \in Nat /\ DOMAIN stack = 1 .. Len(stack)
    BY DEF TuiInv, StackInv
  <2>2. Len(stack) <= 5
    <3>1. CASE Len(stack) = 0
      BY <3>1
    <3>2. CASE Len(stack) > 0
      <4>1. Len(stack) <= Rank(stack[Len(stack)].is)
        BY <2>1, <3>2 DEF Orderly
      <4>2. Rank(stack[Len(stack)].is) \in 1 .. 5
        BY DEF Rank
      <4> QED BY <2>1, <4>1, <4>2
    <3> QED BY <2>1, <3>1, <3>2
  <2>3. Len(handed) <= 1
    <3>1. CASE handed = <<>>
      BY <3>1
    <3>2. CASE handed # <<>>
      BY <3>2 DEF TuiInv, CollectorInv, OneAtATime
    <3> QED BY <3>1, <3>2
  <2>4. collector.at = "gather" => handed = <<>>
    BY DEF TuiInv, CollectorInv, OneAtATime
  <2> QED BY <2>2, <2>3, <2>4 DEF Bounded
<1> QED BY <1>1, TuiInvHolds, PTL

-----------------------------------------------------------------------------
(***************************************************************************)
(* What LeavesInTheEnd rests on: a TUI on its way out takes up nothing     *)
(* new.  Until it is gone, loads only return, the collector only comes     *)
(* nearer to its end, no key or command changes anything, and it does not  *)
(* come back to life.                                                      *)
(***************************************************************************)
StepsLeft(place) ==
  IF place = "gather" THEN 2 ELSE IF place \in {"waiting", "sleep"} THEN 1 ELSE 0

WindsDown ==
  [][ proc = "leaving" =>
        \/ proc' \in {"down", "shell"}
        \/ /\ UNCHANGED <<proc, stack, typed, busy, toShell, banner>>
           /\ loads' \subseteq loads
           /\ StepsLeft(collector'.at) <= StepsLeft(collector.at) ]_vars

THEOREM LeavingWindsDown == Spec => WindsDown
<1>1. ASSUME TuiInv, Next, proc = "leaving"
      PROVE  \/ proc' \in {"down", "shell"}
             \/ /\ UNCHANGED <<proc, stack, typed, busy, toShell, banner>>
                /\ loads' \subseteq loads
                /\ StepsLeft(collector'.at) <= StepsLeft(collector.at)
  <2>1. collector \in [at : {"gather", "waiting", "sleep", "raised", "ended"}, saw : Level, old : BOOLEAN]
    BY <1>1 DEF TuiInv, CollectorInv, CollectorType
  <2>2. StepsLeft(collector.at) \in 0 .. 2
    BY DEF StepsLeft
  <2>3. CASE Leave \/ Killed
    BY <2>3 DEF Leave, Killed
  <2>4. CASE HostChanges \/ (\E l \in loads : LoadReturns(l))
    <3>1. /\ UNCHANGED <<proc, stack, typed, busy, toShell, banner, collector>>
          /\ loads' \subseteq loads
      BY <2>4 DEF HostChanges, LoadReturns, screenVars, dataVars, journalVars
    <3> QED BY <2>2, <3>1
  <2>5. CASE Gathered \/ CollectorRaises \/ Cancelled
    <3>1. UNCHANGED <<proc, stack, typed, busy, toShell, banner, loads>>
      BY <2>5 DEF Gathered, CollectorRaises, Cancelled, screenVars, journalVars
    <3>2. \/ collector.at = "gather" /\ collector'.at \in {"waiting", "raised"}
          \/ collector.at \in {"sleep", "waiting"} /\ collector'.at = "ended"
      BY <2>1, <2>5 DEF Gathered, CollectorRaises, Cancelled
    <3>3. StepsLeft(collector'.at) <= StepsLeft(collector.at)
      BY <3>2 DEF StepsLeft
    <3> QED BY <3>1, <3>3
  <2>6. ~Free
    BY <1>1 DEF Free
  <2>7. ~(StartTui \/ ShellExits \/ WorkerFailed \/ Publish \/ Wake \/ Quit \/ CommandReturns \/ AdminLogsOut)
    BY <1>1, <2>6 DEF StartTui, ShellExits, WorkerFailed, Publish, Wake, Quit, CommandReturns, AdminLogsOut
  <2>8. ~Key
    BY <2>6 DEF Key, OpenMenu, OpenHelp, Back, MenuSelected, RestartSelected, LogSelected,
         MaintSelected, Reload, Tab, AdminLogin, Answer
  <2> QED BY <1>1, <2>3, <2>4, <2>5, <2>7, <2>8 DEF Next
<1>2. TuiInv /\ [Next]_vars =>
        [ proc = "leaving" =>
            \/ proc' \in {"down", "shell"}
            \/ /\ UNCHANGED <<proc, stack, typed, busy, toShell, banner>>
               /\ loads' \subseteq loads
               /\ StepsLeft(collector'.at) <= StepsLeft(collector.at) ]_vars
  BY <1>1
<1> QED BY <1>2, TuiInvHolds, PTL DEF Spec, WindsDown

=============================================================================
