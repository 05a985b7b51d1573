-------------------------------- MODULE Console --------------------------------
(***************************************************************************)
(* What the console promises its operator, without keys, stacks, threads   *)
(* or login script (README.md, "Every restart and reboot asks for          *)
(* confirmation, and No is the default answer"): each of these commands is *)
(* asked about on a screen that offers it, runs once after an answer that  *)
(* was meant, and alone; and there is a shell only after the same.         *)
(***************************************************************************)
CONSTANTS
  Offered,     \* pairs of a screen and a command it offers, with a question
  Unasked,     \* commands that need no question: the admin login asks itself
  Shell,       \* the command, among those offered, that ends the session
  None

VARIABLES
  at,          \* "closed", "screens", "asking", "running", "ending" or "shell"
  on,          \* the screen looked at, under the question when there is one
  what,        \* the command asked about, run, or that ended the session
  meant        \* the operator has typed something else than Enter on the question

vars == <<at, on, what, meant>>

Init == at = "closed" /\ on = None /\ what = None /\ meant = FALSE

Open == at = "closed" /\ at' = "screens" /\ UNCHANGED <<what, meant>>

Look == at = "screens" /\ UNCHANGED <<at, what, meant>>

Ask ==
  /\ at = "screens" /\ at' = "asking"
  /\ <<on, what'>> \in Offered /\ meant' = FALSE
  /\ UNCHANGED on

Consider == at = "asking" /\ meant' = TRUE /\ UNCHANGED <<at, on, what>>

Refuse ==
  /\ at = "asking" /\ at' = "screens"
  /\ what' = None /\ meant' = FALSE
  /\ UNCHANGED on

Agree ==
  /\ at = "asking" /\ what # Shell /\ at' = "running"
  /\ meant' = TRUE
  /\ UNCHANGED <<on, what>>

AgreeToShell ==
  /\ at = "asking" /\ what = Shell /\ at' = "ending"
  /\ meant' = TRUE /\ on' = None
  /\ UNCHANGED what

RunUnasked ==
  /\ at = "screens" /\ at' = "running"
  /\ what' \in Unasked
  /\ UNCHANGED <<on, meant>>

Return ==
  /\ at = "running" /\ at' = "screens"
  /\ what' = None /\ meant' = FALSE
  /\ UNCHANGED on

(* The operator quits, or the program gives up. *)
Quit ==
  /\ at \in {"screens", "asking"} /\ at' = "ending"
  /\ on' = None /\ what' = None /\ meant' = FALSE

End ==
  /\ at = "ending" /\ at' = IF what = Shell THEN "shell" ELSE "closed"
  /\ what' = None /\ meant' = FALSE
  /\ UNCHANGED on

(* The shell exits, the power or the connection goes. *)
Close == at' = "closed" /\ on' = None /\ what' = None /\ meant' = FALSE

Next ==
  \/ Open \/ Look \/ Ask \/ Consider \/ Refuse \/ Agree \/ AgreeToShell \/ RunUnasked
  \/ Return \/ Quit \/ End \/ Close

Spec == Init /\ [][Next]_vars

=============================================================================
