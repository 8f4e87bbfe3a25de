----------------------------- MODULE PlaySession -----------------------------
(***************************************************************************)
(* What the step, play, pause and reset buttons promise, with no lock and  *)
(* no condition variable in sight.  The user makes one call at a time, and *)
(* a call has its effect once, between its beginning and its end.  What is *)
(* left counts the cycles that are owed and have not begun: only step and  *)
(* play add to it and each cycle takes one away, so that none is run that  *)
(* nobody asked for; a pause or a reset takes all away, and so does a      *)
(* cycle that ends at a breakpoint or ends the program.  Only a cycle that *)
(* is under way outlives them.  What is left is run in the end, and every  *)
(* call returns.                                                           *)
(***************************************************************************)
EXTENDS Integers

CONSTANTS StepSizes,   \* what one step command may ask for: natural numbers
          Play         \* more than any number of cycles: an integer below 0

VARIABLES up,          \* is there a session that cycles can be run in?
          call,        \* the call that the user is in
          left,        \* the cycles that are owed and have not begun
          cycle        \* the cycle under way, or how it came out

vars == <<up, call, left, cycle>>

Calls == {"step", "play", "pause", "reset"}

Init == up = FALSE /\ call = "none" /\ left = 0 /\ cycle = "none"

Ask == call = "none" /\ call' \in Calls /\ UNCHANGED <<up, left, cycle>>

Answer(op) == call = op /\ call' = "none" /\ UNCHANGED <<up, cycle>>

\* step(n): n more than is left, and n instead of a play.  Without a session it is void.
Step ==
  /\ Answer("step")
  /\ \E n \in StepSizes :
       left' = IF up THEN n + (IF left = Play THEN 0 ELSE left) ELSE left

RunFree == Answer("play") /\ left' = IF up THEN Play ELSE left

Pause == Answer("pause") /\ left' = 0

\* A reset closes the session, lets the cycle under way come to its end, and opens another.
Close ==
  /\ call = "reset" /\ call' = "closing"
  /\ up' = FALSE /\ left' = 0
  /\ UNCHANGED cycle

Open ==
  /\ call = "closing" /\ call' = "none"
  /\ cycle = "none"
  /\ up' = TRUE
  /\ UNCHANGED <<left, cycle>>

Begin ==
  /\ up /\ left # 0
  /\ cycle = "none" /\ cycle' = "running"
  /\ left' = IF left = Play THEN Play ELSE left - 1
  /\ UNCHANGED <<up, call>>

Finish ==
  /\ cycle = "running" /\ cycle' \in {"none", "breakpoint", "end"}
  /\ UNCHANGED <<up, call, left>>

\* What was asked for while the cycle was under way goes with the rest.
Break ==
  /\ cycle = "breakpoint" /\ cycle' = "none"
  /\ left' = 0
  /\ UNCHANGED <<up, call>>

End ==
  /\ cycle = "end" /\ cycle' = "none"
  /\ up' = FALSE /\ left' = 0
  /\ UNCHANGED call

Respond == Step \/ RunFree \/ Pause \/ Close \/ Open
Work == Begin \/ Finish \/ Break \/ End

Next == Ask \/ Respond \/ Work

Spec == Init /\ [][Next]_vars /\ WF_vars(Respond) /\ WF_vars(Work)
=============================================================================
