--------------------------- MODULE SimWorkerClaims ---------------------------
(***************************************************************************)
(* What a comment of the source says of the status codes, stated as it     *)
(* says it.  The code departs from it, and TLC shows how.                  *)
(***************************************************************************)
EXTENDS SimWorkerMC

\* A report is read before it goes: whoever replaces the value of status has seen it.
KeptUntilRead(code) ==
  status = code /\ status' # code => pc_m = "status" /\ status_to_return = code

\* "The simulator thread will send messages to the main thread ... for the following
\* events: ... Has program exited?" (spim.cpp:99-103).  get_simulator_status reads and
\* clears status in two steps, and a FINISHED_RUNNING written in between is lost.
FinishIsReported == [][KeptUntilRead(FINISHED_RUNNING)]_vars
=============================================================================
