----------------------------- MODULE SimWorkerMC -----------------------------
(***************************************************************************)
(* Small instances of SimWorker for TLC.  The program has three            *)
(* instructions: 1 falls through to 2, 2 branches back to 1 or on to 3,    *)
(* and 3 may end the program or go round again.                            *)
(***************************************************************************)
EXTENDS SimWorker

MCAddr == 1 .. 3
MCStart == [c \in Ctxs |-> 1]
MCFlow == <<{2}, {1, 3}, {1}>>
MCExits == {3}
=============================================================================
