------------------------------ MODULE FrontendMC ------------------------------
(***************************************************************************)
(* Small instances of Frontend for TLC: two contexts run the program of    *)
(* SimWorkerMC.                                                            *)
(***************************************************************************)
EXTENDS Frontend

MCAddr == 1 .. 3
MCStart == [c \in Ctxs |-> 1]
MCFlow == <<{2}, {1, 3}, {1}>>
MCExits == {3}
=============================================================================
