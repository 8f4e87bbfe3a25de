---------------------------- MODULE InstructionMC ----------------------------
(* Values for InstructionCheck.cfg. *)
EXTENDS InstructionCheck

MCControls == {{}, {23}, {0, 1}, {0, 7, 26}, {24, 25, 31}}
MCNumbers == -7 .. 7
\* All words are in it, at different addresses.
MCBytes == [a \in 0 .. 15 |-> <<0, 0, 0, 0, 1, 0, 0, 1, 1, 0, 1, 0, 1, 1, 1, 1>>[a + 1]]
=============================================================================
