------------------------------- MODULE PanesMC -------------------------------
(***************************************************************************)
(* Panes for TLC: the contexts are alike.                                  *)
(***************************************************************************)
EXTENDS Panes, TLC

Symmetric == Permutations(Ctxs)
=============================================================================
