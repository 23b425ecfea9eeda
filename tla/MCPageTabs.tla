----------------------------- MODULE MCPageTabs -----------------------------
(***************************************************************************)
(* PageTabs for TLC.  Nothing in it tells two paths apart, so states that  *)
(* differ by a permutation of Paths count as one.                          *)
(***************************************************************************)
EXTENDS PageTabs, TLC

Symmetry == Permutations(Paths)
=============================================================================
