---------------------------- MODULE MCTurnJournal ----------------------------
(* Values of TurnJournal's constants for TLC. *)
EXTENDS TurnJournal, TLC

Symmetry == Permutations(Turn)
=============================================================================
