---------------------------- MODULE MCGameWeeks ----------------------------
(* Two callers through a rollover; picks that outlive the list of gameweeks. *)
EXTENDS GameWeeks, TLC

CONSTANTS c1, c2

TwoCallers == {c1, c2}
CallerSymmetry == Permutations(TwoCallers)
=============================================================================
