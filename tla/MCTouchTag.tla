----------------------------- MODULE MCTouchTag -----------------------------
(* Two widgets, and two tags for them to hold and to hand over. *)
EXTENDS TouchTag, TLC

CONSTANTS ok, cancel

MCContexts == {ok, cancel}
Symmetry   == Permutations(MCContexts)
=============================================================================
