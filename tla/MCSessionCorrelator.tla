------------------------- MODULE MCSessionCorrelator -------------------------
(* Three processes and two terminals, under every stream of events. *)
EXTENDS SessionCorrelator, TLC

CONSTANTS p1, p2, p3

ThreePids == {p1, p2, p3}
TwoTtys == 0..2
AnyProcess == Permutations(ThreePids)
=============================================================================
