------------------------ MODULE MCPublicHistoryWorker ------------------------
(* A ring of one keyframe, so that one slow cycle overflows it.            *)
EXTENDS PublicHistoryWorker, TLC

Symmetry == Permutations(Hands)
=============================================================================
