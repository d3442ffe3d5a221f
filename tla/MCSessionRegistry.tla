------------------------- MODULE MCSessionRegistry -------------------------
(***************************************************************************)
(* Instances of SessionRegistry for TLC: HTTP workers are interchangeable. *)
(***************************************************************************)
EXTENDS SessionRegistry, TLC

WorkerSymmetry == Permutations(Workers)
=============================================================================
