---------------------------- MODULE MCFileStore ----------------------------
(* Two processes and two keys, each pair interchangeable. *)
EXTENDS FileStore, TLC

CONSTANTS p1, p2, k1, k2

StoreSymmetry == Permutations({p1, p2}) \cup Permutations({k1, k2})
=============================================================================
