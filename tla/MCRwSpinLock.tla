---------------------------- MODULE MCRwSpinLock ----------------------------
(* Small instances of RwSpinLock for TLC. *)
EXTENDS RwSpinLock, TLC

\* The threads are interchangeable: no definition orders or names them.
Symmetry == Permutations(Threads)
=============================================================================
