---------------------------- MODULE MCRepository ----------------------------
(* Small instances of Repository for TLC. *)
EXTENDS Repository, TLC

\* The threads are interchangeable: no definition orders or names them.
Symmetry == Permutations(Threads)
=============================================================================
