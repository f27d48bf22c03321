----------------------------- MODULE MCMonarchy -----------------------------
(* Monarchy for TLC: the processes are interchangeable.                    *)
EXTENDS Monarchy, TLC

Symmetry == Permutations(Procs)
=============================================================================
