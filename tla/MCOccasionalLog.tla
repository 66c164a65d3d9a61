-------------------------- MODULE MCOccasionalLog --------------------------
(* Constants for model checking OccasionalLog with EveryT. *)
EXTENDS EveryT

CONSTANTS t1, t2, t3

\* Threads differ in nothing but their names.
Symmetry == Permutations(Threads)

=============================================================================
