------------------------------ MODULE MCRawLog ------------------------------
(* Constants for model checking RawLog: messages of every size around that *)
(* of a small buffer, and one that vsnprintf cannot format.                *)
EXTENDS RawLog, TLC

CONSTANTS t1, t2, t3

\* Threads differ in nothing but their names.
Symmetry == Permutations(Threads)

McMessageSizes == -1..5

=============================================================================
