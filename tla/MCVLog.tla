------------------------------- MODULE MCVLog -------------------------------
(***************************************************************************)
(* Constants for model checking VLog: two modules, "a" (a.cc) and "ab"     *)
(* (d/ab-inl.h), and the module of vlog_is_on.cc itself, here "v".         *)
(***************************************************************************)
EXTENDS VLog

CONSTANTS t1, t2, siteA, siteAB, siteV

FileA == <<"a", ".", "c", "c">>
FileAB == <<"d", "/", "a", "b", "-", "i", "n", "l", ".", "h">>
FileV == <<"v", ".", "c", "c">>

McFileOf == [s \in Sites |-> CASE s = siteA -> FileA
                               [] s = siteAB -> FileAB
                               [] s = siteV -> FileV]

PatA == <<"a">>
PatAStar == <<"a", "*">>
PatQB == <<"?", "b">>

\* "" and "a*=1,a*=2"
NoFlag == <<>>
FlagTwice == <<"a", "*", "=", "1", ",", "a", "*", "=", "2">>

McCalls == (t1 :> 2) @@ (t2 :> 2)

McPatterns == {PatA, PatAStar}
McOverlap == {PatAStar, PatQB}
McFlags == {NoFlag, FlagTwice}
McEmptyFlags == {NoFlag}

=============================================================================
