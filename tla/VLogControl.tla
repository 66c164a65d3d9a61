---------------------------- MODULE VLogControl ----------------------------
(***************************************************************************)
(* What the VLOG machinery promises about which integer controls a site,   *)
(* with the threads, the lock, the lazily parsed flag and the list of      *)
(* cached sites left out: entries are only ever added in front (they are   *)
(* numbered from the back), and each step hands at most one site over, to  *)
(* the first entry whose pattern matches its module, or to FLAGS_v (0)     *)
(* when none does. A site nobody has executed is at -1.                    *)
(***************************************************************************)
EXTENDS Integers, Sequences

CONSTANTS Sites,
          Match(_, _)   \* whether a pattern matches the module of a site

VARIABLES entries,   \* the patterns of the entries, first one last
          control    \* what controls each site

IsFirst(s, k) ==
  /\ k \in 0..Len(entries)
  /\ k > 0 => Match(entries[k], s)
  /\ \A j \in (k + 1)..Len(entries) : ~Match(entries[j], s)

Init == entries = <<>> /\ control = [s \in Sites |-> -1]

AddEntries ==
  /\ Len(entries') >= Len(entries)
  /\ \A k \in 1..Len(entries) : entries'[k] = entries[k]
  /\ UNCHANGED control

HandOver(s) ==
  /\ \E k \in 0..Len(entries) :
       IsFirst(s, k) /\ control' = [control EXCEPT ![s] = k]
  /\ UNCHANGED entries

Next == AddEntries \/ \E s \in Sites : HandOver(s)

Spec == Init /\ [][Next]_<<entries, control>>

============================================================================
