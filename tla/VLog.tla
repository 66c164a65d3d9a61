-------------------------------- MODULE VLog --------------------------------
(***************************************************************************)
(* The VLOG machinery of src/vlog_is_on.cc and googlelog/vlog_is_on.h.in:  *)
(* threads run VLOG_IS_ON at sites, call SetVLOGLevel and assign FLAGS_v.  *)
(*                                                                         *)
(* A site caches a pointer to the integer that controls it. Pointers are   *)
(* numbers: Unset is NULL, Default is &FLAGS_v, k > 0 is the vlog_level of *)
(* the k-th entry of vmodule_list. vmodule_list is written with its head   *)
(* LAST, so an entry keeps its number when others are put in front of it.  *)
(*                                                                         *)
(* vmodule_lock protects everything but the sites' `level` pointers and    *)
(* the integers they point to, which VLOG_IS_ON reads without it: every    *)
(* write of one of those is a step of its own.                             *)
(***************************************************************************)
EXTENDS Integers, Sequences, SequencesExt, VModuleText

CONSTANTS Threads,
          Sites,         \* VLOG_IS_ON sites (SiteFlag objects)
          RawSite,       \* the site of RAW_VLOG in SetVLOGLevel
          FileOf,        \* the __FILE__ of each site
          VmoduleFlags,  \* values --vmodule may have
          Patterns,      \* patterns given to SetVLOGLevel
          Levels,        \* values of FLAGS_v and levels given to SetVLOGLevel
          MaxCalls,      \* bound: how many calls each thread makes
          NoOne          \* no thread holds the lock

VModuleInfo == [module_pattern : Seq(STRING), vlog_level : Int]

ASSUME SitesAssumption == RawSite \in Sites

ASSUME LevelsAssumption == Levels \subseteq Int /\ Levels # {}

ASSUME PatternsAssumption == Patterns \subseteq Seq(STRING) /\ Patterns # {}

ASSUME CallsAssumption == MaxCalls \in [Threads -> Nat]

ASSUME NoOneAssumption == NoOne \notin Threads

ASSUME FlagsAssumption == VmoduleFlags \subseteq Seq(STRING)

VARIABLES FLAGS_v, FLAGS_vmodule,
          inited_vmodule,
          vmodule_lock,      \* the thread that holds it, or NoOne
          vmodule_list,      \* entries, head of the list last
          cached_site_list,  \* sites cached to the default, head first
          level,             \* SiteFlag.level of every site
          base_name,         \* whether SiteFlag.base_name (and base_len) is set
          pc,                \* where each thread is
          site,              \* the site whose VLOG_IS_ON the thread runs
          ptr,               \* the pointer into which a level was found
          arg,               \* the arguments of SetVLOGLevel
          idx,               \* the loop position of SetVLOGLevel
          found, result,     \* its locals of the same names
          calls,             \* calls made by each thread
          before             \* history: the list when SetVLOGLevel locked it

globals == <<FLAGS_v, FLAGS_vmodule, inited_vmodule, vmodule_list,
             cached_site_list, level, base_name>>
locals == <<site, ptr, arg, idx, found, result, calls, before>>
vars == <<globals, vmodule_lock, pc, locals>>

Unset == -1
Default == 0

\* The name a site's patterns are matched against.
Module == [s \in Sites |-> BaseName(FileOf[s])]

\* The entries of a --vmodule flag, in order.
FlagEntries == [flag \in VmoduleFlags |-> ParseVmodule(flag)]

\* Every pattern an entry can have.
AllPatterns == Patterns \cup UNION {{FlagEntries[flag][k].module_pattern :
                                       k \in DOMAIN FlagEntries[flag]} :
                                    flag \in VmoduleFlags}

\* Which patterns match which texts, for all that can meet.
Matches == [pattern \in AllPatterns |->
              [text \in Patterns \cup {Module[s] : s \in Sites} |->
                 SafeFNMatch(pattern, text)]]

Governs(entry, s) == Matches[entry.module_pattern][Module[s]]

\* The walk from the head of the list that stops at the first entry for
\* which Test holds stops at k (0: it runs off the list).
StopsAt(list, k, Test(_)) ==
  /\ k > 0 => Test(list[k])
  /\ \A j \in (k + 1)..Len(list) : ~Test(list[j])

Pc == {"idle", "check", "deref", "init_lock", "init", "init_return",
       "set_lock", "set_scan", "set_walk", "set_unlock"}

Critical == {"init", "init_return", "set_scan", "set_walk", "set_unlock"}

Args == Patterns \X Levels

NoArg == CHOOSE a \in Args : TRUE

Goto(t, label) == pc' = [pc EXCEPT ![t] = label]

Init ==
  /\ FLAGS_v \in Levels
  /\ FLAGS_vmodule \in VmoduleFlags
  /\ inited_vmodule = FALSE
  /\ vmodule_lock = NoOne
  /\ vmodule_list = <<>>
  /\ cached_site_list = <<>>
  /\ level = [s \in Sites |-> Unset]
  /\ base_name = [s \in Sites |-> FALSE]
  /\ pc = [t \in Threads |-> "idle"]
  /\ site = [t \in Threads |-> RawSite]
  /\ ptr = [t \in Threads |-> Default]
  /\ arg = [t \in Threads |-> NoArg]
  /\ idx = [t \in Threads |-> 0]
  /\ found = [t \in Threads |-> FALSE]
  /\ result = [t \in Threads |-> 0]
  /\ calls = [t \in Threads |-> 0]
  /\ before = <<>>

-----------------------------------------------------------------------------
(* VLOG_IS_ON(n). The answer, *level >= n, goes to the caller; here only   *)
(* the pointer it is read through matters.                                 *)

CallVlogIsOn(t, s) ==
  /\ pc[t] = "idle" /\ calls[t] < MaxCalls[t]
  /\ calls' = [calls EXCEPT ![t] = @ + 1]
  /\ site' = [site EXCEPT ![t] = s]
  /\ Goto(t, "check")
  /\ UNCHANGED <<globals, vmodule_lock, ptr, arg, idx, found, result, before>>

\* vlocal__.level == NULL ?
CheckLevel(t) ==
  /\ pc[t] = "check"
  /\ ptr' = [ptr EXCEPT ![t] = level[site[t]]]
  /\ Goto(t, IF level[site[t]] = Unset THEN "init_lock" ELSE "deref")
  /\ UNCHANGED <<globals, vmodule_lock, site, arg, idx, found, result,
                 calls, before>>

\* A call returns: its locals are gone. The last thing every call does is
\* to evaluate a VLOG_IS_ON, SetVLOGLevel's being the one of its RAW_VLOG.
Return(t) ==
  /\ Goto(t, "idle")
  /\ site' = [site EXCEPT ![t] = RawSite]
  /\ ptr' = [ptr EXCEPT ![t] = Default]
  /\ arg' = [arg EXCEPT ![t] = NoArg]
  /\ idx' = [idx EXCEPT ![t] = 0]
  /\ found' = [found EXCEPT ![t] = FALSE]
  /\ result' = [result EXCEPT ![t] = 0]

\* *vlocal__.level is read, through the pointer just tested (ptr) or through
\* level[site[t]] if the compiler loads it again, without the lock.
DerefLevel(t) ==
  /\ pc[t] = "deref"
  /\ Return(t)
  /\ UNCHANGED <<globals, vmodule_lock, calls, before>>

-----------------------------------------------------------------------------
(* InitVLOG3__ *)

Acquire(t, from, to) ==
  /\ pc[t] = from
  /\ vmodule_lock = NoOne
  /\ vmodule_lock' = t
  /\ Goto(t, to)

InitLock(t) ==
  /\ Acquire(t, "init_lock", "init")
  /\ UNCHANGED <<globals, locals>>

\* VLOG2Initializer: the flag's entries, in their order, before all others.
PutInFront(list, entries) == list \o Reverse(entries)

VLOG2Initializer ==
  /\ inited_vmodule' = TRUE
  /\ vmodule_list' = IF inited_vmodule THEN vmodule_list
                     ELSE PutInFront(vmodule_list, FlagEntries[FLAGS_vmodule])

\* Every site found at the default joins the list of cached sites, also
\* when another thread has just put it there.
MutCacheTwice(s, p) == p = Default

\* Whether the site joins the list of the sites cached to the default.
JoinsCachedList(s, p) == p = Default /\ ~base_name[s]

CacheLevel(s, p) ==
  /\ level' = [level EXCEPT ![s] = p]
  /\ IF JoinsCachedList(s, p)
       THEN /\ base_name' = [base_name EXCEPT ![s] = TRUE]
            /\ cached_site_list' = <<s>> \o cached_site_list
       ELSE UNCHANGED <<base_name, cached_site_list>>

\* The pointer InitVLOG3__ finds for a site.
MutLastMatch(list, s, k) ==
  /\ k > 0 => Governs(list[k], s)
  /\ \A j \in 1..(k - 1) : ~Governs(list[j], s)
  /\ k = 0 => \A j \in 1..Len(list) : ~Governs(list[j], s)

\* A pattern's wildcards mean nothing.
MutExactOnly(list, s, k) ==
  StopsAt(list, k, LAMBDA e : e.module_pattern = Module[s])

FindsLevel(list, s, k) == StopsAt(list, k, LAMBDA e : Governs(e, s))

InitVLOG3(t) ==
  /\ pc[t] = "init"
  /\ VLOG2Initializer
  /\ \E p \in 0..Len(vmodule_list') :
       /\ FindsLevel(vmodule_list', site[t], p)
       /\ ptr' = [ptr EXCEPT ![t] = p]
       /\ IF inited_vmodule THEN CacheLevel(site[t], p)
          ELSE UNCHANGED <<level, base_name, cached_site_list>>
  /\ Goto(t, "init_return")
  /\ UNCHANGED <<FLAGS_v, FLAGS_vmodule, vmodule_lock, site, arg, idx,
                 found, result, calls, before>>

\* return *site_flag_value >= verbose_level, then the MutexLock's destructor.
InitReturn(t) ==
  /\ pc[t] = "init_return"
  /\ vmodule_lock' = NoOne
  /\ Return(t)
  /\ UNCHANGED <<globals, calls, before>>

-----------------------------------------------------------------------------
(* SetVLOGLevel *)

CallSetVLOGLevel(t, a) ==
  /\ pc[t] = "idle" /\ calls[t] < MaxCalls[t]
  /\ calls' = [calls EXCEPT ![t] = @ + 1]
  /\ arg' = [arg EXCEPT ![t] = a]
  /\ result' = [result EXCEPT ![t] = FLAGS_v]
  /\ found' = [found EXCEPT ![t] = FALSE]
  /\ Goto(t, "set_lock")
  /\ UNCHANGED <<globals, vmodule_lock, site, ptr, idx, before>>

SetLock(t) ==
  /\ Acquire(t, "set_lock", "set_scan")
  /\ idx' = [idx EXCEPT ![t] = Len(vmodule_list)]
  /\ before' = vmodule_list
  /\ UNCHANGED <<globals, site, ptr, arg, found, result, calls>>

\* What one turn of the loop does with an entry: `applies` when the entry's
\* level is what applied to the pattern, `exact` when it is to be changed.
Exact(entry, pattern) == entry.module_pattern = pattern

Applies(entry, pattern) == \/ Exact(entry, pattern)
                           \/ Matches[entry.module_pattern][pattern]

\* Only the first entry of an exactly matching pattern is changed.
MutChangeFirstOnly(t, entry) == Exact(entry, arg[t][1]) /\ ~found[t]

Changes(t, entry) == Exact(entry, arg[t][1])

WithLevel(entry, l) == [module_pattern |-> entry.module_pattern,
                        vlog_level |-> l]

SetScan(t) ==
  /\ pc[t] = "set_scan" /\ idx[t] > 0
  /\ LET entry == vmodule_list[idx[t]]
         first == ~found[t] /\ Applies(entry, arg[t][1])
     IN /\ result' = [result EXCEPT ![t] = IF first THEN entry.vlog_level ELSE @]
        /\ found' = [found EXCEPT ![t] = @ \/ first]
        /\ vmodule_list' =
             IF Changes(t, entry)
               THEN [vmodule_list EXCEPT ![idx[t]] = WithLevel(entry, arg[t][2])]
               ELSE vmodule_list
  /\ idx' = [idx EXCEPT ![t] = @ - 1]
  /\ UNCHANGED <<FLAGS_v, FLAGS_vmodule, inited_vmodule, cached_site_list,
                 level, base_name, vmodule_lock, pc, site, ptr, arg,
                 calls, before>>

SetFound(t) ==
  /\ pc[t] = "set_scan" /\ idx[t] = 0 /\ found[t]
  /\ Goto(t, "set_unlock")
  /\ UNCHANGED <<globals, vmodule_lock, locals>>

\* The new entry is filled in but never linked into the list.
MutNotLinked(list, entry) == list

\* The new entry becomes the head of the list.
Link(list, entry) == Append(list, entry)

SetInsert(t) ==
  /\ pc[t] = "set_scan" /\ idx[t] = 0 /\ ~found[t]
  /\ vmodule_list' = Link(vmodule_list, [module_pattern |-> arg[t][1],
                                         vlog_level |-> arg[t][2]])
  /\ ptr' = [ptr EXCEPT ![t] = Len(vmodule_list) + 1]
  /\ idx' = [idx EXCEPT ![t] = 1]
  /\ Goto(t, "set_walk")
  /\ UNCHANGED <<FLAGS_v, FLAGS_vmodule, inited_vmodule, cached_site_list,
                 level, base_name, vmodule_lock, site, arg, found,
                 result, calls, before>>

\* The walk ends at the first site it has redirected.
MutStopAtFirst(t) ==
  idx[t] <= Len(cached_site_list) /\ \A s \in Sites : level[s] # ptr[t]

Walking(t) == idx[t] <= Len(cached_site_list)

\* One cached site: redirected and taken off the list, or passed over.
SetWalk(t) ==
  /\ pc[t] = "set_walk" /\ Walking(t)
  /\ LET item == cached_site_list[idx[t]]
     IN IF Matches[arg[t][1]][Module[item]]
          THEN /\ level' = [level EXCEPT ![item] = ptr[t]]
               /\ cached_site_list' = RemoveAt(cached_site_list, idx[t])
               /\ UNCHANGED idx
          ELSE /\ idx' = [idx EXCEPT ![t] = @ + 1]
               /\ UNCHANGED <<level, cached_site_list>>
  /\ UNCHANGED <<FLAGS_v, FLAGS_vmodule, inited_vmodule, vmodule_list,
                 base_name, vmodule_lock, pc, site, ptr, arg, found,
                 result, calls, before>>

SetWalked(t) ==
  /\ pc[t] = "set_walk" /\ ~Walking(t)
  /\ Goto(t, "set_unlock")
  /\ UNCHANGED <<globals, vmodule_lock, locals>>

\* RAW_VLOG is evaluated before the lock is released.
MutLogUnderLock(t) == UNCHANGED vmodule_lock

Release(t) == vmodule_lock' = NoOne

\* The end of the MutexLock's scope; then RAW_VLOG(1, ...), a VLOG_IS_ON.
SetUnlock(t) ==
  /\ pc[t] = "set_unlock"
  /\ Release(t)
  /\ site' = [site EXCEPT ![t] = RawSite]
  /\ before' = <<>>
  /\ Goto(t, "check")
  /\ UNCHANGED <<globals, ptr, arg, idx, found, result, calls>>

-----------------------------------------------------------------------------
(* The program assigns the flag. *)
AssignFlag(v) ==
  /\ FLAGS_v' = v
  /\ UNCHANGED <<FLAGS_vmodule, inited_vmodule, vmodule_list, cached_site_list,
                 level, base_name, vmodule_lock, pc, locals>>

VlogIsOnStep(t) == \/ CheckLevel(t) \/ DerefLevel(t)
                   \/ InitLock(t) \/ InitVLOG3(t) \/ InitReturn(t)

SetStep(t) == \/ SetLock(t) \/ SetScan(t) \/ SetFound(t) \/ SetInsert(t)
              \/ SetWalk(t) \/ SetWalked(t) \/ SetUnlock(t)

Step(t) == VlogIsOnStep(t) \/ SetStep(t)

Next == \/ \E t \in Threads : \/ \E s \in Sites : CallVlogIsOn(t, s)
                              \/ \E a \in Args : CallSetVLOGLevel(t, a)
                              \/ Step(t)
        \/ \E v \in Levels : AssignFlag(v)

Spec == Init /\ [][Next]_vars

\* A thread inside a call keeps running.
FairSpec == Spec /\ \A t \in Threads : WF_vars(Step(t))

-----------------------------------------------------------------------------
(* Properties *)

(* Every variable has its type; a pointer kept anywhere, in a site or by a *)
(* thread, is NULL, &FLAGS_v or leads to an entry that is in the list.     *)
TypeOK ==
  /\ FLAGS_v \in Levels /\ FLAGS_vmodule \in VmoduleFlags
  /\ inited_vmodule \in BOOLEAN
  /\ vmodule_lock \in Threads \cup {NoOne}
  /\ vmodule_list \in Seq(VModuleInfo)
  /\ cached_site_list \in Seq(Sites)
  /\ level \in [Sites -> Unset..Len(vmodule_list)]
  /\ base_name \in [Sites -> BOOLEAN]
  /\ pc \in [Threads -> Pc]
  /\ site \in [Threads -> Sites]
  /\ ptr \in [Threads -> Unset..Len(vmodule_list)]
  /\ arg \in [Threads -> Args]
  /\ idx \in [Threads -> Nat]
  /\ found \in [Threads -> BOOLEAN]
  /\ result \in [Threads -> Int]
  /\ calls \in [Threads -> Nat]
  /\ before \in Seq(VModuleInfo)

(* vmodule_lock does its work: a thread is between the MutexLock and its   *)
(* destructor exactly when it holds the lock, so two never are.            *)
LockHeld == \A t \in Threads : pc[t] \in Critical <=> vmodule_lock = t

(* The list of cached sites is exact, whatever threads race to initialise  *)
(* one site: it holds each site that is cached to the default, once, and   *)
(* no other, so SetVLOGLevel redirects every site it must and no walk of   *)
(* the list runs in a circle.                                              *)
CachedListExact ==
  /\ \A s \in Sites : level[s] = Default
                        <=> \E i \in DOMAIN cached_site_list : cached_site_list[i] = s
  /\ \A i, j \in DOMAIN cached_site_list :
       cached_site_list[i] = cached_site_list[j] => i = j
  /\ \A s \in Sites : /\ level[s] = Default => base_name[s]
                      /\ base_name[s] => level[s] # Unset

\* A site that the walk of some SetVLOGLevel still has before it.
StillToWalk(s) ==
  \E t \in Threads : /\ pc[t] = "set_walk"
                     /\ \E i \in DOMAIN cached_site_list :
                          i >= idx[t] /\ cached_site_list[i] = s

(* A cached pointer never governs a site it should not: a site cached to   *)
(* FLAGS_v is one no entry matches (but for the newest, while SetVLOGLevel *)
(* is about to redirect the site), a site cached to an entry is one that   *)
(* the entry's pattern matches.                                            *)
CacheCoherent ==
  \A s \in Sites :
    /\ level[s] = Default =>
         \A k \in DOMAIN vmodule_list :
           Governs(vmodule_list[k], s) => k = Len(vmodule_list) /\ StillToWalk(s)
    /\ level[s] > 0 => Governs(vmodule_list[level[s]], s)

(* "protect whole read-modify-write": when SetVLOGLevel lets go of the     *)
(* lock, the list is what its arguments make of the list it found, every   *)
(* entry of exactly that pattern changed and no other, or one new head;    *)
(* and it returns the level that applied before: that of the first entry   *)
(* which is or matches the pattern.                                        *)
SetIsReadModifyWrite ==
  \A t \in Threads : pc[t] = "set_unlock" =>
    LET pattern == arg[t][1]
        changed == [k \in DOMAIN before |->
                      IF before[k].module_pattern = pattern
                        THEN WithLevel(before[k], arg[t][2])
                        ELSE before[k]]
    IN \E k \in 0..Len(before) :
         /\ StopsAt(before, k, LAMBDA e : Applies(e, pattern))
         /\ found[t] <=> k > 0
         /\ vmodule_list =
              IF k > 0 THEN changed
              ELSE Append(before, [module_pattern |-> pattern,
                                   vlog_level |-> arg[t][2]])
         /\ k > 0 => result[t] = before[k].vlog_level

(* "Once created each element is never deleted/modified except for the     *)
(* vlog_level": other threads hold pointers into the entries and read them *)
(* without the lock, so no step may drop, move or rename an entry.         *)
EntriesNeverChange ==
  [][/\ Len(vmodule_list') >= Len(vmodule_list)
     /\ \A k \in DOMAIN vmodule_list :
          vmodule_list'[k].module_pattern = vmodule_list[k].module_pattern]_vars

(* What controls a site only ever moves forward: from nothing to FLAGS_v   *)
(* or an entry, from FLAGS_v to an entry, from an entry to one in front of *)
(* it. Two threads that initialise one site with a SetVLOGLevel between    *)
(* them never undo its redirection, and a pointer once set never becomes   *)
(* NULL again under a thread that has tested it.                           *)
ControlMovesForward ==
  [][\A s \in Sites : level'[s] >= level[s]]_vars

(* The detailed machinery implements VLogControl: through the lazy parsing *)
(* of the flag, the races to initialise a site and the walk of the cached  *)
(* sites, every change of what controls a site hands it to the first entry *)
(* that matches its module, or to FLAGS_v when there is none.              *)
MatchesModule(pattern, s) == SafeFNMatch(pattern, BaseName(FileOf[s]))

Control == INSTANCE VLogControl
             WITH Match <- MatchesModule,
                  entries <- [k \in DOMAIN vmodule_list |->
                                vmodule_list[k].module_pattern],
                  control <- level

ControlSpec == Control!Spec

(* No call hangs: every VLOG_IS_ON and every SetVLOGLevel that is begun    *)
(* returns, the VLOG_IS_ON that SetVLOGLevel makes of its own included,    *)
(* which takes the lock SetVLOGLevel has just released.                    *)
CallsReturn == \A t \in Threads : pc[t] # "idle" ~> pc[t] = "idle"

(* googlelog/vlog_is_on.h.in:32-33, of sites that no --vmodule pattern     *)
(* applied to: "the value of FLAGS_v will continue to control them".       *)
DefaultStaysDefault ==
  [][\A s \in Sites : level[s] = Default => level'[s] = Default]_vars

(* googlelog/vlog_is_on.h.in:26: "Set VLOG(_IS_ON) level for               *)
(* module_pattern to log_level". For a module of just that name, and a     *)
(* site of it that has not been executed, the level found next is the new  *)
(* one.                                                                    *)
SetTakesEffect ==
  \A t \in Threads, s \in Sites :
    pc[t] = "set_unlock" /\ Module[s] = arg[t][1] /\ level[s] = Unset =>
      \E k \in 1..Len(vmodule_list) :
        /\ FindsLevel(vmodule_list, s, k)
        /\ vmodule_list[k].vlog_level = arg[t][2]

=============================================================================
