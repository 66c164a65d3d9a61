------------------------------- MODULE Dirent -------------------------------
(***************************************************************************)
(* The directory streams of windows/dirent.h, with its non-Microsoft       *)
(* conversions: a program opens, reads, rewinds and closes one stream,     *)
(* wide or narrow, and calls scandir, which works at a stream of its own.  *)
(* Every allocation, every conversion of a name and every call of the      *)
(* system may fail. The Win32 search and the heap are external.            *)
(***************************************************************************)
EXTENDS Integers, Sequences, FiniteSets, Functions

CONSTANTS Directories,  \* the contents a directory may have: sequences of
                        \* WIN32_FIND_DATAW, as the system lists them
          PATH_MAX,
          MaxCalls,     \* bound: calls the program makes
          NULL

ASSUME PathMaxAssumption == PATH_MAX \in Nat \ {0} /\ MaxCalls \in Nat

\* A name: its place in the alphabet, its length, how many bytes it is in the
\* code page, -1 when it has no form there, and what wcstombs makes of it in a
\* buffer of PATH_MAX + 1 bytes: the characters that fit there as a whole, or
\* -1 bytes when one before that has no form. The system's names fit into
\* MAX_PATH characters.
WideNames ==
  {n \in [text : Int, chars : 0..PATH_MAX, bytes : Nat \cup {-1},
          mbs : [text : Int, bytes : -1..(PATH_MAX + 1)]] :
     n.bytes \in 0..(PATH_MAX + 1) => n.mbs = [text |-> n.text, bytes |-> n.bytes]}

Files == [cFileName : WideNames, cAlternateFileName : WideNames \cup {NULL},
          attr : SUBSET {"DEVICE", "DIRECTORY"}]

DirEntries == [d_name : Int, d_namlen : Int, d_off : {0, -1},
               d_type : {"DT_CHR", "DT_DIR", "DT_REG", "DT_UNKNOWN"}]

\* What scandir returns, and in cut whether an error of the system came first.
Lists == [result : Int, table : BOOLEAN, files : Seq(DirEntries),
          filter : SUBSET Int, cut : BOOLEAN]

ASSUME DirectoriesAssumption ==
  /\ \A d \in Directories : d \in Seq(Files)
  /\ NULL \notin WideNames /\ NULL \notin Files
  /\ NULL \notin DirEntries /\ NULL \notin Lists

VARIABLES directory,  \* the contents of the directory
          pc,         \* "idle", or where in a call the program is
          at,         \* the stream it works at
          stream,     \* the DIR and _WDIR of each stream
          heap,       \* how many blocks of each kind are allocated
          searches,   \* how many search handles of each stream are open
          errno,
          scan,       \* the local variables of scandir
          calls,      \* calls made
          seen,       \* history: what the program has read since it opened
                      \* or rewound its stream
          handed,     \* the result of the last scandir, until it is freed
          lost        \* history: the tables and the entries in them that no
                      \* pointer leads to since scandir returned

dirVars == <<directory, pc, at, stream, heap, searches, errno, scan, calls, seen,
             handed, lost>>

Streams == {"user", "scan"}

Kinds == {"DIR", "_WDIR", "patt", "table", "dirent"}

\* Pointers are TRUE when they are not NULL, handle when it is not
\* INVALID_HANDLE_VALUE. cut is a history: an error of the system ended this
\* pass of the stream.
Closed == [wide |-> FALSE, dirp |-> FALSE, wdirp |-> FALSE, patt |-> FALSE,
           handle |-> FALSE, cached |-> FALSE, pos |-> 0, cut |-> FALSE]

NoScan == [dir |-> FALSE, table |-> FALSE, files |-> <<>>, allocated |-> 0,
           tmp |-> FALSE, result |-> 0, filter |-> {}, namelist |-> FALSE,
           cut |-> FALSE]

DirInit ==
  /\ directory \in Directories
  /\ pc = "idle" /\ at = "user"
  /\ stream = [s \in Streams |-> Closed]
  /\ heap = [k \in Kinds |-> 0]
  /\ searches = [s \in Streams |-> 0]
  /\ errno = "none"
  /\ scan = NoScan
  /\ calls = 0
  /\ seen = <<>>
  /\ handed = NULL
  /\ lost = [tables |-> 0, entries |-> 0]

User == stream["user"]

-----------------------------------------------------------------------------
(* Names and entries *)

\* Into a buffer of PATH_MAX + 1 bytes.
wcstombs(name) == name.mbs

\* The string may fill the buffer.
MutFillsBuffer(n) == n # -1

\* n < count, of unsigned integers.
Converted(n) == n # -1 /\ n < PATH_MAX + 1

dirent_wcstombs_s(name) == Converted(wcstombs(name).bytes)

TypeOf(f) == CASE "DEVICE" \in f.attr -> "DT_CHR"
               [] "DEVICE" \notin f.attr /\ "DIRECTORY" \in f.attr -> "DT_DIR"
               [] OTHER -> "DT_REG"

Named(name, f) == [d_name |-> wcstombs(name).text, d_namlen |-> wcstombs(name).bytes,
                   d_type |-> TypeOf(f), d_off |-> 0]

Erroneous == [d_name |-> 0, d_namlen |-> 1, d_type |-> "DT_UNKNOWN", d_off |-> -1]

dirent(f) ==
  IF dirent_wcstombs_s(f.cFileName) THEN Named(f.cFileName, f)
  ELSE IF f.cAlternateFileName # NULL /\ dirent_wcstombs_s(f.cAlternateFileName)
         THEN Named(f.cAlternateFileName, f)
         ELSE Erroneous

_wdirent(f) == [d_name |-> f.cFileName.text,
                d_namlen |-> IF f.cFileName.chars < PATH_MAX THEN f.cFileName.chars
                             ELSE PATH_MAX,
                d_type |-> TypeOf(f), d_off |-> 0]

-----------------------------------------------------------------------------
(* The search of the system, and the two functions that use it *)

\* An opened search has found the first file.
dirent_first(s, ok) ==
  LET found == ok /\ directory # <<>>
  IN /\ stream' = [stream EXCEPT ![s].handle = found, ![s].cached = found,
                                 ![s].pos = IF found THEN 1 ELSE 0,
                                 ![s].cut = ~found]
     /\ errno' \in IF found THEN {errno} ELSE {"EACCES", "ENOTDIR", "ENOENT"}

\* The entry in memory stays there.
MutKeepCached(c) == c

Consumed(c) == FALSE

FindsNext(s, ok) == ok /\ stream[s].pos < Len(directory)

\* The stream after dirent_next, and the file it returns.
AfterNext(s, ok) ==
  LET w == stream[s]
  IN CASE w.cached -> [w EXCEPT !.cached = Consumed(w.cached)]
       [] ~w.cached /\ w.handle /\ FindsNext(s, ok) -> [w EXCEPT !.pos = w.pos + 1]
       [] ~w.cached /\ w.handle /\ ~FindsNext(s, ok) ->
            [w EXCEPT !.handle = FALSE, !.cut = w.cut \/ w.pos < Len(directory)]
       [] OTHER -> w

dirent_next(s, ok) ==
  IF stream[s].cached \/ (stream[s].handle /\ FindsNext(s, ok))
    THEN directory[AfterNext(s, ok).pos] ELSE NULL

\* dirent_next closes the search that has come to its end.
AdvanceStream(s, ok) ==
  /\ stream' = [stream EXCEPT ![s] = AfterNext(s, ok)]
  /\ searches' = [searches EXCEPT ![s] =
                    IF stream[s].handle /\ ~AfterNext(s, ok).handle THEN @ - 1 ELSE @]

-----------------------------------------------------------------------------
(* opendir and _wopendir *)

Call == /\ pc = "idle" /\ calls < MaxCalls
        /\ calls' = calls + 1

\* Where the program goes on after a call that opens or closes stream at.
Resume == IF at = "user" THEN "idle" ELSE IF scan.dir THEN "hand_over" ELSE "no_dir"

Allocated(kind, ok) == heap' = [heap EXCEPT ![kind] = IF ok THEN @ + 1 ELSE @]

\* opendir(dirname) or _wopendir(dirname)
CallOpendir(wide) ==
  /\ Call /\ ~User.wdirp
  /\ at' = "user" /\ seen' = <<>>
  /\ \/ /\ pc' = IF wide THEN "alloc_wdir" ELSE "alloc_dir"
        /\ stream' = [stream EXCEPT !["user"].wide = wide]
        /\ UNCHANGED errno
     \/ /\ errno' = "ENOENT"  \* no name
        /\ UNCHANGED <<pc, stream>>
  /\ UNCHANGED <<directory, heap, searches, scan, handed, lost>>

\* dirp = malloc (sizeof (struct DIR))
AllocDIR(ok) ==
  /\ pc = "alloc_dir"
  /\ Allocated("DIR", ok)
  /\ stream' = [stream EXCEPT ![at].dirp = ok]
  /\ pc' = IF ok THEN "convert" ELSE Resume
  /\ UNCHANGED <<directory, at, searches, errno, scan, calls, seen, handed, lost>>

\* dirent_mbstowcs_s
ConvertName(ok) ==
  /\ pc = "convert"
  /\ pc' = IF ok THEN "alloc_wdir" ELSE "free_dir"
  /\ UNCHANGED <<directory, at, stream, heap, searches, errno, scan, calls, seen,
                 handed, lost>>

\* dirp = malloc (sizeof (struct _WDIR)), and its reset
AllocWDIR(ok) ==
  /\ pc = "alloc_wdir"
  /\ Allocated("_WDIR", ok)
  /\ stream' = [stream EXCEPT ![at] = [@ EXCEPT !.wdirp = ok, !.patt = FALSE,
                                                !.handle = FALSE, !.cached = FALSE]]
  /\ pc' = CASE ok -> "alloc_patt"
             [] ~ok /\ stream[at].wide -> Resume
             [] ~ok /\ ~stream[at].wide -> "free_dir"
  /\ UNCHANGED <<directory, at, searches, errno, scan, calls, seen, handed, lost>>

AllocPatt(ok) ==
  /\ pc = "alloc_patt"
  /\ Allocated("patt", ok)
  /\ stream' = [stream EXCEPT ![at].patt = ok]
  /\ pc' = IF ok THEN "full_path" ELSE "wclose"
  /\ UNCHANGED <<directory, at, searches, errno, scan, calls, seen, handed, lost>>

\* GetFullPathNameW, and the search pattern behind the name
FullPath(ok) ==
  /\ pc = "full_path"
  /\ pc' = IF ok THEN "first" ELSE "wclose"
  /\ UNCHANGED <<directory, at, stream, heap, searches, errno, scan, calls, seen,
                 handed, lost>>

\* The directory stream and its first entry; _wopendir and opendir return.
OpenFirst(ok) ==
  /\ pc = "first"
  /\ dirent_first(at, ok)
  /\ searches' = [searches EXCEPT ![at] = @ + IF stream'[at].handle THEN 1 ELSE 0]
  /\ pc' = CASE ~stream'[at].handle -> "wclose"
             [] stream'[at].handle /\ at = "user" -> "idle"
             [] stream'[at].handle /\ at = "scan" -> "grow"
  /\ scan' = [scan EXCEPT !.dir = at = "scan" /\ stream'[at].handle]
  /\ UNCHANGED <<directory, at, heap, calls, seen, handed, lost>>

-----------------------------------------------------------------------------
(* closedir and _wclosedir, also where opening fails *)

CallClosedir ==
  /\ Call
  /\ at' = "user"
  /\ IF User.wdirp THEN pc' = "wclose" /\ UNCHANGED errno
                   ELSE errno' = "EBADF" /\ UNCHANGED pc
  /\ UNCHANGED <<directory, stream, heap, searches, scan, seen, handed, lost>>

_wclosedir ==
  /\ pc = "wclose"
  /\ searches' = [searches EXCEPT ![at] = @ - IF stream[at].handle THEN 1 ELSE 0]
  /\ heap' = [heap EXCEPT !["patt"] = @ - IF stream[at].patt THEN 1 ELSE 0,
                          !["_WDIR"] = @ - 1]
  /\ stream' = [stream EXCEPT ![at] = [Closed EXCEPT !.dirp = stream[at].dirp]]
  /\ pc' = IF stream[at].wide THEN Resume ELSE "free_dir"
  /\ UNCHANGED <<directory, at, errno, scan, calls, seen, handed, lost>>

\* free (dirp), and the end of closedir or of an opendir that fails
FreeDIR ==
  /\ pc = "free_dir"
  /\ heap' = [heap EXCEPT !["DIR"] = @ - 1]
  /\ stream' = [stream EXCEPT ![at] = Closed]
  /\ pc' = Resume
  /\ UNCHANGED <<directory, at, searches, errno, scan, calls, seen, handed, lost>>

-----------------------------------------------------------------------------
(* readdir, readdir_r, _wreaddir, _wreaddir_r; rewinddir, _wrewinddir *)

EntryOf(w, f) == IF w.wide THEN _wdirent(f) ELSE dirent(f)

ReadDir(ok) ==
  /\ Call /\ User.wdirp
  /\ AdvanceStream("user", ok)
  /\ LET f == dirent_next("user", ok)
     IN seen' = Append(seen, IF f = NULL THEN NULL ELSE EntryOf(User, f))
  /\ UNCHANGED <<directory, pc, at, heap, errno, scan, handed, lost>>

RewindDir(ok) ==
  /\ Call /\ User.wdirp
  /\ dirent_first("user", ok)
  /\ searches' = [searches EXCEPT !["user"] = @ - (IF User.handle THEN 1 ELSE 0)
                                  + IF stream'["user"].handle THEN 1 ELSE 0]
  /\ seen' = <<>>
  /\ UNCHANGED <<directory, pc, at, heap, scan, handed, lost>>

-----------------------------------------------------------------------------
(* scandir *)

\* The entries that pass a filter, given by their names; without a filter all
\* pass. namelist may be NULL.
CallScandir(filter, namelist) ==
  /\ Call /\ handed = NULL
  /\ at' = "scan"
  /\ scan' = [NoScan EXCEPT !.filter = filter, !.namelist = namelist]
  /\ \/ pc' = "alloc_dir" /\ UNCHANGED errno
     \/ pc' = "no_dir" /\ errno' = "ENOENT"  \* no name
  /\ UNCHANGED <<directory, stream, heap, searches, seen, handed, lost>>

TableFull(size, allocated) == size >= allocated

\* Double the size; init_size is 1.
NumEntries(size) == IF size < 1 THEN 1 ELSE size * 2

\* The list ends where the memory ended.
MutKeepCount(sc) == sc

\* Out of memory
ScanFails(sc) == [sc EXCEPT !.result = -1]

GrowTable(ok) ==
  /\ pc = "grow"
  /\ IF ~TableFull(Len(scan.files), scan.allocated)
       THEN pc' = "temporary" /\ UNCHANGED <<scan, heap>>
       ELSE /\ heap' = [heap EXCEPT !["table"] = IF ok /\ ~scan.table THEN @ + 1 ELSE @]
            /\ scan' = IF ok THEN [scan EXCEPT !.table = TRUE,
                                     !.allocated = NumEntries(Len(scan.files))]
                             ELSE ScanFails(scan)
            /\ pc' = IF ok THEN "temporary" ELSE "release"
  /\ UNCHANGED <<directory, at, stream, searches, errno, calls, seen, handed, lost>>

AllocTemporary(ok) ==
  /\ pc = "temporary"
  /\ Allocated("dirent", ok /\ ~scan.tmp)
  /\ scan' = IF scan.tmp \/ ok THEN [scan EXCEPT !.tmp = TRUE]
                               ELSE ScanFails(scan)
  /\ pc' = IF scan.tmp \/ ok THEN "read" ELSE "release"
  /\ UNCHANGED <<directory, at, stream, searches, errno, calls, seen, handed, lost>>

\* The table and the temporary entry share the block.
MutShareTmp(sc, e) == [sc EXCEPT !.files = Append(@, e), !.result = @ + 1]

Stored(sc, e) == [sc EXCEPT !.files = Append(@, e), !.tmp = FALSE, !.result = @ + 1]

alphasort(a, b) == a.d_name < b.d_name

\* What qsort may make of a list: entries of equal names in any order.
Sorted(q) ==
  {r \in {[i \in DOMAIN q |-> q[p[i]]] : p \in Bijection(DOMAIN q, DOMAIN q)} :
     \A i, j \in DOMAIN q : i < j => ~alphasort(r[j], r[i])}

\* readdir_r, the filter, and qsort at the end; readdir_r never fails.
ScanEntry(ok) ==
  /\ pc = "read"
  /\ AdvanceStream("scan", ok)
  /\ LET f == dirent_next("scan", ok)
     IN IF f = NULL
          THEN /\ \E files \in Sorted(scan.files) :
                    scan' = [scan EXCEPT !.files = files,
                                         !.cut = AfterNext("scan", ok).cut]
               /\ pc' = "release"
          ELSE /\ scan' = IF dirent(f).d_name \in scan.filter
                            THEN Stored(scan, dirent(f)) ELSE scan
               /\ pc' = "grow"
  /\ UNCHANGED <<directory, at, heap, errno, calls, seen, handed, lost>>

\* Cannot open directory
NoDir ==
  /\ pc = "no_dir"
  /\ scan' = ScanFails(scan)
  /\ pc' = "release"
  /\ UNCHANGED <<directory, at, stream, heap, searches, errno, calls, seen, handed, lost>>

\* The temporary entry is freed, and everything on error; then closedir.
ReleaseMemory ==
  /\ pc = "release"
  /\ heap' = [heap EXCEPT
       !["dirent"] = @ - (IF scan.tmp THEN 1 ELSE 0)
                       - (IF scan.result < 0 THEN Len(scan.files) ELSE 0),
       !["table"] = @ - (IF scan.result < 0 /\ scan.table THEN 1 ELSE 0)]
  /\ scan' = IF scan.result < 0
               THEN [scan EXCEPT !.tmp = FALSE, !.table = FALSE, !.files = <<>>]
               ELSE [scan EXCEPT !.tmp = FALSE]
  /\ pc' = IF scan.dir THEN "wclose" ELSE "hand_over"
  /\ UNCHANGED <<directory, at, stream, searches, errno, calls, seen, handed, lost>>

\* if (namelist) *namelist = files; return result; files is a local variable.
HandOver ==
  /\ pc = "hand_over"
  /\ IF scan.namelist
       THEN /\ handed' = [result |-> scan.result, table |-> scan.table,
                          files |-> scan.files, filter |-> scan.filter, cut |-> scan.cut]
            /\ UNCHANGED lost
       ELSE /\ lost' = [tables |-> lost.tables + IF scan.table THEN 1 ELSE 0,
                        entries |-> lost.entries + Len(scan.files)]
            /\ UNCHANGED handed
  /\ scan' = NoScan
  /\ pc' = "idle"
  /\ UNCHANGED <<directory, at, stream, heap, searches, errno, calls, seen>>

\* The program frees the list that scandir gave it.
FreeNamelist ==
  /\ pc = "idle" /\ handed # NULL
  /\ heap' = [heap EXCEPT !["dirent"] = @ - Len(handed.files),
                          !["table"] = @ - IF handed.table THEN 1 ELSE 0]
  /\ handed' = NULL
  /\ UNCHANGED <<directory, pc, at, stream, searches, errno, scan, calls, seen, lost>>

-----------------------------------------------------------------------------
AllNames == {dirent(directory[i]).d_name : i \in DOMAIN directory}

\* A step inside a call.
InCall ==
  \/ \E ok \in BOOLEAN :
       \/ AllocDIR(ok) \/ ConvertName(ok) \/ AllocWDIR(ok) \/ AllocPatt(ok)
       \/ FullPath(ok) \/ OpenFirst(ok)
       \/ GrowTable(ok) \/ AllocTemporary(ok) \/ ScanEntry(ok)
  \/ _wclosedir \/ FreeDIR \/ NoDir \/ ReleaseMemory \/ HandOver

DirNext ==
  \/ InCall
  \/ \E wide \in BOOLEAN : CallOpendir(wide)
  \/ \E ok \in BOOLEAN : ReadDir(ok) \/ RewindDir(ok)
  \/ \E hidden \in AllNames \cup {NULL}, namelist \in BOOLEAN :
       CallScandir(AllNames \ {hidden}, namelist)
  \/ CallClosedir \/ FreeNamelist

DirSpec == DirInit /\ [][DirNext]_dirVars /\ WF_dirVars(InCall)

-----------------------------------------------------------------------------
(* Properties *)

Fits(name) == name.bytes \in 0..PATH_MAX

\* A character would stand across the end of the buffer, so that wcstombs stops
\* before it, or one that has no form stands behind the end: what comes before
\* is fewer than PATH_MAX + 1 bytes, and taken for the name.
Chopped(name) == ~Fits(name) /\ name.mbs.bytes \in 0..PATH_MAX

Entries == {dirent(directory[i]) : i \in DOMAIN directory}

(* Every variable has its type, and scandir never stores behind the end of *)
(* its table.                                                              *)
DirTypeOK ==
  /\ at \in Streams
  /\ stream \in [Streams -> [wide : BOOLEAN, dirp : BOOLEAN, wdirp : BOOLEAN,
                             patt : BOOLEAN, handle : BOOLEAN, cached : BOOLEAN,
                             pos : 0..Len(directory), cut : BOOLEAN]]
  /\ heap \in [Kinds -> Nat]
  /\ searches \in [Streams -> Nat]
  /\ errno \in {"none", "EACCES", "ENOTDIR", "ENOENT", "EBADF"}
  /\ calls \in 0..MaxCalls
  /\ scan.result \in -1..Len(directory)
  /\ scan.files \in Seq(Entries)
  /\ Len(scan.files) <= scan.allocated
  /\ handed = NULL \/ handed.files \in Seq(Entries)
  /\ lost \in [tables : Nat, entries : Nat]

\* The blocks of each kind that some pointer leads to, and those of the lists
\* that scandir made for nobody.
Accounted(kind) ==
  LET One(p) == IF p THEN 1 ELSE 0
      List == IF handed = NULL THEN NoScan ELSE handed
  IN CASE kind = "DIR" -> Cardinality({s \in Streams : stream[s].dirp})
       [] kind = "_WDIR" -> Cardinality({s \in Streams : stream[s].wdirp})
       [] kind = "patt" -> Cardinality({s \in Streams : stream[s].patt})
       [] kind = "table" -> One(scan.table) + One(List.table) + lost.tables
       [] kind = "dirent" ->
            One(scan.tmp) + Len(scan.files) + Len(List.files) + lost.entries

(* Whatever allocation, conversion or call of the system fails, and in     *)
(* every step of opendir, rewinddir, closedir and scandir, each block and  *)
(* each search handle has exactly one owner, and none is freed or closed   *)
(* twice or used after that. One thing is leaked: a scandir that succeeds  *)
(* without a namelist to store to (dirent.h:1010) leaves its table and     *)
(* every entry in it behind, and nothing else.                             *)
MemoryAccounted ==
  /\ \A kind \in Kinds : heap[kind] = Accounted(kind)
  /\ \A s \in Streams : searches[s] = IF stream[s].handle THEN 1 ELSE 0

(* The memory is sound: nothing is written behind the end of the table,    *)
(* and every block and handle has one owner or is of such a list.          *)
DirInv == DirTypeOK /\ MemoryAccounted

\* What e says of file f: the name, else the short name, else that there is
\* none; the whole of it when it fits, the part before the end when it is
\* chopped there.
Shows(wide, f, e) ==
  IF wide THEN e.d_name = f.cFileName.text /\ e.d_namlen = f.cFileName.chars
  ELSE LET usable == {n \in {f.cFileName, f.cAlternateFileName} \ {NULL} :
                        Fits(n) \/ Chopped(n)}
           n == IF f.cFileName \in usable THEN f.cFileName ELSE f.cAlternateFileName
       IN IF usable = {} THEN e.d_type = "DT_UNKNOWN"
          ELSE IF Fits(n) THEN e.d_name = n.text /\ e.d_namlen = n.bytes
          ELSE e.d_name = n.mbs.text /\ e.d_namlen = n.mbs.bytes

(* A pass over a stream returns the files of the directory in the system's *)
(* order, each once, a file without a usable name included, then NULL for  *)
(* good; only an error of the system ends it early. rewinddir starts a     *)
(* pass anew, and a scandir in between disturbs nothing. A file is shown   *)
(* under its name, or its short name when that is too long or has no form  *)
(* (dirent.h:771-774), with one exception: a name too long whose last      *)
(* character in the buffer would cross the end counts as converted         *)
(* (dirent.h:1107-1108), and is shown truncated though there may be a      *)
(* short name.                                                             *)
EachEntryOnce ==
  User.wdirp =>
    \E k \in 0..Len(directory) :
      /\ \A i \in DOMAIN seen : IF i <= k THEN /\ seen[i] # NULL
                                               /\ Shows(User.wide, directory[i], seen[i])
                                          ELSE seen[i] = NULL
      /\ Len(seen) > k => User.cut \/ k = Len(directory)

Passing(i, filter) == dirent(directory[i]).d_name \in filter

(* scandir gives all or nothing: on -1 there is no list; else the list     *)
(* holds, in alphabetical order, exactly the entries that pass the filter  *)
(* among those read before the end of the directory or an error.           *)
ScandirExact ==
  handed # NULL =>
    IF handed.result < 0 THEN handed.files = <<>> /\ ~handed.table
    ELSE /\ handed.result = Len(handed.files)
         /\ \A i, j \in DOMAIN handed.files :
              i < j => handed.files[i].d_name <= handed.files[j].d_name
         /\ \E k \in 0..Len(directory) :
              /\ k = Len(directory) \/ handed.cut
              /\ \A e \in Entries :
                   Cardinality({i \in DOMAIN handed.files : handed.files[i] = e}) =
                   Cardinality({i \in 1..k : Passing(i, handed.filter) /\
                                             dirent(directory[i]) = e})

(* Every call returns: scandir's endless loop ends, whatever fails and     *)
(* whatever the filter refuses.                                            *)
DirCallsReturn == pc # "idle" ~> pc = "idle"

=============================================================================
