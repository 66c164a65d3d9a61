---------------------------- MODULE DirentProofs ----------------------------
(***************************************************************************)
(* Proofs about Dirent, for any directory, PATH_MAX and number of calls:   *)
(* every block and search handle has one owner whatever fails, but for the *)
(* lists that scandir makes for nobody, a pass over a stream shows each    *)
(* file once, and scandir gives all or nothing.                            *)
(***************************************************************************)
EXTENDS Dirent, SequenceTheorems, FiniteSetTheorems, TLAPS

Opening == {"alloc_dir", "convert", "alloc_wdir", "alloc_patt", "full_path", "first"}

Closing == {"wclose", "free_dir"}

Reading == {"grow", "temporary", "read"}

Places == Opening \cup Closing \cup Reading \cup {"idle", "no_dir", "release", "hand_over"}

OpenStreams == [wide : BOOLEAN, dirp : BOOLEAN, wdirp : BOOLEAN, patt : BOOLEAN,
                handle : BOOLEAN, cached : BOOLEAN, pos : 0..Len(directory),
                cut : BOOLEAN]

Scans == [dir : BOOLEAN, table : BOOLEAN, files : Seq(Entries), allocated : Nat,
          tmp : BOOLEAN, result : Int, filter : SUBSET Int, namelist : BOOLEAN,
          cut : BOOLEAN]

One(p) == IF p THEN 1 ELSE 0

Scan == stream["scan"]

-----------------------------------------------------------------------------
(* The inductive invariant *)

(* Every variable has its type. *)
Typed ==
  /\ directory \in Seq(Files)
  /\ pc \in Places /\ at \in Streams
  /\ stream \in [Streams -> OpenStreams]
  /\ heap \in [Kinds -> Nat] /\ searches \in [Streams -> Nat]
  /\ errno \in {"none", "EACCES", "ENOTDIR", "ENOENT", "EBADF"}
  /\ calls \in 0..MaxCalls
  /\ scan \in Scans
  /\ handed # NULL => handed \in Lists /\ handed.files \in Seq(Entries)
  /\ seen \in Seq(DirEntries \cup {NULL})
  /\ lost \in [tables : Nat, entries : Nat]

(* An entry in memory is that of an open search, which is at a file of the *)
(* directory.                                                              *)
SearchSound(w) == /\ w.cached => w.handle
                  /\ w.handle => w.wdirp /\ w.pos >= 1

\* A stream that is not there at all.
Shut(w) == ~w.dirp /\ ~w.wdirp /\ ~w.patt /\ ~w.handle

\* One that a program may use.
Open(w) == w.wdirp /\ w.patt /\ (w.dirp <=> ~w.wide)

\* A stream in the middle of opening or closing: which of its parts are there.
PartsAt(w, p) ==
  /\ p = "alloc_dir" => ~w.wide /\ Shut(w)
  /\ p = "convert" => ~w.wide /\ w.dirp /\ ~w.wdirp /\ ~w.patt /\ ~w.handle
  /\ p = "alloc_wdir" => (w.dirp <=> ~w.wide) /\ ~w.wdirp /\ ~w.patt /\ ~w.handle
  /\ p = "alloc_patt" => (w.dirp <=> ~w.wide) /\ w.wdirp /\ ~w.patt /\ ~w.handle
  /\ p \in {"full_path", "first"} => Open(w) /\ ~w.handle
  /\ p = "wclose" => (w.dirp <=> ~w.wide) /\ w.wdirp
  /\ p = "free_dir" => ~w.wide /\ w.dirp /\ ~w.wdirp /\ ~w.patt /\ ~w.handle
  /\ p \in Reading => Open(w) /\ w.handle
  /\ p \in {"no_dir", "hand_over"} => Shut(w)

(* The call that runs works at one stream; the other is there as a whole   *)
(* or not at all.                                                          *)
StreamsInv ==
  /\ \A s \in Streams : SearchSound(stream[s])
  /\ ~Scan.wide
  /\ pc = "idle" \/ at = "scan" => Open(User) \/ Shut(User)
  /\ pc = "idle" \/ at = "user" => Shut(Scan)
  /\ pc # "idle" => PartsAt(stream[at], pc)
  /\ pc = "release" => IF scan.dir THEN Open(Scan) ELSE Shut(Scan)
  /\ at = "user" => pc \in {"idle"} \cup Opening \cup Closing

(* How many files the program, or scandir, has got from a stream. *)
Consumption(w) == w.pos - One(w.cached)

(* What the program has read: the first k files and nothing else. *)
FirstRead(k) ==
  \A i \in DOMAIN seen : IF i <= k THEN /\ seen[i] # NULL
                                        /\ Shows(User.wide, directory[i], seen[i])
                                   ELSE seen[i] = NULL

(* The pass of the program over its stream: while the search is open, what *)
(* it has read is what it got; a pass that has ended has an error behind   *)
(* it, or the whole directory.                                             *)
PassInv ==
  /\ at = "user" /\ pc \in Opening => seen = <<>>
  /\ User.handle => FirstRead(Len(seen)) /\ Len(seen) = Consumption(User)
  /\ User.wdirp /\ ~User.handle =>
       \E k \in 0..Len(directory) :
         /\ k <= Len(seen) /\ FirstRead(k)
         /\ Len(seen) > k \/ pc = "idle" \/ at = "scan" => User.cut \/ k = Len(directory)

\* The list holds just what passes the filter among the first k files.
Tally(q, filter, k) ==
  \A e \in Entries : Cardinality({i \in DOMAIN q : q[i] = e}) =
                     Cardinality({i \in 1..k : Passing(i, filter) /\
                                               dirent(directory[i]) = e})

Alphabetical(q) == \A i, j \in DOMAIN q : i < j => q[i].d_name <= q[j].d_name

\* A list that is all or nothing.
ListExact(l) ==
  IF l.result < 0 THEN l.files = <<>> /\ ~l.table
  ELSE /\ l.result = Len(l.files)
       /\ Alphabetical(l.files)
       /\ \E k \in 0..Len(directory) : (k = Len(directory) \/ l.cut)
                                       /\ Tally(l.files, l.filter, k)

(* The local variables of scandir as it opens its stream, reads, and ends. *)
ScanInv ==
  /\ pc = "idle" \/ at = "user" => scan = NoScan
  /\ pc # "idle" /\ at = "scan" => handed = NULL
  /\ Len(scan.files) <= scan.allocated /\ Len(scan.files) <= Len(directory)
  /\ -1 <= scan.result /\ scan.result <= Len(directory)
  /\ scan.dir => at = "scan" /\ pc \in Reading \cup Closing \cup {"release", "hand_over"}
  /\ ~scan.dir /\ pc \in Opening \cup Closing \cup {"no_dir"} =>
       scan.files = <<>> /\ scan.result = 0 /\ ~scan.table /\ ~scan.tmp
  /\ pc \in Reading => /\ scan.dir /\ scan.result = Len(scan.files)
                       /\ Len(scan.files) <= Consumption(Scan)
                       /\ Tally(scan.files, scan.filter, Consumption(Scan))
  /\ pc \in {"temporary", "read"} => Len(scan.files) < scan.allocated
  /\ pc = "read" => scan.tmp
  /\ pc = "release" => scan.result = -1 \/ (scan.dir /\ ListExact(scan))
  /\ (pc \in Closing /\ scan.dir) \/ pc = "hand_over" => ~scan.tmp /\ ListExact(scan)
  /\ handed # NULL => ListExact(handed)

(* Each block and each search handle has one owner, kind by kind, or is of *)
(* a list that scandir left behind.                                        *)
Balance ==
  /\ heap["DIR"] = One(User.dirp) + One(Scan.dirp)
  /\ heap["_WDIR"] = One(User.wdirp) + One(Scan.wdirp)
  /\ heap["patt"] = One(User.patt) + One(Scan.patt)
  /\ heap["table"] = One(scan.table)
                     + (IF handed = NULL THEN 0 ELSE One(handed.table)) + lost.tables
  /\ heap["dirent"] = One(scan.tmp) + Len(scan.files)
                      + (IF handed = NULL THEN 0 ELSE Len(handed.files)) + lost.entries
  /\ \A s \in Streams : searches[s] = One(stream[s].handle)

IInv == Typed /\ StreamsInv /\ PassInv /\ ScanInv /\ Balance

-----------------------------------------------------------------------------
(* Names and entries *)

\* Fewer than PATH_MAX + 1 bytes come out of it.
Usable(n) == Fits(n) \/ Chopped(n)

(* A name is converted when it fits or is chopped; it is whole when it     *)
(* fits.                                                                   *)
LEMMA ConvertsWhatFits ==
  ASSUME NEW n \in WideNames
  PROVE  /\ dirent_wcstombs_s(n) <=> Usable(n)
         /\ wcstombs(n) = n.mbs /\ n.mbs.text \in Int /\ n.mbs.bytes \in Int
         /\ Fits(n) => n.mbs.text = n.text /\ n.mbs.bytes = n.bytes
<1>1. PATH_MAX \in Nat /\ PATH_MAX > 0
  BY PathMaxAssumption
<1>2. /\ n.bytes \in Nat \cup {-1}
      /\ n.mbs \in [text : Int, bytes : -1..(PATH_MAX + 1)]
      /\ n.bytes \in 0..(PATH_MAX + 1) => n.mbs = [text |-> n.text, bytes |-> n.bytes]
  BY DEF WideNames
<1>3. Fits(n) => n.mbs.text = n.text /\ n.mbs.bytes = n.bytes
  BY <1>1, <1>2 DEF Fits
<1>4. n.mbs.bytes \in -1..(PATH_MAX + 1)
  BY <1>2
<1>5. Usable(n) <=> n.mbs.bytes \in 0..PATH_MAX
  BY <1>1, <1>2, <1>3, <1>4 DEF Usable, Chopped, Fits
<1>6. dirent_wcstombs_s(n) <=> n.mbs.bytes \in 0..PATH_MAX
  BY <1>1, <1>4 DEF dirent_wcstombs_s, Converted, wcstombs
<1> QED
  BY <1>2, <1>3, <1>4, <1>5, <1>6 DEF wcstombs

(* The type of an entry is one of the four. *)
LEMMA TypeIsOne ==
  ASSUME NEW f
  PROVE  TypeOf(f) \in {"DT_CHR", "DT_DIR", "DT_REG"}
BY DEF TypeOf

(* An entry shows the file under the best name it has. *)
LEMMA EntryShows ==
  ASSUME NEW f \in Files, NEW w \in OpenStreams
  PROVE  /\ EntryOf(w, f) \in DirEntries /\ EntryOf(w, f) # NULL
         /\ Shows(w.wide, f, EntryOf(w, f))
         /\ dirent(f) \in DirEntries
<1>1. /\ f.cFileName \in WideNames
      /\ f.cAlternateFileName # NULL => f.cAlternateFileName \in WideNames
      /\ f.cFileName # NULL
  BY DirectoriesAssumption DEF Files
<1>2. TypeOf(f) \in {"DT_CHR", "DT_DIR", "DT_REG", "DT_UNKNOWN"} /\ TypeOf(f) # "DT_UNKNOWN"
  BY TypeIsOne
<1>3. w.wide \in BOOLEAN
  BY DEF OpenStreams
<1>4. ASSUME NEW n \in WideNames
      PROVE  /\ Named(n, f) \in DirEntries
             /\ Named(n, f).d_name = n.mbs.text /\ Named(n, f).d_namlen = n.mbs.bytes
             /\ Fits(n) => n.mbs.text = n.text /\ n.mbs.bytes = n.bytes
  <2>1. /\ wcstombs(n) = n.mbs /\ n.mbs.text \in Int /\ n.mbs.bytes \in Int
        /\ Fits(n) => n.mbs.text = n.text /\ n.mbs.bytes = n.bytes
    BY ConvertsWhatFits
  <2> QED
    BY <1>2, <2>1 DEF Named, DirEntries
<1>5. Erroneous \in DirEntries /\ Erroneous.d_type = "DT_UNKNOWN"
  BY DEF Erroneous, DirEntries
<1>6. dirent(f) \in DirEntries /\ Shows(FALSE, f, dirent(f))
  <2> DEFINE usable == {n \in {f.cFileName, f.cAlternateFileName} \ {NULL} :
                          Fits(n) \/ Chopped(n)}
  <2>0. usable = {n \in {f.cFileName, f.cAlternateFileName} \ {NULL} : Usable(n)}
    BY DEF Usable
  <2> HIDE DEF usable
  <2>1. CASE Usable(f.cFileName)
    <3>1. dirent(f) = Named(f.cFileName, f)
      BY <1>1, <2>1, ConvertsWhatFits DEF dirent
    <3>2. usable # {} /\ f.cFileName \in usable
      BY <1>1, <2>0, <2>1
    <3> QED
      BY <1>1, <1>4, <3>1, <3>2 DEF Shows, usable
  <2>2. CASE /\ ~Usable(f.cFileName)
             /\ f.cAlternateFileName # NULL /\ Usable(f.cAlternateFileName)
    <3>1. dirent(f) = Named(f.cAlternateFileName, f)
      BY <1>1, <2>2, ConvertsWhatFits DEF dirent
    <3>2. usable # {} /\ f.cFileName \notin usable
      BY <1>1, <2>0, <2>2
    <3> QED
      BY <1>1, <1>4, <2>2, <3>1, <3>2 DEF Shows, usable
  <2>3. CASE /\ ~Usable(f.cFileName)
             /\ ~(f.cAlternateFileName # NULL /\ Usable(f.cAlternateFileName))
    <3>1. dirent(f) = Erroneous
      BY <1>1, <2>3, ConvertsWhatFits DEF dirent
    <3>2. usable = {}
      BY <1>1, <2>0, <2>3
    <3> QED
      BY <1>1, <1>5, <2>3, <3>1, <3>2 DEF Shows, usable
  <2> QED
    BY <2>1, <2>2, <2>3
<1>7. _wdirent(f) \in DirEntries /\ Shows(TRUE, f, _wdirent(f))
  <2> DEFINE c == f.cFileName.chars
  <2>1. c \in 0..PATH_MAX /\ f.cFileName.text \in Int /\ PATH_MAX \in Nat
    BY <1>1, PathMaxAssumption DEF WideNames
  <2>2. c \in Int /\ (IF c < PATH_MAX THEN c ELSE PATH_MAX) = c
    BY <2>1
  <2> HIDE DEF c
  <2>3. _wdirent(f) = [d_name |-> f.cFileName.text, d_namlen |-> c,
                       d_type |-> TypeOf(f), d_off |-> 0]
    BY <2>2 DEF _wdirent, c
  <2>4. _wdirent(f) \in DirEntries
    BY <1>2, <2>1, <2>2, <2>3 DEF DirEntries
  <2> QED
    BY <2>3, <2>4 DEF Shows, c
<1>8. EntryOf(w, f) \in DirEntries
  BY <1>6, <1>7 DEF EntryOf
<1>9. Shows(w.wide, f, EntryOf(w, f))
  <2>1. CASE w.wide = TRUE
    BY <1>7, <2>1 DEF EntryOf
  <2>2. CASE w.wide = FALSE
    BY <1>6, <2>2 DEF EntryOf
  <2> QED
    BY <1>3, <2>1, <2>2
<1> QED
  BY <1>6, <1>8, <1>9, DirectoriesAssumption

(* What dirent_next returns, and what it leaves of the stream: the next    *)
(* file, or NULL and a search that is closed, for good.                    *)
LEMMA NextFacts ==
  ASSUME Typed, NEW s \in Streams, SearchSound(stream[s]), NEW ok \in BOOLEAN
  PROVE  LET w == stream[s]
             v == AfterNext(s, ok)
             f == dirent_next(s, ok)
         IN /\ v \in OpenStreams /\ SearchSound(v) /\ ~v.cached
            /\ v.wide = w.wide /\ v.dirp = w.dirp /\ v.wdirp = w.wdirp /\ v.patt = w.patt
            /\ f # NULL => /\ w.handle /\ v.handle
                           /\ v.pos = Consumption(w) + 1 /\ v.pos \in DOMAIN directory
                           /\ f = directory[v.pos] /\ f \in Files
            /\ f = NULL => /\ ~v.handle /\ ~w.cached
                           /\ w.handle => v.pos = w.pos
                                          /\ (v.cut \/ v.pos = Len(directory))
                           /\ ~w.handle => v = w
<1> DEFINE w == stream[s]
           v == AfterNext(s, ok)
<1>1. w \in OpenStreams /\ directory \in Seq(Files)
  BY DEF Typed
<1>2. /\ Len(directory) \in Nat /\ DOMAIN directory = 1..Len(directory)
      /\ \A i \in 1..Len(directory) : directory[i] \in Files /\ directory[i] # NULL
  BY <1>1, DirectoriesAssumption
<1>3. /\ w.pos \in 0..Len(directory)
      /\ w.cached \in BOOLEAN /\ w.handle \in BOOLEAN /\ w.cut \in BOOLEAN
      /\ w.cached => w.handle
      /\ w.handle => w.wdirp /\ w.pos >= 1
  BY <1>1 DEF OpenStreams, SearchSound
<1>4. CASE w.cached
  <2>1. v = [w EXCEPT !.cached = FALSE]
    BY <1>4 DEF AfterNext, Consumed
  <2>2. /\ v \in OpenStreams /\ ~v.cached /\ v.handle = w.handle /\ v.pos = w.pos
        /\ v.wide = w.wide /\ v.dirp = w.dirp /\ v.wdirp = w.wdirp /\ v.patt = w.patt
    BY <1>1, <2>1 DEF OpenStreams
  <2>3. dirent_next(s, ok) = directory[v.pos]
    BY <1>4 DEF dirent_next
  <2>4. Consumption(w) = w.pos - 1
    BY <1>4 DEF Consumption, One
  <2> QED
    BY <1>2, <1>3, <1>4, <2>2, <2>3, <2>4 DEF SearchSound
<1>5. CASE ~w.cached /\ w.handle /\ FindsNext(s, ok)
  <2>1. v = [w EXCEPT !.pos = w.pos + 1]
    BY <1>5 DEF AfterNext
  <2>2. w.pos + 1 \in 0..Len(directory) /\ w.pos + 1 \in 1..Len(directory)
    BY <1>2, <1>3, <1>5 DEF FindsNext
  <2>3. /\ v \in OpenStreams /\ ~v.cached /\ v.handle = w.handle /\ v.pos = w.pos + 1
        /\ v.wide = w.wide /\ v.dirp = w.dirp /\ v.wdirp = w.wdirp /\ v.patt = w.patt
    BY <1>1, <1>5, <2>1, <2>2 DEF OpenStreams
  <2>4. dirent_next(s, ok) = directory[v.pos]
    BY <1>5 DEF dirent_next
  <2>5. Consumption(w) = w.pos
    BY <1>3, <1>5 DEF Consumption, One
  <2> QED
    BY <1>2, <1>3, <1>5, <2>2, <2>3, <2>4, <2>5 DEF SearchSound
<1>6. CASE ~w.cached /\ w.handle /\ ~FindsNext(s, ok)
  <2>1. v = [w EXCEPT !.handle = FALSE, !.cut = w.cut \/ w.pos < Len(directory)]
    BY <1>6 DEF AfterNext
  <2>2. /\ v \in OpenStreams /\ ~v.cached /\ ~v.handle /\ v.pos = w.pos
        /\ w.pos < Len(directory) => v.cut
        /\ v.wide = w.wide /\ v.dirp = w.dirp /\ v.wdirp = w.wdirp /\ v.patt = w.patt
    BY <1>1, <1>6, <2>1 DEF OpenStreams
  <2>3. dirent_next(s, ok) = NULL
    BY <1>6 DEF dirent_next
  <2>4. v.cut \/ v.pos = Len(directory)
    BY <1>2, <1>3, <2>2
  <2> QED
    BY <1>6, <2>2, <2>3, <2>4 DEF SearchSound
<1>7. CASE ~w.cached /\ ~w.handle
  <2>1. v = w
    BY <1>7 DEF AfterNext
  <2>2. dirent_next(s, ok) = NULL
    BY <1>7 DEF dirent_next
  <2> QED
    BY <1>1, <1>7, <2>1, <2>2
<1> QED
  BY <1>3, <1>4, <1>5, <1>6, <1>7

-----------------------------------------------------------------------------
(* Counting *)

(* A set of two that a condition picks from. *)
LEMMA OneOfEach ==
  ASSUME NEW f \in [Streams -> BOOLEAN]
  PROVE  Cardinality({s \in Streams : f[s]}) = One(f["user"]) + One(f["scan"])
<1> DEFINE S == {s \in Streams : f[s]}
<1>1. f["user"] \in BOOLEAN /\ f["scan"] \in BOOLEAN
  BY DEF Streams
<1>2. CASE f["user"] /\ f["scan"]
  <2>1. S = {"user"} \cup {"scan"} /\ "scan" \notin {"user"}
    BY <1>2 DEF Streams
  <2>2. IsFiniteSet({"user"}) /\ Cardinality({"user"}) = 1
    BY FS_Singleton
  <2>3. Cardinality({"user"} \cup {"scan"}) = 1 + 1
    BY <2>1, <2>2, FS_AddElement
  <2>4. Cardinality(S) = 2
    BY <2>1, <2>3
  <2>5. One(f["user"]) = 1 /\ One(f["scan"]) = 1
    BY <1>2 DEF One
  <2> QED
    BY <2>4, <2>5
<1>3. CASE f["user"] /\ ~f["scan"]
  <2>1. S = {"user"}
    BY <1>3 DEF Streams
  <2>2. Cardinality(S) = 1
    BY <2>1, FS_Singleton
  <2>3. One(f["user"]) = 1 /\ One(f["scan"]) = 0
    BY <1>3 DEF One
  <2> QED
    BY <2>2, <2>3
<1>4. CASE ~f["user"] /\ f["scan"]
  <2>1. S = {"scan"}
    BY <1>4 DEF Streams
  <2>2. Cardinality(S) = 1
    BY <2>1, FS_Singleton
  <2>3. One(f["user"]) = 0 /\ One(f["scan"]) = 1
    BY <1>4 DEF One
  <2> QED
    BY <2>2, <2>3
<1>5. CASE ~f["user"] /\ ~f["scan"]
  <2>1. S = {}
    BY <1>5 DEF Streams
  <2> QED
    BY <1>5, <2>1, FS_EmptySet DEF One
<1> QED
  BY <1>1, <1>2, <1>3, <1>4, <1>5

(* Balance is what MemoryAccounted says. *)
LEMMA BalanceAccounts ==
  ASSUME Typed, Balance
  PROVE  MemoryAccounted
<1>1. /\ stream \in [Streams -> OpenStreams] /\ scan \in Scans
      /\ handed # NULL => handed \in Lists
  BY DEF Typed
<1>2. heap["DIR"] = Accounted("DIR")
  <2> DEFINE f == [s \in Streams |-> stream[s].dirp]
  <2>1. f \in [Streams -> BOOLEAN]
    BY <1>1 DEF OpenStreams
  <2>2. f["user"] = User.dirp /\ f["scan"] = Scan.dirp
    BY DEF Streams, User, Scan
  <2>3. {s \in Streams : f[s]} = {s \in Streams : stream[s].dirp}
    OBVIOUS
  <2> HIDE DEF f
  <2>4. Cardinality({s \in Streams : stream[s].dirp}) = One(User.dirp) + One(Scan.dirp)
    BY <2>1, <2>2, <2>3, OneOfEach
  <2> QED
    BY <2>4 DEF Balance, Accounted
<1>3. heap["_WDIR"] = Accounted("_WDIR")
  <2> DEFINE f == [s \in Streams |-> stream[s].wdirp]
  <2>1. f \in [Streams -> BOOLEAN]
    BY <1>1 DEF OpenStreams
  <2>2. f["user"] = User.wdirp /\ f["scan"] = Scan.wdirp
    BY DEF Streams, User, Scan
  <2>3. {s \in Streams : f[s]} = {s \in Streams : stream[s].wdirp}
    OBVIOUS
  <2> HIDE DEF f
  <2>4. Cardinality({s \in Streams : stream[s].wdirp}) = One(User.wdirp) + One(Scan.wdirp)
    BY <2>1, <2>2, <2>3, OneOfEach
  <2> QED
    BY <2>4 DEF Balance, Accounted
<1>4. heap["patt"] = Accounted("patt")
  <2> DEFINE f == [s \in Streams |-> stream[s].patt]
  <2>1. f \in [Streams -> BOOLEAN]
    BY <1>1 DEF OpenStreams
  <2>2. f["user"] = User.patt /\ f["scan"] = Scan.patt
    BY DEF Streams, User, Scan
  <2>3. {s \in Streams : f[s]} = {s \in Streams : stream[s].patt}
    OBVIOUS
  <2> HIDE DEF f
  <2>4. Cardinality({s \in Streams : stream[s].patt}) = One(User.patt) + One(Scan.patt)
    BY <2>1, <2>2, <2>3, OneOfEach
  <2> QED
    BY <2>4 DEF Balance, Accounted
<1>5. heap["table"] = Accounted("table")
  <2>1. NoScan.table = FALSE
    BY DEF NoScan
  <2> QED
    BY <2>1 DEF Balance, Accounted, One
<1>6. heap["dirent"] = Accounted("dirent")
  <2>1. NoScan.files = <<>> /\ Len(<<>>) = 0
    BY DEF NoScan
  <2> QED
    BY <2>1 DEF Balance, Accounted, One
<1>7. \A s \in Streams : searches[s] = IF stream[s].handle THEN 1 ELSE 0
  BY DEF Balance, One
<1> QED
  BY <1>2, <1>3, <1>4, <1>5, <1>6, <1>7 DEF MemoryAccounted, Kinds

(* A set of numbers up to n, with or without the next one. *)
LEMMA CountNext ==
  ASSUME NEW n \in Nat, NEW A \in SUBSET (1..n), NEW c \in BOOLEAN
  PROVE  /\ IsFiniteSet(A) /\ Cardinality(A) \in Nat
         /\ Cardinality(IF c THEN A \cup {n + 1} ELSE A) = Cardinality(A) + One(c)
<1>1. IsFiniteSet(1..n)
  BY FS_Interval
<1>2. IsFiniteSet(A) /\ Cardinality(A) \in Nat
  BY <1>1, FS_Subset, FS_CardinalityType
<1>3. n + 1 \notin A
  OBVIOUS
<1>4. Cardinality(A \cup {n + 1}) = Cardinality(A) + 1
  BY <1>2, <1>3, FS_AddElement
<1> QED
  BY <1>2, <1>4 DEF One

(* The places of e in a list. *)
PlacesOf(q, e) == {i \in DOMAIN q : q[i] = e}

(* The files among the first k that pass and show as e. *)
FilesOf(k, filter, e) == {i \in 1..k : Passing(i, filter) /\ dirent(directory[i]) = e}

(* An entry that is stored is counted in the list and among the files. *)
LEMMA TallyStored ==
  ASSUME NEW S, NEW q \in Seq(S), NEW k \in Nat, NEW filter, NEW x \in S,
         Tally(q, filter, k), Passing(k + 1, filter), x = dirent(directory[k + 1])
  PROVE  Tally(Append(q, x), filter, k + 1)
<1> SUFFICES ASSUME NEW e \in Entries
             PROVE  Cardinality(PlacesOf(Append(q, x), e)) = Cardinality(FilesOf(k + 1, filter, e))
  BY DEF Tally, PlacesOf, FilesOf
<1>1. Cardinality(PlacesOf(q, e)) = Cardinality(FilesOf(k, filter, e))
  BY DEF Tally, PlacesOf, FilesOf
<1>2. Len(q) \in Nat /\ DOMAIN q = 1..Len(q)
  OBVIOUS
<1>3. /\ Append(q, x) \in Seq(S) /\ Len(Append(q, x)) = Len(q) + 1
      /\ \A i \in 1..Len(q) : Append(q, x)[i] = q[i]
      /\ Append(q, x)[Len(q) + 1] = x
  BY AppendProperties
<1> DEFINE r == Append(q, x)
           n == Len(q)
<1>4. DOMAIN r = 1..(n + 1)
  BY <1>3
<1>5. PlacesOf(q, e) \in SUBSET (1..n)
  BY <1>2 DEF PlacesOf
<1>6. PlacesOf(r, e) = IF x = e THEN PlacesOf(q, e) \cup {n + 1} ELSE PlacesOf(q, e)
  <2> HIDE DEF r, n
  <2>1. n \in Nat /\ DOMAIN q = 1..n /\ (\A i \in 1..n : r[i] = q[i]) /\ r[n + 1] = x
    BY <1>2, <1>3 DEF r, n
  <2>2. \A i : i \in 1..(n + 1) <=> i \in 1..n \/ i = n + 1
    BY <2>1
  <2> QED
    BY <1>4, <2>1, <2>2 DEF PlacesOf
<1>7. FilesOf(k, filter, e) \in SUBSET (1..k)
  BY DEF FilesOf
<1>8. FilesOf(k + 1, filter, e) = IF x = e THEN FilesOf(k, filter, e) \cup {k + 1}
                                  ELSE FilesOf(k, filter, e)
  <2>1. \A i : i \in 1..(k + 1) <=> i \in 1..k \/ i = k + 1
    OBVIOUS
  <2> QED
    BY <2>1 DEF FilesOf
<1>9. n \in Nat /\ (x = e) \in BOOLEAN
  BY <1>2
<1> HIDE DEF r, n
<1>10. Cardinality(PlacesOf(r, e)) = Cardinality(PlacesOf(q, e)) + One(x = e)
  BY <1>5, <1>6, <1>9, CountNext
<1>11. Cardinality(FilesOf(k + 1, filter, e)) = Cardinality(FilesOf(k, filter, e)) + One(x = e)
  BY <1>7, <1>8, <1>9, CountNext
<1> QED
  BY <1>1, <1>10, <1>11 DEF r

(* A file that does not pass is counted nowhere. *)
LEMMA TallyPassedBy ==
  ASSUME NEW q, NEW k \in Nat, NEW filter, Tally(q, filter, k), ~Passing(k + 1, filter)
  PROVE  Tally(q, filter, k + 1)
<1>1. \A i : i \in 1..(k + 1) <=> i \in 1..k \/ i = k + 1
  OBVIOUS
<1>2. \A e : FilesOf(k + 1, filter, e) = FilesOf(k, filter, e)
  BY <1>1 DEF FilesOf
<1>3. \A e \in Entries : Cardinality(PlacesOf(q, e)) = Cardinality(FilesOf(k, filter, e))
  BY DEF Tally, PlacesOf, FilesOf
<1>4. \A e \in Entries : Cardinality(PlacesOf(q, e)) = Cardinality(FilesOf(k + 1, filter, e))
  BY <1>2, <1>3
<1> QED
  BY <1>4 DEF Tally, PlacesOf, FilesOf

(* qsort keeps the entries, with the number of each. *)
LEMMA SortedFacts ==
  ASSUME NEW S, NEW q \in Seq(S), NEW r \in Sorted(q),
         \A e \in S : e.d_name \in Int
  PROVE  /\ r \in Seq(S) /\ Len(r) = Len(q) /\ Alphabetical(r)
         /\ \A e : Cardinality(PlacesOf(r, e)) = Cardinality(PlacesOf(q, e))
<1> DEFINE D == DOMAIN q
<1>1. PICK p \in Bijection(D, D) : r = [i \in D |-> q[p[i]]]
  BY DEF Sorted
<1>2. \A i, j \in D : i < j => ~alphasort(r[j], r[i])
  BY DEF Sorted
<1>3. Len(q) \in Nat /\ D = 1..Len(q) /\ \A i \in D : q[i] \in S
  OBVIOUS
<1>4. /\ p \in [D -> D]
      /\ \A a, b \in D : p[a] = p[b] => a = b
      /\ \A b \in D : \E a \in D : p[a] = b
  BY <1>1 DEF Bijection, Injection, Surjection, IsInjective
<1>5. \A i \in D : p[i] \in D /\ r[i] = q[p[i]] /\ r[i] \in S
  BY <1>1, <1>3, <1>4
<1>6. r \in [1..Len(q) -> S]
  BY <1>1, <1>3, <1>5
<1>7. r \in Seq(S) /\ Len(r) = Len(q) /\ DOMAIN r = D
  BY <1>3, <1>6
<1>8. Alphabetical(r)
  <2> SUFFICES ASSUME NEW i \in D, NEW j \in D, i < j PROVE r[i].d_name <= r[j].d_name
    BY <1>7 DEF Alphabetical
  <2>1. r[i].d_name \in Int /\ r[j].d_name \in Int
    BY <1>5
  <2>2. ~(r[j].d_name < r[i].d_name)
    BY <1>2 DEF alphasort
  <2> QED
    BY <2>1, <2>2
<1>9. ASSUME NEW e PROVE Cardinality(PlacesOf(r, e)) = Cardinality(PlacesOf(q, e))
  <2> DEFINE A == PlacesOf(r, e)
             B == PlacesOf(q, e)
             g == [i \in A |-> p[i]]
  <2>1. A \subseteq D /\ \A i : i \in A <=> i \in D /\ q[p[i]] = e
    BY <1>5, <1>7 DEF PlacesOf
  <2>2. \A i : i \in B <=> i \in D /\ q[i] = e
    BY DEF PlacesOf
  <2>3. g \in [A -> B]
    BY <1>5, <2>1, <2>2
  <2>4. \A a, b \in A : g[a] = g[b] => a = b
    BY <1>4, <2>1
  <2>5. \A b \in B : \E a \in A : g[a] = b
    BY <1>4, <2>1, <2>2
  <2>6. g \in Bijection(A, B)
    BY <2>3, <2>4, <2>5 DEF Bijection, Injection, Surjection, IsInjective
  <2>7. IsFiniteSet(A)
    <3>1. IsFiniteSet(D)
      BY <1>3, FS_Interval
    <3> QED
      BY <2>1, <3>1, FS_Subset
  <2> QED
    BY <2>6, <2>7, FS_Bijection DEF ExistsBijection
<1> QED
  BY <1>7, <1>8, <1>9

-----------------------------------------------------------------------------
(* Opening and closing a stream *)

Errors == {"none", "EACCES", "ENOTDIR", "ENOENT", "EBADF"}

(* The parts that the stream at hand gains or loses are those the heap     *)
(* does.                                                                   *)
LEMMA BalanceMoves ==
  ASSUME Typed, Balance, NEW s \in Streams, NEW w \in OpenStreams,
         stream' = [stream EXCEPT ![s] = w],
         UNCHANGED <<scan, handed, lost>>,
         heap' \in [Kinds -> Int],
         heap'["DIR"] = heap["DIR"] + One(w.dirp) - One(stream[s].dirp),
         heap'["_WDIR"] = heap["_WDIR"] + One(w.wdirp) - One(stream[s].wdirp),
         heap'["patt"] = heap["patt"] + One(w.patt) - One(stream[s].patt),
         heap'["table"] = heap["table"], heap'["dirent"] = heap["dirent"],
         searches' = [searches EXCEPT ![s] = One(w.handle)]
  PROVE  Balance' /\ heap' \in [Kinds -> Nat] /\ searches' \in [Streams -> Nat]
<1>1. /\ stream \in [Streams -> OpenStreams]
      /\ heap \in [Kinds -> Nat] /\ searches \in [Streams -> Nat]
  BY DEF Typed
<1>2. \A b : One(b) \in Nat
  BY DEF One
<1>3. stream'[s] = w /\ \A t \in Streams \ {s} : stream'[t] = stream[t]
  BY <1>1
<1>4. User = stream["user"] /\ Scan = stream["scan"] /\ User' = stream'["user"]
      /\ Scan' = stream'["scan"] /\ "user" \in Streams /\ "scan" \in Streams
  BY DEF User, Scan, Streams
<1>5. /\ heap["DIR"] = One(User.dirp) + One(Scan.dirp)
      /\ heap["_WDIR"] = One(User.wdirp) + One(Scan.wdirp)
      /\ heap["patt"] = One(User.patt) + One(Scan.patt)
  BY DEF Balance
<1>6. /\ heap'["DIR"] = One(User'.dirp) + One(Scan'.dirp)
      /\ heap'["_WDIR"] = One(User'.wdirp) + One(Scan'.wdirp)
      /\ heap'["patt"] = One(User'.patt) + One(Scan'.patt)
  <2>1. CASE s = "user"
    <3>1. User' = w /\ Scan' = Scan /\ stream[s] = User
      BY <1>3, <1>4, <2>1
    <3> QED
      BY <1>2, <1>5, <3>1
  <2>2. CASE s = "scan"
    <3>1. Scan' = w /\ User' = User /\ stream[s] = Scan
      BY <1>3, <1>4, <2>2
    <3> QED
      BY <1>2, <1>5, <3>1
  <2> QED
    BY <1>1, <2>1, <2>2 DEF Streams
<1>7. \A t \in Streams : searches'[t] = One(stream'[t].handle)
  BY <1>1, <1>3 DEF Balance
<1>8. Balance'
  BY <1>6, <1>7 DEF Balance
<1>9. heap' \in [Kinds -> Nat]
  <2>1. /\ heap'["DIR"] \in Nat /\ heap'["_WDIR"] \in Nat /\ heap'["patt"] \in Nat
    BY <1>2, <1>6
  <2>2. heap'["table"] \in Nat /\ heap'["dirent"] \in Nat
    BY <1>1 DEF Kinds
  <2> QED
    BY <2>1, <2>2 DEF Kinds
<1>10. searches' \in [Streams -> Nat]
  BY <1>1, <1>2
<1> QED
  BY <1>8, <1>9, <1>10

(* A step of opening or closing leaves the stream at hand with the parts   *)
(* of the place that it comes to.                                          *)
LEMMA PartsSound ==
  ASSUME IInv, NEW w \in OpenStreams, NEW p \in {"idle", "no_dir", "hand_over"} \cup Opening \cup Closing,
         pc \in Opening \cup Closing,
         stream' = [stream EXCEPT ![at] = w], pc' = p,
         UNCHANGED <<directory, at, scan, calls, seen, handed, lost>>, errno' \in Errors,
         SearchSound(w), at = "scan" => ~w.wide,
         p \in Opening \cup Closing => PartsAt(w, p),
         p = "idle" => at = "user" /\ ((Open(w) /\ w.handle) \/ Shut(w)),
         p \in {"no_dir", "hand_over"} => at = "scan" /\ Shut(w)
                                          /\ (scan.dir <=> p = "hand_over"),
         p \in Opening => pc \in Opening,
         at = "user" => \/ ~w.wdirp
                        \/ seen = <<>> /\ (w.handle => w.pos = 1 /\ w.cached)
                        \/ w = User,
         Balance', heap' \in [Kinds -> Nat], searches' \in [Streams -> Nat]
  PROVE  IInv'
<1>1. Typed /\ StreamsInv /\ PassInv /\ ScanInv
  BY DEF IInv
<1>2. /\ stream \in [Streams -> OpenStreams] /\ at \in Streams
      /\ p \in Places /\ OpenStreams' = OpenStreams /\ Entries' = Entries
      /\ Len(directory) \in Nat
  BY <1>1 DEF Typed, Places, OpenStreams, Entries
<1>3. stream'[at] = w /\ \A s \in Streams \ {at} : stream'[s] = stream[s]
  BY <1>2
<1>4. /\ User = stream["user"] /\ Scan = stream["scan"]
      /\ User' = stream'["user"] /\ Scan' = stream'["scan"]
      /\ "user" \in Streams /\ "scan" \in Streams
  BY DEF User, Scan, Streams
<1>5. /\ at = "user" => User' = w /\ Scan' = Scan /\ stream[at] = User
      /\ at = "scan" => Scan' = w /\ User' = User /\ stream[at] = Scan
      /\ at = "user" \/ at = "scan"
  BY <1>2, <1>3, <1>4 DEF Streams
<1>6. Typed'
  <2>1. stream' \in [Streams -> OpenStreams]
    BY <1>2
  <2> QED
    BY <1>1, <1>2, <2>1 DEF Typed, Errors, Scans
<1>7. StreamsInv'
  <2>1. \A s \in Streams : SearchSound(stream'[s])
    BY <1>1, <1>3 DEF StreamsInv
  <2>2. ~Scan'.wide
    BY <1>1, <1>5 DEF StreamsInv
  <2>3. p = "idle" \/ at = "scan" => Open(User') \/ Shut(User')
    BY <1>1, <1>5 DEF StreamsInv
  <2>4. p = "idle" \/ at = "user" => Shut(Scan')
    BY <1>1, <1>5 DEF StreamsInv, Opening, Closing
  <2>5. p # "idle" => PartsAt(w, p)
    <3>1. p \in {"no_dir", "hand_over"} => PartsAt(w, p)
      BY DEF PartsAt, Reading
    <3> QED
      BY <3>1
  <2>6. p # "release"
    BY DEF Opening, Closing
  <2>7. at = "user" => p \in {"idle"} \cup Opening \cup Closing
    OBVIOUS
  <2> QED
    BY <1>3, <2>1, <2>2, <2>3, <2>4, <2>5, <2>6, <2>7 DEF StreamsInv
<1>8. PassInv'
  <2>1. at = "user" /\ p \in Opening => seen' = <<>>
    BY <1>1 DEF PassInv
  <2>2. CASE User' = User
    <3>1. p = "idle" => User.handle \/ ~User.wdirp
      BY <1>5, <2>2 DEF Shut
    <3>2. pc' = "idle" \/ at' = "scan" => at = "scan" \/ User.handle \/ ~User.wdirp
      BY <1>5, <3>1
    <3>3. \A k : FirstRead(k)' <=> FirstRead(k)
      BY <2>2 DEF FirstRead
    <3>4. Consumption(User)' = Consumption(User)
      BY <2>2 DEF Consumption
    <3> QED
      BY <1>1, <2>1, <2>2, <3>2, <3>3, <3>4 DEF PassInv
  <2>3. CASE User' # User
    <3>1. at = "user" /\ User' = w
      BY <1>5, <2>3
    <3>2. CASE ~w.wdirp
      BY <2>1, <3>1, <3>2 DEF PassInv, SearchSound
    <3>3. CASE seen = <<>> /\ (w.handle => w.pos = 1 /\ w.cached)
      <4>1. seen' = <<>> /\ Len(seen') = 0 /\ DOMAIN seen' = {}
        BY <3>3
      <4>2. w.handle => Consumption(w) = 0
        BY <3>3 DEF Consumption, One
      <4>3. \A k : FirstRead(k)'
        BY <4>1 DEF FirstRead
      <4>4. 0 \in 0..Len(directory')
        BY <1>2
      <4>5. Consumption(User)' = Consumption(w)
        BY <3>1 DEF Consumption
      <4>6. pc' = "idle" \/ at' = "scan" => w.handle \/ ~w.wdirp
        BY <3>1 DEF Shut
      <4>7. Len(directory') \in Nat /\ 0 <= Len(seen')
        BY <1>2, <4>1
      <4> QED
        BY <2>1, <3>1, <4>1, <4>2, <4>3, <4>4, <4>5, <4>6, <4>7 DEF PassInv
    <3> QED
      BY <2>3, <3>1, <3>2, <3>3
  <2> QED
    BY <2>2, <2>3
<1>9. ScanInv'
  <2>1. p \notin Reading /\ p \notin {"temporary", "read", "release"}
    BY DEF Opening, Closing, Reading
  <2>2. pc # "idle" /\ pc \notin Reading \cup {"release", "hand_over", "no_dir"}
    BY DEF Opening, Closing, Reading
  <2>3. at = "user" => scan = NoScan /\ ~scan.dir
    BY <1>1 DEF ScanInv, NoScan
  <2>4. scan.dir => pc \in Closing /\ at = "scan"
    BY <1>1, <2>2 DEF ScanInv
  <2>5. scan.dir => p \in Closing \cup {"hand_over"}
    <3>1. scan.dir => p \notin Opening
      BY <2>4 DEF Opening, Closing
    <3>2. scan.dir => p \notin {"idle", "no_dir"}
      BY <2>4
    <3> QED
      BY <3>1, <3>2
  <2>6. p = "idle" => at = "user"
    OBVIOUS
  <2>7. (p \in Closing /\ scan.dir) \/ p = "hand_over" => pc \in Closing /\ scan.dir
    BY <2>4
  <2>8. p \in {"no_dir", "hand_over"} => (scan.dir <=> p = "hand_over")
    OBVIOUS
  <2>9. ~scan.dir /\ p \in Opening \cup Closing \cup {"no_dir"} =>
           scan.files = <<>> /\ scan.result = 0 /\ ~scan.table /\ ~scan.tmp
    BY <1>1 DEF ScanInv
  <2>10. ((p \in Closing /\ scan.dir) \/ p = "hand_over") => ~scan.tmp /\ ListExact(scan)
    BY <1>1, <2>7 DEF ScanInv
  <2>11. handed # NULL => ListExact(handed)
    BY <1>1 DEF ScanInv
  <2>12. ListExact(scan)' <=> ListExact(scan)
    BY <1>2 DEF ListExact, Tally, Alphabetical, Passing
  <2>13. ListExact(handed)' <=> ListExact(handed)
    BY <1>2 DEF ListExact, Tally, Alphabetical, Passing
  <2>14. /\ Len(scan.files) <= scan.allocated /\ Len(scan.files) <= Len(directory)
         /\ -1 <= scan.result /\ scan.result <= Len(directory)
    BY <1>1 DEF ScanInv
  <2>15. p # "idle" /\ at = "scan" => handed = NULL
    BY <1>1, <2>2 DEF ScanInv
  <2> QED
    BY <2>1, <2>3, <2>4, <2>5, <2>6, <2>9, <2>10, <2>11, <2>12, <2>13, <2>14, <2>15 DEF ScanInv
<1> QED
  BY <1>6, <1>7, <1>8, <1>9 DEF IInv

(* Where a call is in the middle of opening or closing.                    *)
LEMMA WhereItIs ==
  ASSUME IInv
  PROVE  /\ Typed /\ Balance /\ stream \in [Streams -> OpenStreams] /\ at \in Streams
         /\ heap \in [Kinds -> Nat] /\ searches \in [Streams -> Nat] /\ errno \in Errors
         /\ scan \in Scans /\ at \in {"user", "scan"}
         /\ stream[at] \in OpenStreams /\ SearchSound(stream[at])
         /\ searches[at] = One(stream[at].handle)
         /\ pc # "idle" => PartsAt(stream[at], pc)
         /\ at = "scan" => ~stream[at].wide
         /\ at = "user" => stream[at] = User /\ ~scan.dir
         /\ pc \in Opening => ~scan.dir
         /\ at = "user" /\ pc \in Opening => seen = <<>>
<1>1. Typed /\ StreamsInv /\ PassInv /\ ScanInv /\ Balance
  BY DEF IInv
<1>2. /\ stream \in [Streams -> OpenStreams] /\ at \in Streams
      /\ heap \in [Kinds -> Nat] /\ searches \in [Streams -> Nat] /\ errno \in Errors
      /\ scan \in Scans
  BY <1>1 DEF Typed, Errors
<1>3. /\ at \in {"user", "scan"} /\ stream[at] \in OpenStreams /\ SearchSound(stream[at])
      /\ searches[at] = One(stream[at].handle)
  BY <1>1, <1>2 DEF Streams, StreamsInv, Balance
<1>4. /\ pc # "idle" => PartsAt(stream[at], pc)
      /\ at = "scan" => ~stream[at].wide
      /\ at = "user" => stream[at] = User
  BY <1>1 DEF StreamsInv, User, Scan
<1>5. at = "user" => ~scan.dir
  BY <1>1 DEF ScanInv, NoScan
<1>6. pc \in Opening => ~scan.dir
  BY <1>1 DEF ScanInv, Opening, Closing, Reading
<1>7. at = "user" /\ pc \in Opening => seen = <<>>
  BY <1>1 DEF PassInv
<1> QED
  BY <1>1, <1>2, <1>3, <1>4, <1>5, <1>6, <1>7

(* opendir allocates its DIR, or has no memory. *)
LEMMA AllocDIRSound ==
  ASSUME IInv, NEW ok \in BOOLEAN, AllocDIR(ok)
  PROVE  IInv'
<1> DEFINE o == stream[at]
           w == [o EXCEPT !.dirp = ok]
           p == IF ok THEN "convert" ELSE Resume
<1>1. /\ Typed /\ Balance /\ stream \in [Streams -> OpenStreams] /\ at \in Streams
      /\ heap \in [Kinds -> Nat] /\ searches \in [Streams -> Nat] /\ errno \in Errors
      /\ at \in {"user", "scan"}
      /\ o \in OpenStreams /\ SearchSound(o) /\ searches[at] = One(o.handle)
      /\ pc # "idle" => PartsAt(o, pc)
      /\ at = "scan" => ~o.wide
      /\ pc \in Opening => ~scan.dir
      /\ at = "user" /\ pc \in Opening => seen = <<>>
  BY WhereItIs
<1>2. /\ pc = "alloc_dir" /\ pc' = p
      /\ heap' = [heap EXCEPT !["DIR"] = IF ok THEN @ + 1 ELSE @]
      /\ stream' = [stream EXCEPT ![at] = w]
      /\ UNCHANGED <<directory, at, searches, errno, scan, calls, seen, handed, lost>>
  BY DEF AllocDIR, Allocated
<1>3. pc \in Opening /\ ~scan.dir /\ ~o.wide /\ Shut(o)
  BY <1>1, <1>2 DEF PartsAt, Opening
<1>4. /\ w \in OpenStreams /\ w.dirp = ok /\ w.wide = o.wide /\ w.wdirp = o.wdirp
      /\ w.patt = o.patt /\ w.handle = o.handle /\ w.cached = o.cached
  BY <1>1 DEF OpenStreams
<1>5. /\ p \in {"idle", "no_dir", "hand_over"} \cup Opening \cup Closing
      /\ p = "convert" => ok /\ p \in Opening
      /\ p # "convert" => ~ok /\ p = IF at = "user" THEN "idle" ELSE "no_dir"
  BY <1>1, <1>3 DEF Resume, Opening
<1> HIDE DEF p
<1>6. SearchSound(w)
  BY <1>1, <1>3, <1>4 DEF SearchSound, Shut
<1>7. p \in Opening \cup Closing => PartsAt(w, p)
  <2>1. p \in Opening \cup Closing => p = "convert"
    BY <1>5 DEF Opening, Closing
  <2> QED
    BY <1>3, <1>4, <1>5, <2>1 DEF PartsAt, Shut, Reading
<1>8. p # "convert" => Shut(w)
  BY <1>3, <1>4, <1>5 DEF Shut
<1> HIDE DEF w, o
<1>9. Balance' /\ heap' \in [Kinds -> Nat] /\ searches' \in [Streams -> Nat]
  <2>1. heap' \in [Kinds -> Int]
    BY <1>1, <1>2 DEF Kinds
  <2>2. One(o.dirp) = 0 /\ One(w.dirp) = IF ok THEN 1 ELSE 0
    BY <1>3, <1>4 DEF Shut, One
  <2>3. heap'["DIR"] = heap["DIR"] + One(w.dirp) - One(o.dirp)
    BY <1>1, <1>2, <2>2 DEF Kinds
  <2>4. /\ heap'["_WDIR"] = heap["_WDIR"] + One(w.wdirp) - One(o.wdirp)
        /\ heap'["patt"] = heap["patt"] + One(w.patt) - One(o.patt)
    <3>1. \A b : One(b) \in Nat
      BY DEF One
    <3> QED
      BY <1>1, <1>2, <1>4, <3>1 DEF Kinds
  <2>5. heap'["table"] = heap["table"] /\ heap'["dirent"] = heap["dirent"]
    BY <1>1, <1>2 DEF Kinds
  <2>6. searches' = [searches EXCEPT ![at] = One(w.handle)]
    BY <1>1, <1>2, <1>4
  <2> QED
    BY <1>1, <1>2, <1>4, <2>1, <2>3, <2>4, <2>5, <2>6, BalanceMoves DEF o
<1>10. /\ at = "scan" => ~w.wide
       /\ p = "idle" => at = "user"
       /\ p \in {"no_dir", "hand_over"} => at = "scan" /\ (scan.dir <=> p = "hand_over")
       /\ p \in Opening => pc \in Opening
       /\ p \in {"idle", "no_dir", "hand_over"} => Shut(w)
  BY <1>1, <1>3, <1>4, <1>5, <1>8
<1>11. at = "user" => ~w.wdirp
  BY <1>3, <1>4 DEF Shut
<1> QED
  BY <1>1, <1>2, <1>3, <1>4, <1>5, <1>6, <1>7, <1>9, <1>10, <1>11, PartsSound DEF o

(* A step that only goes on to the next place. *)
LEMMA StepOnSound ==
  ASSUME IInv, pc \in Opening, NEW p \in {"alloc_wdir", "first", "wclose", "free_dir"},
         PartsAt(stream[at], p), pc' = p,
         UNCHANGED <<directory, at, stream, heap, searches, errno, scan, calls, seen,
                     handed, lost>>
  PROVE  IInv'
<1> DEFINE w == stream[at]
<1>1. /\ Typed /\ Balance /\ stream \in [Streams -> OpenStreams] /\ at \in Streams
      /\ heap \in [Kinds -> Nat] /\ searches \in [Streams -> Nat] /\ errno \in Errors
      /\ w \in OpenStreams /\ SearchSound(w)
      /\ at = "scan" => ~w.wide
      /\ at = "user" => w = User
  BY WhereItIs
<1>2. stream' = [stream EXCEPT ![at] = w]
  BY <1>1
<1>3. /\ p \in {"idle", "no_dir", "hand_over"} \cup Opening \cup Closing
      /\ p \notin {"idle", "no_dir", "hand_over"}
  BY DEF Opening, Closing
<1>4. Balance'
  BY <1>1 DEF Balance, User, Scan
<1>5. heap' \in [Kinds -> Nat] /\ searches' \in [Streams -> Nat] /\ errno' \in Errors
  BY <1>1
<1> HIDE DEF w
<1>6. PartsAt(w, p)
  BY DEF w
<1> QED
  BY <1>1, <1>2, <1>3, <1>4, <1>5, <1>6, PartsSound

(* The name of the directory is converted, or cannot be. *)
LEMMA ConvertNameSound ==
  ASSUME IInv, NEW ok \in BOOLEAN, ConvertName(ok)
  PROVE  IInv'
<1> DEFINE p == IF ok THEN "alloc_wdir" ELSE "free_dir"
<1>1. /\ pc = "convert" /\ pc' = p /\ pc \in Opening
      /\ UNCHANGED <<directory, at, stream, heap, searches, errno, scan, calls, seen,
                     handed, lost>>
  BY DEF ConvertName, Opening
<1>2. PartsAt(stream[at], "convert")
  BY <1>1, WhereItIs
<1>3. PartsAt(stream[at], p)
  BY <1>2 DEF PartsAt, Reading
<1>4. p \in {"alloc_wdir", "first", "wclose", "free_dir"}
  OBVIOUS
<1> HIDE DEF p
<1> QED
  BY <1>1, <1>3, <1>4, StepOnSound

(* The full path is found, or cannot be. *)
LEMMA FullPathSound ==
  ASSUME IInv, NEW ok \in BOOLEAN, FullPath(ok)
  PROVE  IInv'
<1> DEFINE p == IF ok THEN "first" ELSE "wclose"
<1>1. /\ pc = "full_path" /\ pc' = p /\ pc \in Opening
      /\ UNCHANGED <<directory, at, stream, heap, searches, errno, scan, calls, seen,
                     handed, lost>>
  BY DEF FullPath, Opening
<1>2. PartsAt(stream[at], "full_path")
  BY <1>1, WhereItIs
<1>3. PartsAt(stream[at], p)
  BY <1>2 DEF PartsAt, Reading, Open
<1>4. p \in {"alloc_wdir", "first", "wclose", "free_dir"}
  OBVIOUS
<1> HIDE DEF p
<1> QED
  BY <1>1, <1>3, <1>4, StepOnSound

(* _wopendir allocates its _WDIR, or has no memory. *)
LEMMA AllocWDIRSound ==
  ASSUME IInv, NEW ok \in BOOLEAN, AllocWDIR(ok)
  PROVE  IInv'
<1> DEFINE o == stream[at]
           w == [o EXCEPT !.wdirp = ok, !.patt = FALSE, !.handle = FALSE, !.cached = FALSE]
           p == IF ok THEN "alloc_patt" ELSE IF o.wide THEN "idle" ELSE "free_dir"
<1>1. /\ Typed /\ Balance /\ stream \in [Streams -> OpenStreams] /\ at \in Streams
      /\ heap \in [Kinds -> Nat] /\ searches \in [Streams -> Nat] /\ errno \in Errors
      /\ at \in {"user", "scan"}
      /\ o \in OpenStreams /\ SearchSound(o) /\ searches[at] = One(o.handle)
      /\ pc # "idle" => PartsAt(o, pc)
      /\ at = "scan" => ~o.wide
      /\ pc \in Opening => ~scan.dir
      /\ at = "user" /\ pc \in Opening => seen = <<>>
  BY WhereItIs
<1>2. /\ pc = "alloc_wdir"
      /\ pc' = CASE ok -> "alloc_patt"
                 [] ~ok /\ o.wide -> Resume
                 [] ~ok /\ ~o.wide -> "free_dir"
      /\ heap' = [heap EXCEPT !["_WDIR"] = IF ok THEN @ + 1 ELSE @]
      /\ stream' = [stream EXCEPT ![at] = w]
      /\ UNCHANGED <<directory, at, searches, errno, scan, calls, seen, handed, lost>>
  BY DEF AllocWDIR, Allocated
<1>3. /\ pc \in Opening /\ ~scan.dir /\ (o.dirp <=> ~o.wide)
      /\ ~o.wdirp /\ ~o.patt /\ ~o.handle /\ o.wide \in BOOLEAN /\ o.dirp \in BOOLEAN
      /\ o.wdirp \in BOOLEAN /\ o.patt \in BOOLEAN /\ o.handle \in BOOLEAN
  BY <1>1, <1>2 DEF PartsAt, Opening, OpenStreams
<1>4. /\ w \in OpenStreams /\ w.dirp = o.dirp /\ w.wide = o.wide /\ w.wdirp = ok
      /\ w.patt = FALSE /\ w.handle = FALSE /\ w.cached = FALSE
  BY <1>1 DEF OpenStreams
<1>5. pc' = p
  BY <1>1, <1>2, <1>3 DEF Resume
<1>6. /\ p \in {"idle", "no_dir", "hand_over"} \cup Opening \cup Closing
      /\ p \in {"alloc_patt", "idle", "free_dir"}
      /\ p = "alloc_patt" => ok
      /\ p = "idle" => ~ok /\ o.wide
      /\ p = "free_dir" => ~ok /\ ~o.wide
  BY DEF Opening, Closing
<1> HIDE DEF p
<1>7. SearchSound(w)
  BY <1>4 DEF SearchSound
<1>8. p \in Opening \cup Closing => PartsAt(w, p)
  BY <1>3, <1>4, <1>6 DEF PartsAt, Reading, Opening, Closing
<1>9. p = "idle" => at = "user" /\ Shut(w)
  BY <1>1, <1>3, <1>4, <1>6 DEF Shut
<1> HIDE DEF w, o
<1>10. Balance' /\ heap' \in [Kinds -> Nat] /\ searches' \in [Streams -> Nat]
  <2>1. heap' \in [Kinds -> Int]
    BY <1>1, <1>2 DEF Kinds
  <2>2. One(o.wdirp) = 0 /\ One(w.wdirp) = IF ok THEN 1 ELSE 0
    BY <1>3, <1>4 DEF One
  <2>3. heap'["_WDIR"] = heap["_WDIR"] + One(w.wdirp) - One(o.wdirp)
    BY <1>1, <1>2, <2>2 DEF Kinds
  <2>4. /\ One(w.dirp) = One(o.dirp) /\ One(o.dirp) \in Nat /\ One(w.patt) = 0
        /\ One(o.patt) = 0 /\ One(w.handle) = 0 /\ searches[at] = 0
    BY <1>1, <1>3, <1>4 DEF One
  <2>5. /\ heap'["DIR"] = heap["DIR"] + One(w.dirp) - One(o.dirp)
        /\ heap'["patt"] = heap["patt"] + One(w.patt) - One(o.patt)
    BY <1>1, <1>2, <2>4 DEF Kinds
  <2>6. heap'["table"] = heap["table"] /\ heap'["dirent"] = heap["dirent"]
    BY <1>1, <1>2 DEF Kinds
  <2>7. searches' = [searches EXCEPT ![at] = One(w.handle)]
    BY <1>1, <1>2, <2>4
  <2> QED
    BY <1>1, <1>2, <1>4, <2>1, <2>3, <2>5, <2>6, <2>7, BalanceMoves DEF o
<1>11. /\ at = "scan" => ~w.wide
       /\ p = "idle" => at = "user" /\ ((Open(w) /\ w.handle) \/ Shut(w))
       /\ p \notin {"no_dir", "hand_over"}
       /\ p \in Opening => pc \in Opening
  BY <1>1, <1>3, <1>4, <1>6, <1>9
<1>12. at = "user" => seen = <<>> /\ (w.handle => w.pos = 1 /\ w.cached)
  BY <1>1, <1>3, <1>4
<1> QED
  BY <1>1, <1>2, <1>3, <1>4, <1>5, <1>6, <1>7, <1>8, <1>10, <1>11, <1>12, PartsSound DEF o

(* The search pattern is allocated, or there is no memory. *)
LEMMA AllocPattSound ==
  ASSUME IInv, NEW ok \in BOOLEAN, AllocPatt(ok)
  PROVE  IInv'
<1> DEFINE o == stream[at]
           w == [o EXCEPT !.patt = ok]
           p == IF ok THEN "full_path" ELSE "wclose"
<1>1. /\ Typed /\ Balance /\ stream \in [Streams -> OpenStreams] /\ at \in Streams
      /\ heap \in [Kinds -> Nat] /\ searches \in [Streams -> Nat] /\ errno \in Errors
      /\ at \in {"user", "scan"}
      /\ o \in OpenStreams /\ SearchSound(o) /\ searches[at] = One(o.handle)
      /\ pc # "idle" => PartsAt(o, pc)
      /\ at = "scan" => ~o.wide
      /\ pc \in Opening => ~scan.dir
      /\ at = "user" /\ pc \in Opening => seen = <<>>
  BY WhereItIs
<1>2. /\ pc = "alloc_patt" /\ pc' = p
      /\ heap' = [heap EXCEPT !["patt"] = IF ok THEN @ + 1 ELSE @]
      /\ stream' = [stream EXCEPT ![at] = w]
      /\ UNCHANGED <<directory, at, searches, errno, scan, calls, seen, handed, lost>>
  BY DEF AllocPatt, Allocated
<1>3. /\ pc \in Opening /\ ~scan.dir /\ (o.dirp <=> ~o.wide)
      /\ o.wdirp /\ ~o.patt /\ ~o.handle /\ o.wide \in BOOLEAN /\ o.dirp \in BOOLEAN
      /\ o.wdirp \in BOOLEAN /\ o.patt \in BOOLEAN /\ o.handle \in BOOLEAN
  BY <1>1, <1>2 DEF PartsAt, Opening, OpenStreams
<1>4. /\ w \in OpenStreams /\ w.dirp = o.dirp /\ w.wide = o.wide /\ w.wdirp = o.wdirp
      /\ w.patt = ok /\ w.handle = o.handle /\ w.cached = o.cached
  BY <1>1 DEF OpenStreams
<1>5. /\ p \in {"idle", "no_dir", "hand_over"} \cup Opening \cup Closing
      /\ p \in {"full_path", "wclose"}
      /\ p = "full_path" => ok
  BY DEF Opening, Closing
<1> HIDE DEF p
<1>6. SearchSound(w)
  BY <1>1, <1>3, <1>4 DEF SearchSound
<1>7. PartsAt(w, p)
  BY <1>3, <1>4, <1>5 DEF PartsAt, Reading, Open
<1> HIDE DEF w, o
<1>8. Balance' /\ heap' \in [Kinds -> Nat] /\ searches' \in [Streams -> Nat]
  <2>1. heap' \in [Kinds -> Int]
    BY <1>1, <1>2 DEF Kinds
  <2>2. One(o.patt) = 0 /\ One(w.patt) = IF ok THEN 1 ELSE 0
    BY <1>3, <1>4 DEF One
  <2>3. heap'["patt"] = heap["patt"] + One(w.patt) - One(o.patt)
    BY <1>1, <1>2, <2>2 DEF Kinds
  <2>4. /\ One(w.dirp) = One(o.dirp) /\ One(o.dirp) \in Nat
        /\ One(w.wdirp) = One(o.wdirp) /\ One(o.wdirp) \in Nat
        /\ One(w.handle) = searches[at]
    BY <1>1, <1>3, <1>4 DEF One
  <2>5. /\ heap'["DIR"] = heap["DIR"] + One(w.dirp) - One(o.dirp)
        /\ heap'["_WDIR"] = heap["_WDIR"] + One(w.wdirp) - One(o.wdirp)
    BY <1>1, <1>2, <2>4 DEF Kinds
  <2>6. heap'["table"] = heap["table"] /\ heap'["dirent"] = heap["dirent"]
    BY <1>1, <1>2 DEF Kinds
  <2>7. searches' = [searches EXCEPT ![at] = One(w.handle)]
    BY <1>1, <1>2, <2>4
  <2> QED
    BY <1>1, <1>2, <1>4, <2>1, <2>3, <2>5, <2>6, <2>7, BalanceMoves DEF o
<1>9. at = "scan" => ~w.wide
  BY <1>1, <1>4
<1>10. at = "user" => seen = <<>> /\ (w.handle => w.pos = 1 /\ w.cached)
  BY <1>1, <1>3, <1>4
<1>11. p \notin {"idle", "no_dir", "hand_over"}
  BY <1>5
<1> QED
  BY <1>1, <1>2, <1>3, <1>4, <1>5, <1>6, <1>7, <1>8, <1>9, <1>10, <1>11, PartsSound DEF o

(* What the search finds first: a file in memory, or nothing. *)
LEMMA FirstFacts ==
  ASSUME Typed, NEW s \in Streams, NEW ok \in BOOLEAN, dirent_first(s, ok),
         stream[s].wdirp
  PROVE  LET w == stream'[s]
             o == stream[s]
         IN /\ w \in OpenStreams /\ stream' = [stream EXCEPT ![s] = w] /\ SearchSound(w)
            /\ w.wide = o.wide /\ w.dirp = o.dirp /\ w.wdirp = o.wdirp /\ w.patt = o.patt
            /\ w.handle => w.pos = 1 /\ w.cached
            /\ errno' \in Errors
<1> DEFINE o == stream[s]
           found == ok /\ directory # <<>>
           v == [o EXCEPT !.handle = found, !.cached = found,
                          !.pos = IF found THEN 1 ELSE 0, !.cut = ~found]
<1>1. o \in OpenStreams /\ stream \in [Streams -> OpenStreams] /\ directory \in Seq(Files)
      /\ errno \in Errors
  BY DEF Typed, Errors
<1>2. found \in BOOLEAN
  OBVIOUS
<1>3. stream' = [stream EXCEPT ![s] = v]
  BY <1>1 DEF dirent_first
<1>4. errno' \in Errors
  BY <1>1 DEF dirent_first, Errors
<1>5. (IF found THEN 1 ELSE 0) \in 0..Len(directory)
  BY <1>1
<1> HIDE DEF found
<1>6. /\ v \in OpenStreams
      /\ v.wide = o.wide /\ v.dirp = o.dirp /\ v.wdirp = o.wdirp /\ v.patt = o.patt
      /\ v.handle = found /\ v.cached = found /\ v.pos = IF found THEN 1 ELSE 0
  BY <1>1, <1>2, <1>5 DEF OpenStreams
<1> HIDE DEF v
<1>7. stream'[s] = v
  BY <1>1, <1>3
<1>8. SearchSound(v)
  BY <1>6 DEF SearchSound
<1> QED
  BY <1>3, <1>4, <1>6, <1>7, <1>8

(* The program's pass is not touched by a step at the other stream. *)
LEMMA PassKept ==
  ASSUME Typed, PassInv, UNCHANGED <<directory, seen>>, User' = User,
         at' = "user" => pc' \notin Opening,
         pc' = "idle" \/ at' = "scan" => pc = "idle" \/ at = "scan"
  PROVE  PassInv'
<1>1. Consumption(User)' = Consumption(User)
  BY DEF Consumption
<1>2. \A k : FirstRead(k)' <=> FirstRead(k)
  BY DEF FirstRead
<1> QED
  BY <1>1, <1>2 DEF PassInv

(* The directory's first entry is found, and the stream is there; or not,  *)
(* and what there is of it is closed again.                                *)
LEMMA OpenFirstSound ==
  ASSUME IInv, NEW ok \in BOOLEAN, OpenFirst(ok)
  PROVE  IInv'
<1> DEFINE o == stream[at]
           w == stream'[at]
           p == IF ~w.handle THEN "wclose" ELSE IF at = "user" THEN "idle" ELSE "grow"
<1>1. /\ Typed /\ Balance /\ stream \in [Streams -> OpenStreams] /\ at \in Streams
      /\ heap \in [Kinds -> Nat] /\ searches \in [Streams -> Nat] /\ errno \in Errors
      /\ at \in {"user", "scan"} /\ scan \in Scans
      /\ o \in OpenStreams /\ SearchSound(o) /\ searches[at] = One(o.handle)
      /\ pc # "idle" => PartsAt(o, pc)
      /\ at = "scan" => ~o.wide
      /\ pc \in Opening => ~scan.dir
      /\ at = "user" /\ pc \in Opening => seen = <<>>
  BY WhereItIs
<1>2. /\ pc = "first" /\ dirent_first(at, ok)
      /\ searches' = [searches EXCEPT ![at] = @ + IF w.handle THEN 1 ELSE 0]
      /\ pc' = CASE ~w.handle -> "wclose"
                 [] w.handle /\ at = "user" -> "idle"
                 [] w.handle /\ at = "scan" -> "grow"
      /\ scan' = [scan EXCEPT !.dir = at = "scan" /\ w.handle]
      /\ UNCHANGED <<directory, at, heap, calls, seen, handed, lost>>
  BY DEF OpenFirst
<1>3. pc \in Opening /\ ~scan.dir /\ Open(o) /\ ~o.handle /\ o.wdirp
  BY <1>1, <1>2 DEF PartsAt, Opening, Open
<1>4. /\ w \in OpenStreams /\ stream' = [stream EXCEPT ![at] = w] /\ SearchSound(w)
      /\ w.wide = o.wide /\ w.dirp = o.dirp /\ w.wdirp = o.wdirp /\ w.patt = o.patt
      /\ w.handle => w.pos = 1 /\ w.cached
      /\ errno' \in Errors
  BY <1>1, <1>2, <1>3, FirstFacts
<1>5. pc' = p
  BY <1>1, <1>2
<1>6. w.handle \in BOOLEAN
  BY <1>4 DEF OpenStreams
<1>7. Open(w)
  BY <1>3, <1>4 DEF Open
<1>8. searches' = [searches EXCEPT ![at] = One(w.handle)]
  BY <1>1, <1>2, <1>3 DEF One
<1> HIDE DEF w, o, p
<1>9. CASE p # "grow"
  <2>1. scan' = scan
    <3>1. (at = "scan" /\ w.handle) = FALSE
      BY <1>1, <1>9, <1>6 DEF p
    <3> QED
      BY <1>1, <1>2, <1>3, <3>1 DEF Scans
  <2>2. Balance' /\ heap' \in [Kinds -> Nat] /\ searches' \in [Streams -> Nat]
    <3>1. \A b : One(b) \in Nat
      BY DEF One
    <3>2. /\ heap'["DIR"] = heap["DIR"] + One(w.dirp) - One(o.dirp)
          /\ heap'["_WDIR"] = heap["_WDIR"] + One(w.wdirp) - One(o.wdirp)
          /\ heap'["patt"] = heap["patt"] + One(w.patt) - One(o.patt)
      BY <1>1, <1>2, <1>4, <3>1 DEF Kinds
    <3>3. heap' \in [Kinds -> Int] /\ heap'["table"] = heap["table"]
          /\ heap'["dirent"] = heap["dirent"]
      BY <1>1, <1>2
    <3> QED
      BY <1>1, <1>2, <1>4, <1>8, <2>1, <3>2, <3>3, BalanceMoves DEF o
  <2>3. /\ p \in {"idle", "no_dir", "hand_over"} \cup Opening \cup Closing
        /\ p \in {"wclose", "idle"}
        /\ p = "idle" => at = "user" /\ w.handle
    BY <1>6, <1>9 DEF p, Closing
  <2>4. p \in Opening \cup Closing => PartsAt(w, p)
    BY <1>7, <2>3 DEF PartsAt, Open, Reading, Opening, Closing
  <2>5. p \notin {"no_dir", "hand_over"} /\ p \notin Opening /\ pc \in Opening \cup Closing
    BY <1>3, <2>3 DEF Opening
  <2>6. p = "idle" => at = "user" /\ ((Open(w) /\ w.handle) \/ Shut(w))
    BY <1>7, <2>3
  <2>7. at = "user" => seen = <<>> /\ (w.handle => w.pos = 1 /\ w.cached)
    BY <1>1, <1>3, <1>4
  <2>8. at = "scan" => ~w.wide
    BY <1>1, <1>4
  <2> QED
    BY <1>2, <1>4, <1>5, <2>1, <2>2, <2>3, <2>4, <2>5, <2>6, <2>7, <2>8, PartsSound
<1>10. CASE p = "grow"
  <2>1. at = "scan" /\ w.handle /\ pc' = "grow" /\ at' = at
    BY <1>1, <1>2, <1>5, <1>10 DEF p
  <2>2. /\ scan' = [scan EXCEPT !.dir = TRUE]
    BY <1>2, <2>1
  <2>3. /\ scan' \in Scans /\ scan'.dir /\ scan'.files = scan.files /\ scan'.tmp = scan.tmp
        /\ scan'.table = scan.table /\ scan'.result = scan.result
        /\ scan'.allocated = scan.allocated
    BY <1>1, <2>2 DEF Scans
  <2>4. StreamsInv /\ PassInv /\ ScanInv
    BY DEF IInv
  <2>5. /\ scan.files = <<>> /\ scan.result = 0 /\ ~scan.table /\ ~scan.tmp
        /\ handed = NULL /\ Len(scan.files) <= scan.allocated
        /\ Len(directory) \in Nat
    BY <1>1, <1>2, <1>3, <2>1, <2>4 DEF ScanInv, Typed
  <2>6. Scan' = w /\ User' = User
    BY <1>1, <1>4, <2>1 DEF Scan, User, Streams
  <2>7. Typed'
    <3>1. OpenStreams' = OpenStreams /\ Entries' = Entries /\ Scans' = Scans
      BY <1>2 DEF OpenStreams, Entries, Scans
    <3>2. stream' \in [Streams -> OpenStreams]
      BY <1>1, <1>4
    <3>3. searches' \in [Streams -> Nat]
      BY <1>1, <1>8 DEF One
    <3>4. "grow" \in Places
      BY DEF Places, Reading
    <3> QED
      BY <1>1, <1>2, <1>4, <2>1, <2>3, <3>1, <3>2, <3>3, <3>4 DEF Typed, Errors
  <2>8. StreamsInv'
    <3>1. \A s \in Streams : SearchSound(stream'[s])
      BY <1>1, <1>4, <2>4 DEF StreamsInv
    <3>2. ~Scan'.wide
      BY <1>1, <1>4, <2>1, <2>6
    <3>3. Open(User') \/ Shut(User')
      BY <2>1, <2>4, <2>6 DEF StreamsInv
    <3>4. PartsAt(stream'[at], "grow")
      BY <1>7, <2>1 DEF PartsAt, Opening, Closing, Reading, w
    <3> QED
      BY <2>1, <3>1, <3>2, <3>3, <3>4 DEF StreamsInv
  <2>9. PassInv'
    BY <1>1, <1>2, <2>1, <2>4, <2>6, PassKept
  <2>10. Consumption(Scan)' = 0
    BY <1>4, <2>1, <2>6 DEF Consumption, One
  <2>11. Tally(scan.files, scan.filter, Consumption(Scan))'
    <3>1. DOMAIN scan'.files = {} /\ 1..0 = {}
      BY <2>3, <2>5
    <3>2. \A e \in Entries' : {i \in DOMAIN scan'.files : scan'.files[i] = e} = {}
      BY <3>1
    <3>3. \A e \in Entries' :
            {i \in 1..0 : Passing(i, scan.filter)' /\ dirent(directory'[i]) = e} = {}
      BY <3>1
    <3> QED
      BY <2>10, <3>2, <3>3 DEF Tally
  <2>12. ScanInv'
    <3>1. Len(scan'.files) = 0
      BY <2>3, <2>5
    <3>2. Len(scan'.files) <= Consumption(Scan)' /\ Len(scan'.files) <= Len(directory')
      BY <1>2, <2>5, <2>10, <3>1
    <3> QED
      BY <1>2, <2>1, <2>3, <2>5, <2>11, <3>1, <3>2 DEF ScanInv, Reading, Opening, Closing
  <2>13. Balance'
    <3>1. \A s \in Streams : searches'[s] = One(stream'[s].handle)
      BY <1>1, <1>4, <1>8 DEF Balance
    <3> QED
      BY <1>1, <1>2, <1>4, <2>1, <2>3, <2>6, <3>1 DEF Balance, Scan, o
  <2> QED
    BY <2>7, <2>8, <2>9, <2>12, <2>13 DEF IInv
<1> QED
  BY <1>9, <1>10

(* _wclosedir gives back the search, the pattern and the _WDIR. *)
LEMMA WClosedirSound ==
  ASSUME IInv, _wclosedir
  PROVE  IInv'
<1> DEFINE o == stream[at]
           w == [Closed EXCEPT !.dirp = o.dirp]
           p == IF o.wide THEN "idle" ELSE "free_dir"
<1>1. /\ Typed /\ Balance /\ stream \in [Streams -> OpenStreams] /\ at \in Streams
      /\ heap \in [Kinds -> Nat] /\ searches \in [Streams -> Nat] /\ errno \in Errors
      /\ at \in {"user", "scan"}
      /\ o \in OpenStreams /\ SearchSound(o) /\ searches[at] = One(o.handle)
      /\ pc # "idle" => PartsAt(o, pc)
      /\ at = "scan" => ~o.wide
  BY WhereItIs
<1>2. /\ pc = "wclose"
      /\ searches' = [searches EXCEPT ![at] = @ - IF o.handle THEN 1 ELSE 0]
      /\ heap' = [heap EXCEPT !["patt"] = @ - IF o.patt THEN 1 ELSE 0,
                              !["_WDIR"] = @ - 1]
      /\ stream' = [stream EXCEPT ![at] = w]
      /\ pc' = IF o.wide THEN Resume ELSE "free_dir"
      /\ UNCHANGED <<directory, at, errno, scan, calls, seen, handed, lost>>
  BY DEF _wclosedir
<1>3. /\ pc \in Closing /\ pc \in Opening \cup Closing /\ (o.dirp <=> ~o.wide) /\ o.wdirp
      /\ o.wide \in BOOLEAN /\ o.dirp \in BOOLEAN /\ o.patt \in BOOLEAN
      /\ o.handle \in BOOLEAN
  BY <1>1, <1>2 DEF PartsAt, Closing, OpenStreams
<1>4. /\ w \in OpenStreams /\ w.dirp = o.dirp /\ w.wide = FALSE /\ w.wdirp = FALSE
      /\ w.patt = FALSE /\ w.handle = FALSE /\ w.cached = FALSE
  <2>1. directory \in Seq(Files)
    BY <1>1 DEF Typed
  <2>2. Len(directory) \in Nat
    BY <2>1
  <2>3. 0 \in 0..Len(directory)
    BY <2>2
  <2> QED
    BY <1>3, <2>3 DEF Closed, OpenStreams
<1>5. pc' = p
  BY <1>1, <1>2 DEF Resume
<1>6. /\ p \in {"idle", "no_dir", "hand_over"} \cup Opening \cup Closing
      /\ p \in {"idle", "free_dir"}
      /\ p = "idle" => o.wide
      /\ p = "free_dir" => ~o.wide
  BY DEF Opening, Closing
<1> HIDE DEF p
<1>7. SearchSound(w)
  BY <1>4 DEF SearchSound
<1>8. p \in Opening \cup Closing => PartsAt(w, p)
  BY <1>3, <1>4, <1>6 DEF PartsAt, Reading, Opening, Closing
<1>9. p = "idle" => at = "user" /\ Shut(w)
  BY <1>1, <1>3, <1>4, <1>6 DEF Shut
<1> HIDE DEF w, o
<1>10. Balance' /\ heap' \in [Kinds -> Nat] /\ searches' \in [Streams -> Nat]
  <2>1. heap' \in [Kinds -> Int]
    BY <1>1, <1>2 DEF Kinds
  <2>2. /\ One(o.wdirp) = 1 /\ One(w.wdirp) = 0 /\ One(w.patt) = 0
        /\ One(o.patt) = (IF o.patt THEN 1 ELSE 0) /\ One(w.dirp) = One(o.dirp)
        /\ One(o.dirp) \in Nat /\ One(w.handle) = 0
        /\ One(o.handle) = (IF o.handle THEN 1 ELSE 0)
    BY <1>3, <1>4 DEF One
  <2>3. /\ heap'["DIR"] = heap["DIR"] + One(w.dirp) - One(o.dirp)
        /\ heap'["_WDIR"] = heap["_WDIR"] + One(w.wdirp) - One(o.wdirp)
        /\ heap'["patt"] = heap["patt"] + One(w.patt) - One(o.patt)
    BY <1>1, <1>2, <2>2 DEF Kinds
  <2>4. heap'["table"] = heap["table"] /\ heap'["dirent"] = heap["dirent"]
    BY <1>1, <1>2 DEF Kinds
  <2>5. searches' = [searches EXCEPT ![at] = One(w.handle)]
    BY <1>1, <1>2, <2>2
  <2> QED
    BY <1>1, <1>2, <1>4, <2>1, <2>3, <2>4, <2>5, BalanceMoves DEF o
<1>11. at = "scan" => ~w.wide
  BY <1>4
<1>12. p = "idle" => at = "user" /\ ((Open(w) /\ w.handle) \/ Shut(w))
  BY <1>9
<1>13. p \notin {"no_dir", "hand_over"} /\ p \notin Opening
  BY <1>6 DEF Opening
<1>14. at = "user" => ~w.wdirp
  BY <1>4
<1>15. errno' \in Errors
  BY <1>1, <1>2
<1> QED
  BY <1>2, <1>3, <1>4, <1>5, <1>6, <1>7, <1>8, <1>10, <1>11, <1>12, <1>13, <1>14, <1>15,
     PartsSound

(* closedir, or an opendir that fails, gives back the DIR. *)
LEMMA FreeDIRSound ==
  ASSUME IInv, FreeDIR
  PROVE  IInv'
<1> DEFINE o == stream[at]
           w == Closed
           p == Resume
<1>1. /\ Typed /\ Balance /\ stream \in [Streams -> OpenStreams] /\ at \in Streams
      /\ heap \in [Kinds -> Nat] /\ searches \in [Streams -> Nat] /\ errno \in Errors
      /\ at \in {"user", "scan"}
      /\ o \in OpenStreams /\ SearchSound(o) /\ searches[at] = One(o.handle)
      /\ pc # "idle" => PartsAt(o, pc)
      /\ scan.dir \in BOOLEAN
  BY WhereItIs DEF Scans
<1>2. /\ pc = "free_dir" /\ pc' = p
      /\ heap' = [heap EXCEPT !["DIR"] = @ - 1]
      /\ stream' = [stream EXCEPT ![at] = w]
      /\ UNCHANGED <<directory, at, searches, errno, scan, calls, seen, handed, lost>>
  BY DEF FreeDIR
<1>3. /\ pc \in Closing /\ pc \in Opening \cup Closing /\ o.dirp /\ ~o.wdirp /\ ~o.patt
      /\ ~o.handle
  BY <1>1, <1>2 DEF PartsAt, Closing
<1>4. /\ w \in OpenStreams /\ w.dirp = FALSE /\ w.wide = FALSE /\ w.wdirp = FALSE
      /\ w.patt = FALSE /\ w.handle = FALSE /\ w.cached = FALSE
  <2>1. directory \in Seq(Files)
    BY <1>1 DEF Typed
  <2>2. Len(directory) \in Nat
    BY <2>1
  <2>3. 0 \in 0..Len(directory)
    BY <2>2
  <2> QED
    BY <2>3 DEF Closed, OpenStreams
<1>5. /\ p \in {"idle", "no_dir", "hand_over"} \cup Opening \cup Closing
      /\ p \notin Opening \cup Closing
      /\ p = "idle" => at = "user"
      /\ p \in {"no_dir", "hand_over"} => at = "scan" /\ (scan.dir <=> p = "hand_over")
  BY <1>1 DEF Resume, Opening, Closing
<1> HIDE DEF p, w
<1>6. SearchSound(w) /\ Shut(w)
  BY <1>4 DEF SearchSound, Shut
<1> HIDE DEF o
<1>7. Balance' /\ heap' \in [Kinds -> Nat] /\ searches' \in [Streams -> Nat]
  <2>1. heap' \in [Kinds -> Int]
    BY <1>1, <1>2 DEF Kinds
  <2>2. /\ One(o.dirp) = 1 /\ One(o.wdirp) = 0 /\ One(o.patt) = 0 /\ One(o.handle) = 0
        /\ One(w.dirp) = 0 /\ One(w.wdirp) = 0 /\ One(w.patt) = 0 /\ One(w.handle) = 0
    BY <1>3, <1>4 DEF One
  <2>3. /\ heap'["DIR"] = heap["DIR"] + One(w.dirp) - One(o.dirp)
        /\ heap'["_WDIR"] = heap["_WDIR"] + One(w.wdirp) - One(o.wdirp)
        /\ heap'["patt"] = heap["patt"] + One(w.patt) - One(o.patt)
    BY <1>1, <1>2, <2>2 DEF Kinds
  <2>4. heap'["table"] = heap["table"] /\ heap'["dirent"] = heap["dirent"]
    BY <1>1, <1>2 DEF Kinds
  <2>5. searches' = [searches EXCEPT ![at] = One(w.handle)]
    BY <1>1, <1>2, <2>2
  <2> QED
    BY <1>1, <1>2, <1>4, <2>1, <2>3, <2>4, <2>5, BalanceMoves DEF o
<1>8. /\ at = "scan" => ~w.wide
      /\ at = "user" => ~w.wdirp
  BY <1>4
<1>9. errno' \in Errors
  BY <1>1, <1>2
<1>10. p \in Opening \cup Closing => PartsAt(w, p)
  BY <1>5
<1>11. p = "idle" => at = "user" /\ ((Open(w) /\ w.handle) \/ Shut(w))
  BY <1>5, <1>6
<1>12. p \in {"no_dir", "hand_over"} => at = "scan" /\ Shut(w) /\ (scan.dir <=> p = "hand_over")
  BY <1>5, <1>6
<1>13. p \in Opening => pc \in Opening
  BY <1>5
<1> QED
  BY <1>2, <1>3, <1>4, <1>5, <1>6, <1>7, <1>8, <1>9, <1>10, <1>11, <1>12, <1>13, PartsSound

-----------------------------------------------------------------------------
(* The calls of the program *)

(* Between its calls: the streams are whole, and scandir's is not there.   *)
LEMMA BetweenCalls ==
  ASSUME IInv, pc = "idle"
  PROVE  /\ Typed /\ StreamsInv /\ PassInv /\ ScanInv /\ Balance
         /\ stream \in [Streams -> OpenStreams] /\ User \in OpenStreams
         /\ heap \in [Kinds -> Nat] /\ searches \in [Streams -> Nat] /\ errno \in Errors
         /\ User = stream["user"] /\ SearchSound(User) /\ (Open(User) \/ Shut(User))
         /\ searches["user"] = One(User.handle)
         /\ Shut(Scan) /\ SearchSound(Scan) /\ ~Scan.wide /\ scan = NoScan
         /\ calls \in 0..MaxCalls /\ MaxCalls \in Nat /\ directory \in Seq(Files)
         /\ "user" \in Streams /\ "scan" \in Streams
<1>1. Typed /\ StreamsInv /\ PassInv /\ ScanInv /\ Balance
  BY DEF IInv
<1>2. /\ stream \in [Streams -> OpenStreams] /\ calls \in 0..MaxCalls
      /\ heap \in [Kinds -> Nat] /\ searches \in [Streams -> Nat] /\ errno \in Errors
      /\ directory \in Seq(Files) /\ "user" \in Streams /\ "scan" \in Streams
  BY <1>1 DEF Typed, Errors, Streams
<1>3. /\ User = stream["user"] /\ SearchSound(User) /\ (Open(User) \/ Shut(User))
      /\ Shut(Scan) /\ SearchSound(Scan) /\ ~Scan.wide
  BY <1>1, <1>2 DEF User, Scan, StreamsInv
<1>4. searches["user"] = One(User.handle) /\ User \in OpenStreams
  BY <1>1, <1>2 DEF Balance, User
<1>5. scan = NoScan
  BY <1>1 DEF ScanInv
<1> QED
  BY <1>1, <1>2, <1>3, <1>4, <1>5, PathMaxAssumption

(* scandir has no locals while another call runs. *)
LEMMA ScanQuiet ==
  ASSUME ScanInv, scan = NoScan, UNCHANGED <<directory, scan>>,
         handed' \in {handed, NULL},
         pc' \in {"idle"} \cup Opening \cup Closing, pc' = "idle" \/ at' = "user"
  PROVE  ScanInv'
<1>1. pc' \notin Reading \cup {"temporary", "read", "release", "hand_over"}
  BY DEF Opening, Closing, Reading
<1>2. /\ Len(scan.files) <= scan.allocated /\ Len(scan.files) <= Len(directory)
      /\ -1 <= scan.result /\ scan.result <= Len(directory)
      /\ handed # NULL => ListExact(handed)
  BY DEF ScanInv
<1>3. /\ ~scan.dir /\ scan.files = <<>> /\ scan.result = 0 /\ ~scan.table /\ ~scan.tmp
  BY DEF NoScan
<1>4. handed' # NULL => ListExact(handed)'
  <2>1. Entries' = Entries
    BY DEF Entries
  <2>2. CASE handed' = handed
    <3>1. ListExact(handed)' <=> ListExact(handed)
      BY <2>1, <2>2 DEF ListExact, Tally, Alphabetical, Passing
    <3> QED
      BY <1>2, <2>2, <3>1
  <2> QED
    BY <2>2
<1>5. ~(pc' # "idle" /\ at' = "scan")
  OBVIOUS
<1>6. scan' = NoScan
  OBVIOUS
<1> QED
  BY <1>1, <1>2, <1>3, <1>4, <1>5, <1>6 DEF ScanInv, Reading

(* opendir begins with a stream that is not there, or has no name.         *)
LEMMA CallOpendirSound ==
  ASSUME IInv, NEW wide \in BOOLEAN, CallOpendir(wide)
  PROVE  IInv'
<1>1. /\ pc = "idle" /\ calls < MaxCalls /\ calls' = calls + 1 /\ ~User.wdirp
      /\ at' = "user" /\ seen' = <<>>
      /\ UNCHANGED <<directory, heap, searches, scan, handed, lost>>
      /\ \/ /\ pc' = IF wide THEN "alloc_wdir" ELSE "alloc_dir"
            /\ stream' = [stream EXCEPT !["user"].wide = wide]
            /\ UNCHANGED errno
         \/ errno' = "ENOENT" /\ UNCHANGED <<pc, stream>>
  BY DEF CallOpendir, Call
<1>2. /\ Typed /\ StreamsInv /\ PassInv /\ ScanInv /\ Balance
      /\ stream \in [Streams -> OpenStreams] /\ User \in OpenStreams
      /\ errno \in Errors
      /\ User = stream["user"] /\ SearchSound(User) /\ (Open(User) \/ Shut(User))
      /\ Shut(Scan) /\ SearchSound(Scan) /\ ~Scan.wide /\ scan = NoScan
      /\ calls \in 0..MaxCalls /\ MaxCalls \in Nat /\ directory \in Seq(Files)
      /\ "user" \in Streams /\ "scan" \in Streams
  BY <1>1, BetweenCalls
<1>3. Shut(User)
  BY <1>1, <1>2 DEF Open
<1>4. pc' \in {"idle", "alloc_wdir", "alloc_dir"} /\ errno' \in Errors
  BY <1>1, <1>2 DEF Errors
<1>5. /\ stream' \in [Streams -> OpenStreams] /\ Scan' = Scan
      /\ User' \in OpenStreams /\ Shut(User') /\ SearchSound(User') /\ ~User'.wdirp
      /\ pc' = "alloc_dir" => ~User'.wide
      /\ pc' = "alloc_wdir" => User'.wide
      /\ User'.dirp = User.dirp /\ User'.wdirp = User.wdirp /\ User'.patt = User.patt
      /\ User'.handle = User.handle
  <2> DEFINE v == [User EXCEPT !.wide = wide]
  <2>1. /\ v \in OpenStreams /\ v.wide = wide
        /\ v.dirp = User.dirp /\ v.wdirp = User.wdirp /\ v.patt = User.patt
        /\ v.handle = User.handle /\ v.cached = User.cached
    BY <1>2 DEF OpenStreams
  <2>2. \/ stream' = [stream EXCEPT !["user"] = v] /\ pc' = IF wide THEN "alloc_wdir" ELSE "alloc_dir"
        \/ stream' = stream /\ pc' = "idle"
    BY <1>1, <1>2
  <2> HIDE DEF v
  <2>3. CASE stream' = [stream EXCEPT !["user"] = v] /\ pc' = IF wide THEN "alloc_wdir" ELSE "alloc_dir"
    <3>1. User' = v /\ Scan' = Scan
      BY <1>2, <2>3 DEF User, Scan
    <3>2. stream' \in [Streams -> OpenStreams]
      BY <1>2, <2>1, <2>3
    <3> QED
      BY <1>2, <1>3, <2>1, <2>3, <3>1, <3>2 DEF Shut, SearchSound
  <2>4. CASE stream' = stream /\ pc' = "idle"
    BY <1>1, <1>2, <1>3, <2>4 DEF User, Scan
  <2> QED
    BY <2>2, <2>3, <2>4
<1>6. Typed'
  <2>1. OpenStreams' = OpenStreams /\ Entries' = Entries /\ Scans' = Scans
    BY <1>1 DEF OpenStreams, Entries, Scans
  <2>2. calls' \in 0..MaxCalls
    BY <1>1, <1>2
  <2>3. pc' \in Places /\ at' \in Streams
    BY <1>1, <1>2, <1>4 DEF Places, Opening
  <2> QED
    BY <1>1, <1>2, <1>4, <1>5, <2>1, <2>2, <2>3 DEF Typed, Errors
<1>7. StreamsInv'
  <2>1. \A s \in Streams : SearchSound(stream'[s])
    BY <1>2, <1>5 DEF Streams, User, Scan
  <2>2. pc' # "idle" => PartsAt(stream'[at'], pc')
    <3>1. stream'[at'] = User'
      BY <1>1 DEF User
    <3>2. CASE pc' = "alloc_dir"
      BY <1>5, <3>1, <3>2 DEF PartsAt, Reading
    <3>3. CASE pc' = "alloc_wdir"
      BY <1>5, <3>1, <3>3 DEF PartsAt, Reading, Shut
    <3> QED
      BY <1>4, <3>2, <3>3
  <2>3. pc' \in {"idle"} \cup Opening \cup Closing /\ pc' # "release"
    BY <1>4 DEF Opening
  <2> QED
    BY <1>1, <1>2, <1>5, <2>1, <2>2, <2>3 DEF StreamsInv
<1>8. PassInv'
  <2>1. seen' = <<>> /\ ~User'.wdirp /\ ~User'.handle
    BY <1>1, <1>5 DEF Shut
  <2> QED
    BY <2>1 DEF PassInv
<1>9. ScanInv'
  <2>1. pc' \in {"idle"} \cup Opening \cup Closing
    BY <1>4 DEF Opening
  <2> QED
    BY <1>1, <1>2, <2>1, ScanQuiet
<1>10. Balance'
  <2>1. \A s \in Streams : searches'[s] = One(stream'[s].handle)
    BY <1>1, <1>2, <1>5 DEF Balance, Streams, User, Scan
  <2> QED
    BY <1>1, <1>2, <1>5, <2>1 DEF Balance
<1> QED
  BY <1>6, <1>7, <1>8, <1>9, <1>10 DEF IInv

(* closedir begins at an open stream, or finds none. *)
LEMMA CallClosedirSound ==
  ASSUME IInv, CallClosedir
  PROVE  IInv'
<1>1. /\ pc = "idle" /\ calls < MaxCalls /\ calls' = calls + 1 /\ at' = "user"
      /\ IF User.wdirp THEN pc' = "wclose" /\ errno' = errno
                       ELSE errno' = "EBADF" /\ pc' = pc
      /\ UNCHANGED <<directory, stream, heap, searches, scan, seen, handed, lost>>
  BY DEF CallClosedir, Call
<1>2. /\ Typed /\ StreamsInv /\ PassInv /\ ScanInv /\ Balance
      /\ stream \in [Streams -> OpenStreams] /\ errno \in Errors
      /\ User = stream["user"] /\ SearchSound(User) /\ (Open(User) \/ Shut(User))
      /\ Shut(Scan) /\ SearchSound(Scan) /\ ~Scan.wide /\ scan = NoScan
      /\ calls \in 0..MaxCalls /\ MaxCalls \in Nat
      /\ "user" \in Streams /\ "scan" \in Streams
  BY <1>1, BetweenCalls
<1>3. /\ pc' \in {"idle", "wclose"} /\ errno' \in Errors
      /\ pc' = "wclose" => Open(User)
      /\ User' = User /\ Scan' = Scan
  BY <1>1, <1>2 DEF Errors, Shut, User, Scan
<1>4. pc' \in {"idle"} \cup Opening \cup Closing /\ pc' \notin Opening /\ pc' \in Places
  BY <1>3 DEF Opening, Closing, Places
<1>5. Typed'
  <2>1. OpenStreams' = OpenStreams /\ Entries' = Entries /\ Scans' = Scans
    BY <1>1 DEF OpenStreams, Entries, Scans
  <2>2. calls' \in 0..MaxCalls
    BY <1>1, <1>2
  <2> QED
    BY <1>1, <1>2, <1>3, <1>4, <2>1, <2>2 DEF Typed, Errors
<1>6. StreamsInv'
  <2>1. pc' # "idle" => PartsAt(stream'[at'], pc')
    <3>1. stream'[at'] = User
      BY <1>1 DEF User
    <3> QED
      BY <1>3, <3>1 DEF PartsAt, Open, Reading
  <2>2. pc' # "release"
    BY <1>3
  <2>3. \A s \in Streams : SearchSound(stream'[s])
    BY <1>1, <1>2 DEF StreamsInv
  <2> QED
    BY <1>1, <1>2, <1>3, <1>4, <2>1, <2>2, <2>3 DEF StreamsInv
<1>7. PassInv'
  BY <1>1, <1>2, <1>3, <1>4, PassKept
<1>8. ScanInv'
  BY <1>1, <1>2, <1>4, ScanQuiet
<1>9. Balance'
  BY <1>1, <1>2, <1>3 DEF Balance
<1> QED
  BY <1>5, <1>6, <1>7, <1>8, <1>9 DEF IInv

(* What the program has read and one more: the next file, or NULL.         *)
LEMMA ReadOne ==
  ASSUME Typed, UNCHANGED directory, User'.wide = User.wide,
         NEW x \in DirEntries \cup {NULL}, seen' = Append(seen, x), NEW k \in Nat,
         FirstRead(k)
  PROVE  /\ seen' \in Seq(DirEntries \cup {NULL}) /\ Len(seen') = Len(seen) + 1
         /\ Len(seen) \in Nat
         /\ x # NULL /\ k = Len(seen) /\ Shows(User.wide, directory[k + 1], x) =>
              FirstRead(k + 1)'
         /\ x = NULL /\ k <= Len(seen) => FirstRead(k)'
<1> DEFINE n == Len(seen)
           S == DirEntries \cup {NULL}
<1>1. seen \in Seq(S)
  BY DEF Typed
<1> HIDE DEF S
<1>2. x \in S
  BY DEF S
<1>3. /\ seen' \in Seq(S) /\ Len(seen') = n + 1 /\ n \in Nat
      /\ \A i \in 1..n : seen'[i] = seen[i]
      /\ seen'[n + 1] = x
      /\ DOMAIN seen = 1..n /\ DOMAIN seen' = 1..(n + 1)
  BY <1>1, <1>2, AppendProperties
<1> HIDE DEF n
<1>4. \A i \in DOMAIN seen' : i \in 1..n \/ i = n + 1
  BY <1>3
<1>5. \A i \in 1..n : IF i <= k THEN /\ seen[i] # NULL
                                     /\ Shows(User.wide, directory[i], seen[i])
                                ELSE seen[i] = NULL
  BY <1>3 DEF FirstRead
<1>6. ASSUME x # NULL, k = n, Shows(User.wide, directory[k + 1], x)
      PROVE  FirstRead(k + 1)'
  <2> SUFFICES ASSUME NEW i \in DOMAIN seen'
               PROVE  i <= k + 1 /\ seen'[i] # NULL /\ Shows(User.wide, directory[i], seen'[i])
    BY <1>6 DEF FirstRead
  <2>1. CASE i \in 1..n
    BY <1>3, <1>5, <1>6, <2>1
  <2>2. CASE i = n + 1
    BY <1>3, <1>6, <2>2
  <2> QED
    BY <1>4, <2>1, <2>2
<1>7. ASSUME x = NULL, k <= n PROVE FirstRead(k)'
  <2> SUFFICES ASSUME NEW i \in DOMAIN seen'
               PROVE  IF i <= k THEN /\ seen'[i] # NULL
                                     /\ Shows(User.wide, directory[i], seen'[i])
                                ELSE seen'[i] = NULL
    BY <1>7 DEF FirstRead
  <2>1. CASE i \in 1..n
    BY <1>3, <1>5, <2>1
  <2>2. CASE i = n + 1
    BY <1>3, <1>7, <2>2
  <2> QED
    BY <1>4, <2>1, <2>2
<1> QED
  BY <1>3, <1>6, <1>7 DEF n, S

(* A step that only moves a stream on in its search. *)
LEMMA SearchMoves ==
  ASSUME Typed, Balance, NEW s \in Streams, NEW w \in OpenStreams,
         stream' = [stream EXCEPT ![s] = w],
         w.dirp = stream[s].dirp, w.wdirp = stream[s].wdirp, w.patt = stream[s].patt,
         searches' = [searches EXCEPT ![s] = One(w.handle)],
         UNCHANGED <<heap, scan, handed, lost>>
  PROVE  Balance' /\ searches' \in [Streams -> Nat]
<1>1. \A b : One(b) \in Nat
  BY DEF One
<1>2. heap \in [Kinds -> Nat] /\ heap' = heap
  BY DEF Typed
<1>3. heap' \in [Kinds -> Int] /\ heap'["table"] = heap["table"] /\ heap'["dirent"] = heap["dirent"]
  BY <1>2
<1>4. /\ heap'["DIR"] = heap["DIR"] + One(w.dirp) - One(stream[s].dirp)
      /\ heap'["_WDIR"] = heap["_WDIR"] + One(w.wdirp) - One(stream[s].wdirp)
      /\ heap'["patt"] = heap["patt"] + One(w.patt) - One(stream[s].patt)
  BY <1>1, <1>2 DEF Kinds
<1> QED
  BY <1>3, <1>4, BalanceMoves

(* What readdir and rewinddir leave alone, at an open stream between calls. *)
LEMMA UserMoves ==
  ASSUME IInv, pc = "idle", Open(User), NEW w \in OpenStreams, SearchSound(w),
         stream' = [stream EXCEPT !["user"] = w],
         w.wide = User.wide, w.dirp = User.dirp, w.wdirp = User.wdirp, w.patt = User.patt,
         searches' = [searches EXCEPT !["user"] = One(w.handle)],
         calls < MaxCalls, calls' = calls + 1,
         UNCHANGED <<directory, pc, at, heap, scan, handed, lost>>,
         errno' \in Errors, seen' \in Seq(DirEntries \cup {NULL}), PassInv'
  PROVE  IInv'
<1>1. /\ Typed /\ StreamsInv /\ PassInv /\ ScanInv /\ Balance
      /\ stream \in [Streams -> OpenStreams] /\ User \in OpenStreams
      /\ heap \in [Kinds -> Nat]
      /\ User = stream["user"]
      /\ Shut(Scan) /\ SearchSound(Scan) /\ ~Scan.wide /\ scan = NoScan
      /\ calls \in 0..MaxCalls /\ MaxCalls \in Nat /\ directory \in Seq(Files)
      /\ "user" \in Streams /\ "scan" \in Streams
  BY BetweenCalls
<1>2. User' = w /\ Scan' = Scan
  BY <1>1 DEF User, Scan
<1>3. Balance' /\ searches' \in [Streams -> Nat]
  BY <1>1, SearchMoves
<1>4. Typed'
  <2>1. OpenStreams' = OpenStreams /\ Entries' = Entries /\ Scans' = Scans
    BY DEF OpenStreams, Entries, Scans
  <2>2. calls' \in 0..MaxCalls
    BY <1>1
  <2>3. stream' \in [Streams -> OpenStreams]
    BY <1>1
  <2> QED
    BY <1>1, <1>3, <2>1, <2>2, <2>3 DEF Typed, Errors
<1>5. StreamsInv'
  <2>1. \A s \in Streams : SearchSound(stream'[s])
    BY <1>1 DEF Streams, Scan
  <2>2. Open(User')
    BY <1>2 DEF Open
  <2>3. ~Scan'.wide /\ Shut(Scan')
    BY <1>1, <1>2
  <2>4. at' = "user" => pc' \in {"idle"} \cup Opening \cup Closing
    OBVIOUS
  <2> QED
    BY <2>1, <2>2, <2>3, <2>4 DEF StreamsInv
<1>6. ScanInv'
  <2>1. pc' \in {"idle"} \cup Opening \cup Closing
    OBVIOUS
  <2> QED
    BY <1>1, <2>1, ScanQuiet
<1> QED
  BY <1>3, <1>4, <1>5, <1>6 DEF IInv

(* readdir gives the next file, or NULL for good. *)
LEMMA ReadDirSound ==
  ASSUME IInv, NEW ok \in BOOLEAN, ReadDir(ok)
  PROVE  IInv'
<1> DEFINE w == AfterNext("user", ok)
           f == dirent_next("user", ok)
           x == IF f = NULL THEN NULL ELSE EntryOf(User, f)
<1>1. /\ pc = "idle" /\ calls < MaxCalls /\ calls' = calls + 1 /\ User.wdirp
      /\ stream' = [stream EXCEPT !["user"] = w]
      /\ searches' = [searches EXCEPT !["user"] =
                        IF stream["user"].handle /\ ~w.handle THEN @ - 1 ELSE @]
      /\ seen' = Append(seen, x)
      /\ UNCHANGED <<directory, pc, at, heap, errno, scan, handed, lost>>
  BY DEF ReadDir, Call, AdvanceStream
<1>2. /\ Typed /\ PassInv /\ User \in OpenStreams /\ User = stream["user"]
      /\ stream \in [Streams -> OpenStreams]
      /\ SearchSound(User) /\ (Open(User) \/ Shut(User))
      /\ searches["user"] = One(User.handle) /\ searches \in [Streams -> Nat]
      /\ "user" \in Streams /\ errno \in Errors /\ directory \in Seq(Files)
  BY <1>1, BetweenCalls
<1>3. Open(User)
  BY <1>1, <1>2 DEF Shut
<1>4. /\ w \in OpenStreams /\ SearchSound(w) /\ ~w.cached
      /\ w.wide = User.wide /\ w.dirp = User.dirp /\ w.wdirp = User.wdirp
      /\ w.patt = User.patt
      /\ f # NULL => /\ User.handle /\ w.handle
                     /\ w.pos = Consumption(User) + 1 /\ w.pos \in DOMAIN directory
                     /\ f = directory[w.pos] /\ f \in Files
      /\ f = NULL => /\ ~w.handle /\ ~User.cached
                     /\ User.handle => w.pos = User.pos
                                       /\ (w.cut \/ w.pos = Len(directory))
                     /\ ~User.handle => w = User
  BY <1>2, NextFacts
<1> HIDE DEF w, f
<1>5. x \in DirEntries \cup {NULL} /\ (f # NULL => x # NULL /\ Shows(User.wide, f, x))
      /\ (f = NULL => x = NULL)
  BY <1>2, <1>4, EntryShows
<1> HIDE DEF x
<1>6. searches' = [searches EXCEPT !["user"] = One(w.handle)]
  <2>1. (w.handle => User.handle) /\ w.handle \in BOOLEAN /\ User.handle \in BOOLEAN
    BY <1>2, <1>4 DEF OpenStreams
  <2>2. One(w.handle) = IF User.handle /\ ~w.handle THEN searches["user"] - 1
                        ELSE searches["user"]
    BY <1>2, <2>1 DEF One
  <2> QED
    BY <1>1, <1>2, <2>2
<1>7. User' = w /\ User'.wide = User.wide
  BY <1>1, <1>2, <1>4 DEF User
<1>8. seen \in Seq(DirEntries \cup {NULL}) /\ Len(seen) \in Nat /\ Len(directory) \in Nat
  <2>1. seen \in Seq(DirEntries \cup {NULL})
    BY <1>2 DEF Typed
  <2> QED
    BY <1>2, <2>1
<1>9. seen' \in Seq(DirEntries \cup {NULL}) /\ Len(seen') = Len(seen) + 1
  BY <1>1, <1>5, <1>8, AppendProperties
<1>10. ~(at' = "user" /\ pc' \in Opening)
  BY <1>1 DEF Opening
<1>11. w.handle => Consumption(w) = w.pos
  <2>1. w.pos \in 0..Len(directory)
    BY <1>4 DEF OpenStreams
  <2> QED
    BY <1>4, <1>8, <2>1 DEF Consumption, One
<1>12. Consumption(User)' = Consumption(w)
  BY <1>7 DEF Consumption
<1>13. PassInv'
  <2>1. CASE f # NULL
    <3>0. PICK k \in Nat : k = Len(seen)
      BY <1>8
    <3>1. FirstRead(k) /\ k = Consumption(User) /\ w.pos = k + 1
      BY <1>2, <1>4, <2>1, <3>0 DEF PassInv
    <3>2. Shows(User.wide, directory[k + 1], x) /\ x # NULL
      BY <1>4, <1>5, <2>1, <3>1
    <3>3. FirstRead(k + 1)'
      BY <1>1, <1>2, <1>5, <1>7, <1>8, <3>0, <3>1, <3>2, ReadOne
    <3>4. Len(seen') = k + 1 /\ Consumption(User)' = k + 1
      BY <1>4, <1>9, <1>11, <1>12, <2>1, <3>0, <3>1
    <3>5. FirstRead(Len(seen))' /\ (Len(seen) = Consumption(User))'
      BY <3>3, <3>4
    <3> QED
      BY <1>4, <1>7, <1>10, <2>1, <3>5 DEF PassInv
  <2>2. CASE f = NULL /\ User.handle
    <3>0. PICK k \in Nat : k = Len(seen)
      BY <1>8
    <3>1. FirstRead(k) /\ k = Consumption(User) /\ x = NULL
      BY <1>2, <1>5, <2>2, <3>0 DEF PassInv
    <3>2. k = w.pos /\ w.pos \in 0..Len(directory)
      BY <1>4, <1>8, <2>2, <3>1 DEF Consumption, One, OpenStreams
    <3>3. FirstRead(k)'
      BY <1>1, <1>2, <1>5, <1>7, <1>8, <3>0, <3>1, ReadOne
    <3>4. k <= Len(seen') /\ (w.cut \/ k = Len(directory)) /\ k \in 0..Len(directory)
      BY <1>4, <1>8, <1>9, <2>2, <3>0, <3>2
    <3> QED
      BY <1>1, <1>4, <1>7, <1>10, <2>2, <3>3, <3>4 DEF PassInv
  <2>3. CASE f = NULL /\ ~User.handle
    <3>1. PICK k \in 0..Len(directory) : k <= Len(seen) /\ FirstRead(k)
                                         /\ (User.cut \/ k = Len(directory))
      BY <1>1, <1>2, <2>3 DEF PassInv
    <3>2. k \in Nat /\ x = NULL
      BY <1>5, <1>8, <2>3
    <3>3. FirstRead(k)'
      BY <1>1, <1>2, <1>5, <1>7, <3>1, <3>2, ReadOne
    <3>4. k <= Len(seen') /\ w = User
      BY <1>4, <1>8, <1>9, <2>3, <3>1, <3>2
    <3> QED
      BY <1>1, <1>4, <1>7, <1>10, <2>3, <3>1, <3>3, <3>4 DEF PassInv
  <2> QED
    BY <2>1, <2>2, <2>3
<1>14. errno' \in Errors
  BY <1>1, <1>2
<1> QED
  BY <1>1, <1>3, <1>4, <1>6, <1>9, <1>13, <1>14, UserMoves

(* rewinddir begins a pass anew, or ends it with an error. *)
LEMMA RewindDirSound ==
  ASSUME IInv, NEW ok \in BOOLEAN, RewindDir(ok)
  PROVE  IInv'
<1> DEFINE w == stream'["user"]
<1>1. /\ pc = "idle" /\ calls < MaxCalls /\ calls' = calls + 1 /\ User.wdirp
      /\ dirent_first("user", ok)
      /\ searches' = [searches EXCEPT !["user"] = @ - (IF User.handle THEN 1 ELSE 0)
                                      + IF w.handle THEN 1 ELSE 0]
      /\ seen' = <<>>
      /\ UNCHANGED <<directory, pc, at, heap, scan, handed, lost>>
  BY DEF RewindDir, Call
<1>2. /\ Typed /\ PassInv /\ User \in OpenStreams /\ User = stream["user"]
      /\ stream \in [Streams -> OpenStreams]
      /\ (Open(User) \/ Shut(User))
      /\ searches["user"] = One(User.handle) /\ searches \in [Streams -> Nat]
      /\ "user" \in Streams /\ directory \in Seq(Files)
  BY <1>1, BetweenCalls
<1>3. Open(User)
  BY <1>1, <1>2 DEF Shut
<1>4. /\ w \in OpenStreams /\ stream' = [stream EXCEPT !["user"] = w] /\ SearchSound(w)
      /\ w.wide = User.wide /\ w.dirp = User.dirp /\ w.wdirp = User.wdirp
      /\ w.patt = User.patt
      /\ w.handle => w.pos = 1 /\ w.cached
      /\ errno' \in Errors
  BY <1>1, <1>2, FirstFacts
<1>5. ~w.handle => w.cut
  BY <1>1, <1>2 DEF dirent_first, OpenStreams
<1> HIDE DEF w
<1>6. searches' = [searches EXCEPT !["user"] = One(w.handle)]
  BY <1>1, <1>2 DEF One
<1>7. User' = w
  BY DEF User, w
<1>8. seen' \in Seq(DirEntries \cup {NULL}) /\ Len(seen') = 0 /\ DOMAIN seen' = {}
  BY <1>1
<1>9. PassInv'
  <2>1. \A k : FirstRead(k)'
    BY <1>8 DEF FirstRead
  <2>2. w.handle => Consumption(User)' = 0
    BY <1>4, <1>7 DEF Consumption, One
  <2>3. 0 \in 0..Len(directory') /\ 0 <= Len(seen')
    BY <1>1, <1>2, <1>8
  <2> QED
    BY <1>1, <1>5, <1>7, <1>8, <2>1, <2>2, <2>3 DEF PassInv
<1> QED
  BY <1>1, <1>3, <1>4, <1>6, <1>8, <1>9, UserMoves

(* What a file shows as is an entry, and its name is one to compare. *)
LEMMA EntriesAre ==
  ASSUME Typed
  PROVE  Entries \subseteq DirEntries /\ (\A e \in Entries : e.d_name \in Int)
         /\ AllNames \subseteq Int
<1>1. directory \in Seq(Files) /\ stream["user"] \in OpenStreams
  BY DEF Typed, Streams
<1>2. \A i \in DOMAIN directory : directory[i] \in Files
  BY <1>1
<1>3. \A f \in Files : dirent(f) \in DirEntries
  BY <1>1, EntryShows
<1>4. \A e \in DirEntries : e.d_name \in Int
  BY DEF DirEntries
<1> QED
  BY <1>2, <1>3, <1>4 DEF Entries, AllNames

(* scandir begins, with its locals reset and no list to be freed. *)
LEMMA CallScandirSound ==
  ASSUME IInv, NEW hidden, NEW namelist \in BOOLEAN,
         CallScandir(AllNames \ {hidden}, namelist)
  PROVE  IInv'
<1> DEFINE filter == AllNames \ {hidden}
<1>1. /\ pc = "idle" /\ calls < MaxCalls /\ calls' = calls + 1 /\ handed = NULL
      /\ at' = "scan" /\ scan' = [NoScan EXCEPT !.filter = filter, !.namelist = namelist]
      /\ pc' \in {"alloc_dir", "no_dir"} /\ errno' \in {errno, "ENOENT"}
      /\ UNCHANGED <<directory, stream, heap, searches, seen, handed, lost>>
  BY DEF CallScandir, Call
<1>2. /\ Typed /\ StreamsInv /\ PassInv /\ ScanInv /\ Balance
      /\ stream \in [Streams -> OpenStreams]
      /\ (Open(User) \/ Shut(User))
      /\ Shut(Scan) /\ ~Scan.wide /\ scan = NoScan
      /\ calls \in 0..MaxCalls /\ MaxCalls \in Nat /\ directory \in Seq(Files)
      /\ "scan" \in Streams
  BY <1>1, BetweenCalls
<1>3. filter \in SUBSET Int
  BY <1>2, EntriesAre
<1> HIDE DEF filter
<1>4. /\ scan' \in Scans /\ ~scan'.dir /\ ~scan'.table /\ scan'.files = <<>>
      /\ scan'.allocated = 0 /\ ~scan'.tmp /\ scan'.result = 0
      /\ ~NoScan.table /\ ~NoScan.tmp /\ NoScan.files = <<>>
  <2>1. <<>> \in Seq(Entries) /\ {} \in SUBSET Int
    OBVIOUS
  <2>2. /\ NoScan \in Scans /\ ~NoScan.dir /\ ~NoScan.table /\ NoScan.files = <<>>
        /\ NoScan.allocated = 0 /\ ~NoScan.tmp /\ NoScan.result = 0
    BY <2>1 DEF NoScan, Scans
  <2> QED
    BY <1>1, <1>3, <2>2 DEF Scans
<1>5. User' = User /\ Scan' = Scan /\ Len(directory) \in Nat
  BY <1>1, <1>2 DEF User, Scan
<1>6. Typed'
  <2>1. OpenStreams' = OpenStreams /\ Entries' = Entries /\ Scans' = Scans
    BY <1>1 DEF OpenStreams, Entries, Scans
  <2>2. calls' \in 0..MaxCalls
    BY <1>1, <1>2
  <2>3. pc' \in Places
    BY <1>1 DEF Places, Opening
  <2> QED
    BY <1>1, <1>2, <1>4, <2>1, <2>2, <2>3 DEF Typed
<1>7. StreamsInv'
  <2>1. PartsAt(stream'[at'], pc')
    <3>1. stream'[at'] = Scan
      BY <1>1 DEF Scan
    <3> QED
      BY <1>1, <1>2, <3>1 DEF PartsAt, Reading
  <2>2. \A s \in Streams : SearchSound(stream'[s])
    BY <1>1, <1>2 DEF StreamsInv
  <2> QED
    BY <1>1, <1>2, <1>5, <2>1, <2>2 DEF StreamsInv
<1>8. PassInv'
  BY <1>1, <1>2, <1>5, PassKept
<1>9. ScanInv'
  <2>1. /\ pc' \in Opening \cup {"no_dir"} /\ pc' \notin Reading \cup Closing
        /\ pc' \notin {"idle", "temporary", "read", "release", "hand_over"}
    BY <1>1 DEF Opening, Reading, Closing
  <2>2. Len(scan'.files) = 0
    BY <1>4
  <2> QED
    BY <1>1, <1>4, <1>5, <2>1, <2>2 DEF ScanInv
<1>10. Balance'
  BY <1>1, <1>2, <1>4, <1>5 DEF Balance
<1> QED
  BY <1>6, <1>7, <1>8, <1>9, <1>10 DEF IInv

(* The program frees its list. *)
LEMMA FreeNamelistSound ==
  ASSUME IInv, FreeNamelist
  PROVE  IInv'
<1>1. /\ pc = "idle" /\ handed # NULL /\ handed' = NULL
      /\ heap' = [heap EXCEPT !["dirent"] = @ - Len(handed.files),
                              !["table"] = @ - IF handed.table THEN 1 ELSE 0]
      /\ UNCHANGED <<directory, pc, at, stream, searches, errno, scan, calls, seen, lost>>
  BY DEF FreeNamelist
<1>2. /\ Typed /\ StreamsInv /\ PassInv /\ ScanInv /\ Balance
      /\ heap \in [Kinds -> Nat] /\ scan = NoScan
  BY <1>1, BetweenCalls
<1>3. /\ handed \in Lists /\ Len(handed.files) \in Nat /\ handed.table \in BOOLEAN
      /\ scan.table \in BOOLEAN /\ scan.tmp \in BOOLEAN /\ Len(scan.files) \in Nat
      /\ lost.tables \in Nat /\ lost.entries \in Nat
  BY <1>1, <1>2 DEF Typed, Lists, Scans
<1>4. /\ heap'["DIR"] = heap["DIR"] /\ heap'["_WDIR"] = heap["_WDIR"]
      /\ heap'["patt"] = heap["patt"]
      /\ heap'["table"] = One(scan.table) + lost.tables
      /\ heap'["dirent"] = One(scan.tmp) + Len(scan.files) + lost.entries
      /\ heap' \in [Kinds -> Int]
  <2>1. /\ heap["table"] = One(scan.table) + One(handed.table) + lost.tables
        /\ heap["dirent"] = One(scan.tmp) + Len(scan.files) + Len(handed.files) + lost.entries
    BY <1>1, <1>2 DEF Balance
  <2>2. One(handed.table) = IF handed.table THEN 1 ELSE 0
    BY <1>3 DEF One
  <2>3. One(scan.table) \in Nat /\ One(scan.tmp) \in Nat /\ One(handed.table) \in Nat
    BY DEF One
  <2>4. Len(handed.files) \in Int /\ (IF handed.table THEN 1 ELSE 0) \in Int
    BY <1>3
  <2>5. heap' \in [Kinds -> Int]
    BY <1>1, <1>2, <2>4 DEF Kinds
  <2>6. /\ heap'["DIR"] = heap["DIR"] /\ heap'["_WDIR"] = heap["_WDIR"]
        /\ heap'["patt"] = heap["patt"]
        /\ heap'["table"] = heap["table"] - (IF handed.table THEN 1 ELSE 0)
        /\ heap'["dirent"] = heap["dirent"] - Len(handed.files)
    BY <1>1, <1>2 DEF Kinds
  <2>7. heap'["table"] = One(scan.table) + lost.tables
    <3>1. heap'["table"] = heap["table"] - One(handed.table)
      BY <2>2, <2>6
    <3> QED
      BY <1>3, <2>1, <2>3, <3>1
  <2>8. heap'["dirent"] = One(scan.tmp) + Len(scan.files) + lost.entries
    BY <1>3, <2>1, <2>3, <2>6
  <2> QED
    BY <2>5, <2>6, <2>7, <2>8
<1>5. heap' \in [Kinds -> Nat]
  <2>1. \A b : One(b) \in Nat
    BY DEF One
  <2>2. heap'["table"] \in Nat
    BY <1>3, <1>4, <2>1
  <2>3. heap'["dirent"] \in Nat
    BY <1>3, <1>4, <2>1
  <2> QED
    BY <1>2, <1>4, <2>2, <2>3 DEF Kinds
<1>6. User' = User /\ Scan' = Scan
  BY <1>1 DEF User, Scan
<1>7. Typed'
  <2>1. OpenStreams' = OpenStreams /\ Entries' = Entries /\ Scans' = Scans
    BY <1>1 DEF OpenStreams, Entries, Scans
  <2> QED
    BY <1>1, <1>2, <1>5, <2>1 DEF Typed
<1>8. StreamsInv'
  BY <1>1, <1>2, <1>6 DEF StreamsInv
<1>9. PassInv'
  <2>1. pc' \notin Opening
    BY <1>1 DEF Opening
  <2> QED
    BY <1>1, <1>2, <1>6, <2>1, PassKept
<1>10. ScanInv'
  BY <1>1, <1>2, ScanQuiet
<1>11. Balance'
  <2>0. \A b : One(b) \in Nat
    BY DEF One
  <2>1. One(scan.table) \in Nat /\ One(scan.tmp) + Len(scan.files) \in Nat
    BY <1>3, <2>0
  <2>2. /\ heap'["table"] = One(scan.table) + 0 + lost.tables
        /\ heap'["dirent"] = One(scan.tmp) + Len(scan.files) + 0 + lost.entries
    BY <1>3, <1>4, <2>1
  <2> QED
    BY <1>1, <1>2, <1>4, <1>6, <2>2 DEF Balance
<1> QED
  BY <1>5, <1>7, <1>8, <1>9, <1>10, <1>11 DEF IInv

-----------------------------------------------------------------------------
(* scandir *)

(* Where scandir is in the middle of its work: no list is the program's,   *)
(* and the blocks of the list are its own.                                 *)
LEMMA ScanFacts ==
  ASSUME IInv, pc \in Reading \cup {"no_dir", "release", "hand_over"}
  PROVE  /\ at = "scan" /\ handed = NULL /\ pc # "idle"
         /\ Typed /\ StreamsInv /\ PassInv /\ ScanInv /\ Balance
         /\ scan \in Scans /\ heap \in [Kinds -> Nat] /\ stream \in [Streams -> OpenStreams]
         /\ searches \in [Streams -> Nat] /\ directory \in Seq(Files)
         /\ Len(directory) \in Nat /\ Len(scan.files) \in Nat
         /\ heap["table"] = One(scan.table) + lost.tables
         /\ heap["dirent"] = One(scan.tmp) + Len(scan.files) + lost.entries
         /\ (Open(User) \/ Shut(User)) /\ SearchSound(Scan) /\ ~Scan.wide
         /\ PartsAt(Scan, pc) /\ Scan = stream["scan"] /\ Scan \in OpenStreams
         /\ searches["scan"] = One(Scan.handle)
         /\ lost.tables \in Nat /\ lost.entries \in Nat
<1>1. Typed /\ StreamsInv /\ PassInv /\ ScanInv /\ Balance
  BY DEF IInv
<1>2. pc \notin {"idle"} \cup Opening \cup Closing
  BY DEF Reading, Opening, Closing
<1>3. /\ scan \in Scans /\ heap \in [Kinds -> Nat] /\ stream \in [Streams -> OpenStreams]
      /\ searches \in [Streams -> Nat] /\ directory \in Seq(Files)
  BY <1>1 DEF Typed
<1>4. at = "scan"
  BY <1>1, <1>2 DEF StreamsInv, Typed, Streams
<1>5. handed = NULL
  BY <1>1, <1>2, <1>4 DEF ScanInv
<1>6. Len(directory) \in Nat /\ Len(scan.files) \in Nat
  BY <1>3 DEF Scans
<1>10. lost.tables \in Nat /\ lost.entries \in Nat
  BY <1>1 DEF Typed
<1>7. /\ heap["table"] = One(scan.table) + lost.tables
      /\ heap["dirent"] = One(scan.tmp) + Len(scan.files) + lost.entries
  BY <1>1, <1>5, <1>6, <1>10 DEF Balance, One
<1>8. /\ (Open(User) \/ Shut(User)) /\ SearchSound(Scan) /\ ~Scan.wide
      /\ PartsAt(Scan, pc) /\ Scan = stream["scan"]
      /\ searches["scan"] = One(Scan.handle)
  BY <1>1, <1>2, <1>4 DEF StreamsInv, Scan, Streams, Balance
<1>9. Scan \in OpenStreams
  BY <1>3 DEF Scan, Streams
<1> QED
  BY <1>1, <1>2, <1>3, <1>4, <1>5, <1>6, <1>7, <1>8, <1>9, <1>10

\* The blocks of scandir's list, when it has these locals and the heap that.
OwnBlocks(h, sc) == /\ h["table"] = One(sc.table) + lost.tables
                    /\ h["dirent"] = One(sc.tmp) + Len(sc.files) + lost.entries

(* A step of scandir that does not touch a stream. *)
LEMMA LocalStep ==
  ASSUME IInv, pc \in Reading \cup {"no_dir", "release"}, NEW p \in Places \ {"idle"},
         pc' = p, PartsAt(Scan, p),
         p = "release" => IF scan'.dir THEN Open(Scan) ELSE Shut(Scan),
         scan' \in Scans,
         heap' \in [Kinds -> Int],
         \A k \in Kinds \ {"table", "dirent"} : heap'[k] = heap[k],
         OwnBlocks(heap', scan'),
         UNCHANGED <<directory, at, stream, searches, errno, calls, seen, handed, lost>>,
         ScanInv'
  PROVE  IInv'
<1>1. /\ at = "scan" /\ handed = NULL /\ pc # "idle"
      /\ Typed /\ StreamsInv /\ PassInv /\ Balance
      /\ heap \in [Kinds -> Nat]
      /\ (Open(User) \/ Shut(User)) /\ ~Scan.wide /\ Scan = stream["scan"]
      /\ lost.tables \in Nat /\ lost.entries \in Nat
  BY ScanFacts
<1>2. User' = User /\ Scan' = Scan
  BY DEF User, Scan
<1>3. Len(scan'.files) \in Nat /\ \A b : One(b) \in Nat
  BY DEF Scans, One
<1>4. heap' \in [Kinds -> Nat]
  <2>0. One(scan'.table) \in Nat /\ One(scan'.tmp) \in Nat
    BY <1>3
  <2>1. heap'["table"] \in Nat /\ heap'["dirent"] \in Nat
    BY <1>1, <1>3, <2>0 DEF OwnBlocks
  <2>2. \A k \in Kinds : heap'[k] \in Nat
    BY <1>1, <2>1 DEF Kinds
  <2> QED
    BY <2>2
<1>5. Typed'
  <2>1. OpenStreams' = OpenStreams /\ Entries' = Entries /\ Scans' = Scans
    BY DEF OpenStreams, Entries, Scans
  <2> QED
    BY <1>1, <1>4, <2>1 DEF Typed
<1>6. StreamsInv'
  BY <1>1, <1>2 DEF StreamsInv
<1>7. PassInv'
  BY <1>1, <1>2, PassKept
<1>8. Balance'
  <2>1. /\ heap'["DIR"] = heap["DIR"] /\ heap'["_WDIR"] = heap["_WDIR"]
        /\ heap'["patt"] = heap["patt"]
    BY DEF Kinds
  <2>2. One(scan'.table) \in Nat /\ One(scan'.tmp) \in Nat
    BY <1>3
  <2>3. /\ heap'["table"] = One(scan'.table) + 0 + lost.tables
        /\ heap'["dirent"] = One(scan'.tmp) + Len(scan'.files) + 0 + lost.entries
    BY <1>1, <1>3, <2>2 DEF OwnBlocks
  <2> QED
    BY <1>1, <1>2, <2>1, <2>3 DEF Balance
<1> QED
  BY <1>5, <1>6, <1>7, <1>8 DEF IInv

(* A table that is full grows, or scandir fails. *)
LEMMA GrowTableSound ==
  ASSUME IInv, NEW ok \in BOOLEAN, GrowTable(ok)
  PROVE  IInv'
<1> DEFINE full == TableFull(Len(scan.files), scan.allocated)
<1>1. /\ pc = "grow"
      /\ ~full => pc' = "temporary" /\ UNCHANGED <<scan, heap>>
      /\ full => heap' = [heap EXCEPT !["table"] = IF ok /\ ~scan.table THEN @ + 1 ELSE @]
      /\ full /\ ok => /\ scan' = [scan EXCEPT !.table = TRUE,
                                      !.allocated = NumEntries(Len(scan.files))]
                       /\ pc' = "temporary"
      /\ full /\ ~ok => scan' = ScanFails(scan) /\ pc' = "release"
      /\ UNCHANGED <<directory, at, stream, searches, errno, calls, seen, handed, lost>>
  BY DEF GrowTable
<1>2. "grow" \in Reading /\ "temporary" \in Reading /\ "release" \notin Reading
  BY DEF Reading
<1>3. /\ at = "scan" /\ handed = NULL
      /\ Typed /\ ScanInv
      /\ scan \in Scans /\ heap \in [Kinds -> Nat]
      /\ Len(directory) \in Nat /\ Len(scan.files) \in Nat
      /\ heap["table"] = One(scan.table) + lost.tables
      /\ heap["dirent"] = One(scan.tmp) + Len(scan.files) + lost.entries
      /\ PartsAt(Scan, "grow") /\ lost.tables \in Nat /\ lost.entries \in Nat
  BY <1>1, <1>2, ScanFacts
<1>4. /\ scan.dir /\ scan.result = Len(scan.files)
      /\ Len(scan.files) <= Consumption(Scan)
      /\ Tally(scan.files, scan.filter, Consumption(Scan))
      /\ Len(scan.files) <= scan.allocated /\ Len(scan.files) <= Len(directory)
      /\ Open(Scan) /\ Scan.handle
  BY <1>1, <1>2, <1>3 DEF ScanInv, PartsAt
<1>5. scan.allocated \in Nat /\ scan.table \in BOOLEAN /\ scan.tmp \in BOOLEAN
  BY <1>3 DEF Scans
<1> HIDE DEF full
<1>6. Scan' = Scan
  BY <1>1 DEF Scan
<1>7. /\ pc' \in {"temporary", "release"} /\ pc' \in Places \ {"idle"}
      /\ PartsAt(Scan, pc')
  BY <1>1, <1>2, <1>4 DEF PartsAt, Places, Opening, Closing
<1>8. /\ scan' \in Scans /\ scan'.dir /\ scan'.files = scan.files /\ scan'.tmp = scan.tmp
      /\ scan'.filter = scan.filter
      /\ One(scan'.table) + lost.tables = heap'["table"]
      /\ Len(scan.files) <= scan'.allocated
      /\ pc' = "temporary" => scan'.result = scan.result /\ Len(scan.files) < scan'.allocated
      /\ pc' = "release" => scan'.result = -1
  <2>1. CASE ~full
    <3>1. Len(scan.files) < scan.allocated
      BY <1>3, <1>5, <2>1 DEF TableFull, full
    <3> QED
      BY <1>1, <1>3, <1>4, <2>1, <3>1
  <2>2. CASE full /\ ok
    <3>1. NumEntries(Len(scan.files)) \in Nat /\ Len(scan.files) < NumEntries(Len(scan.files))
      BY <1>3 DEF NumEntries
    <3>2. /\ scan' \in Scans /\ scan'.table = TRUE
          /\ scan'.allocated = NumEntries(Len(scan.files))
          /\ scan'.dir = scan.dir /\ scan'.files = scan.files /\ scan'.tmp = scan.tmp
          /\ scan'.filter = scan.filter /\ scan'.result = scan.result
      BY <1>1, <1>3, <2>2, <3>1 DEF Scans
    <3>3. One(scan'.table) + lost.tables = heap'["table"]
      BY <1>1, <1>3, <1>5, <2>2, <3>2 DEF One, Kinds
    <3> QED
      BY <1>1, <1>3, <1>4, <2>2, <3>1, <3>2, <3>3
  <2>3. CASE full /\ ~ok
    <3>1. /\ scan' \in Scans /\ scan'.result = -1 /\ scan'.table = scan.table
          /\ scan'.allocated = scan.allocated
          /\ scan'.dir = scan.dir /\ scan'.files = scan.files /\ scan'.tmp = scan.tmp
          /\ scan'.filter = scan.filter
      BY <1>1, <1>3, <2>3 DEF Scans, ScanFails
    <3>2. heap'["table"] = heap["table"]
      BY <1>1, <1>3, <2>3 DEF Kinds
    <3> QED
      BY <1>1, <1>3, <1>4, <2>3, <3>1, <3>2
  <2> QED
    BY <2>1, <2>2, <2>3
<1>9. /\ heap' \in [Kinds -> Int]
      /\ \A k \in Kinds \ {"table", "dirent"} : heap'[k] = heap[k]
      /\ OwnBlocks(heap', scan')
  BY <1>1, <1>3, <1>8 DEF Kinds, OwnBlocks
<1>10. ScanInv'
  <2>1. Entries' = Entries /\ Consumption(Scan)' = Consumption(Scan)
    BY <1>1, <1>6 DEF Entries, Consumption
  <2>2. Tally(scan.files, scan.filter, Consumption(Scan))'
    BY <1>1, <1>4, <1>8, <2>1 DEF Tally, Passing
  <2>3. -1 <= scan'.result /\ scan'.result <= Len(directory)
    BY <1>3, <1>4, <1>7, <1>8
  <2>4. pc' \notin Opening \cup Closing \cup {"no_dir", "hand_over", "read", "idle"}
    BY <1>7 DEF Opening, Closing
  <2>5. pc' \in Reading \cup {"release"} /\ (pc' \in Reading => pc' = "temporary")
    BY <1>2, <1>7
  <2> QED
    BY <1>1, <1>3, <1>4, <1>6, <1>7, <1>8, <2>1, <2>2, <2>3, <2>4, <2>5 DEF ScanInv
<1>11. pc' = "release" => IF scan'.dir THEN Open(Scan) ELSE Shut(Scan)
  BY <1>4, <1>8
<1> QED
  BY <1>1, <1>2, <1>7, <1>8, <1>9, <1>10, <1>11, LocalStep

(* There is a temporary entry for the next file, or scandir fails. *)
LEMMA AllocTemporarySound ==
  ASSUME IInv, NEW ok \in BOOLEAN, AllocTemporary(ok)
  PROVE  IInv'
<1>1. /\ pc = "temporary"
      /\ heap' = [heap EXCEPT !["dirent"] = IF ok /\ ~scan.tmp THEN @ + 1 ELSE @]
      /\ scan' = IF scan.tmp \/ ok THEN [scan EXCEPT !.tmp = TRUE] ELSE ScanFails(scan)
      /\ pc' = IF scan.tmp \/ ok THEN "read" ELSE "release"
      /\ UNCHANGED <<directory, at, stream, searches, errno, calls, seen, handed, lost>>
  BY DEF AllocTemporary, Allocated
<1>2. "temporary" \in Reading /\ "read" \in Reading /\ "release" \notin Reading
  BY DEF Reading
<1>3. /\ at = "scan" /\ handed = NULL
      /\ Typed /\ ScanInv
      /\ scan \in Scans /\ heap \in [Kinds -> Nat]
      /\ Len(directory) \in Nat /\ Len(scan.files) \in Nat
      /\ heap["table"] = One(scan.table) + lost.tables
      /\ heap["dirent"] = One(scan.tmp) + Len(scan.files) + lost.entries
      /\ PartsAt(Scan, "temporary") /\ lost.tables \in Nat /\ lost.entries \in Nat
  BY <1>1, <1>2, ScanFacts
<1>4. /\ scan.dir /\ scan.result = Len(scan.files)
      /\ Len(scan.files) <= Consumption(Scan)
      /\ Tally(scan.files, scan.filter, Consumption(Scan))
      /\ Len(scan.files) < scan.allocated /\ Len(scan.files) <= scan.allocated
      /\ Len(scan.files) <= Len(directory)
      /\ Open(Scan) /\ Scan.handle
  BY <1>1, <1>2, <1>3 DEF ScanInv, PartsAt
<1>5. scan.tmp \in BOOLEAN
  BY <1>3 DEF Scans
<1>6. Scan' = Scan
  BY <1>1 DEF Scan
<1>7. /\ pc' \in {"read", "release"} /\ pc' \in Places \ {"idle"}
      /\ PartsAt(Scan, pc')
  BY <1>1, <1>2, <1>4 DEF PartsAt, Places, Opening, Closing
<1>8. /\ scan' \in Scans /\ scan'.dir /\ scan'.files = scan.files
      /\ scan'.table = scan.table /\ scan'.allocated = scan.allocated
      /\ scan'.filter = scan.filter
      /\ heap'["dirent"] = One(scan'.tmp) + Len(scan.files) + lost.entries
      /\ pc' = "read" => scan'.result = scan.result /\ scan'.tmp
      /\ pc' = "release" => scan'.result = -1
  <2>1. CASE scan.tmp \/ ok
    <3>1. /\ scan' \in Scans /\ scan'.tmp = TRUE /\ scan'.table = scan.table
          /\ scan'.allocated = scan.allocated
          /\ scan'.dir = scan.dir /\ scan'.files = scan.files
          /\ scan'.filter = scan.filter /\ scan'.result = scan.result
      BY <1>1, <1>3, <2>1 DEF Scans
    <3>2. heap'["dirent"] = 1 + Len(scan.files) + lost.entries
      <4>1. CASE scan.tmp
        BY <1>1, <1>3, <4>1 DEF One, Kinds
      <4>2. CASE ~scan.tmp
        BY <1>1, <1>3, <2>1, <4>2 DEF One, Kinds
      <4> QED
        BY <4>1, <4>2
    <3>3. One(scan'.tmp) = 1
      BY <3>1 DEF One
    <3> QED
      BY <1>1, <1>4, <2>1, <3>1, <3>2, <3>3
  <2>2. CASE ~(scan.tmp \/ ok)
    <3>1. /\ scan' \in Scans /\ scan'.tmp = scan.tmp /\ scan'.table = scan.table
          /\ scan'.allocated = scan.allocated
          /\ scan'.dir = scan.dir /\ scan'.files = scan.files
          /\ scan'.filter = scan.filter /\ scan'.result = -1
      <4>1. scan' = [scan EXCEPT !.result = -1] /\ scan \in Scans
        BY <1>1, <1>3, <2>2 DEF ScanFails
      <4> QED
        BY <4>1 DEF Scans
    <3>2. heap'["dirent"] = heap["dirent"]
      BY <1>1, <1>3, <2>2 DEF Kinds
    <3> QED
      BY <1>1, <1>3, <1>4, <2>2, <3>1, <3>2
  <2> QED
    BY <2>1, <2>2
<1>9. /\ heap' \in [Kinds -> Int]
      /\ \A k \in Kinds \ {"table", "dirent"} : heap'[k] = heap[k]
      /\ OwnBlocks(heap', scan')
  <2>1. heap' \in [Kinds -> Int]
    <3> DEFINE n == IF ok /\ ~scan.tmp THEN heap["dirent"] + 1 ELSE heap["dirent"]
    <3>1. heap \in [Kinds -> Nat] /\ heap' = [heap EXCEPT !["dirent"] = n]
      BY <1>1, <1>3
    <3>2. heap["dirent"] \in Nat
      BY <3>1 DEF Kinds
    <3>3. n \in Int
      BY <3>2
    <3>4. heap \in [Kinds -> Int]
      BY <3>1
    <3> HIDE DEF n
    <3> QED
      BY <3>1, <3>3, <3>4
  <2>2. \A k \in Kinds \ {"dirent"} : heap'[k] = heap[k]
    BY <1>1, <1>3
  <2>3. "table" \in Kinds \ {"dirent"}
    BY DEF Kinds
  <2> QED
    BY <1>3, <1>8, <2>1, <2>2, <2>3 DEF OwnBlocks
<1>10. ScanInv'
  <2>1. Entries' = Entries /\ Consumption(Scan)' = Consumption(Scan)
    BY <1>1, <1>6 DEF Entries, Consumption
  <2>2. Tally(scan.files, scan.filter, Consumption(Scan))'
    BY <1>1, <1>4, <1>8, <2>1 DEF Tally, Passing
  <2>3. -1 <= scan'.result /\ scan'.result <= Len(directory)
    BY <1>3, <1>4, <1>7, <1>8
  <2>4. pc' \notin Opening \cup Closing \cup {"no_dir", "hand_over", "temporary", "idle"}
    BY <1>7 DEF Opening, Closing
  <2>5. pc' \in Reading \cup {"release"} /\ (pc' \in Reading => pc' = "read")
    BY <1>2, <1>7
  <2> QED
    BY <1>1, <1>3, <1>4, <1>6, <1>7, <1>8, <2>1, <2>2, <2>3, <2>4, <2>5 DEF ScanInv
<1>11. pc' = "release" => IF scan'.dir THEN Open(Scan) ELSE Shut(Scan)
  BY <1>4, <1>8
<1> QED
  BY <1>1, <1>2, <1>7, <1>8, <1>9, <1>10, <1>11, LocalStep

(* scandir has no directory. *)
LEMMA NoDirSound ==
  ASSUME IInv, NoDir
  PROVE  IInv'
<1>1. /\ pc = "no_dir" /\ pc' = "release" /\ scan' = ScanFails(scan)
      /\ UNCHANGED <<directory, at, stream, heap, searches, errno, calls, seen, handed, lost>>
  BY DEF NoDir
<1>2. /\ at = "scan" /\ handed = NULL
      /\ Typed /\ ScanInv
      /\ scan \in Scans /\ heap \in [Kinds -> Nat]
      /\ Len(directory) \in Nat /\ Len(scan.files) \in Nat
      /\ heap["table"] = One(scan.table) + lost.tables
      /\ heap["dirent"] = One(scan.tmp) + Len(scan.files) + lost.entries
      /\ PartsAt(Scan, "no_dir") /\ lost.tables \in Nat /\ lost.entries \in Nat
  BY <1>1, ScanFacts
<1>3. /\ scan' \in Scans /\ scan'.dir = scan.dir /\ scan'.files = scan.files
      /\ scan'.table = scan.table /\ scan'.allocated = scan.allocated
      /\ scan'.tmp = scan.tmp /\ scan'.result = -1
  <2>1. scan \in Scans /\ scan' = [scan EXCEPT !.result = -1]
    BY <1>1, <1>2 DEF ScanFails
  <2> QED
    BY <2>1 DEF Scans
<1>4. ~scan.dir /\ Shut(Scan)
  BY <1>1, <1>2 DEF ScanInv, PartsAt, Reading, Closing
<1>5. "release" \notin Opening \cup Closing \cup Reading /\ "release" \in Places \ {"idle"}
  BY DEF Opening, Closing, Reading, Places
<1>6. PartsAt(Scan, "release")
  BY <1>5 DEF PartsAt
<1>7. ScanInv'
  <2>1. Len(scan.files) <= scan.allocated /\ Len(scan.files) <= Len(directory)
    BY <1>2 DEF ScanInv
  <2> QED
    BY <1>1, <1>2, <1>3, <1>4, <1>5, <2>1 DEF ScanInv
<1>8. /\ heap' \in [Kinds -> Int]
      /\ \A k \in Kinds \ {"table", "dirent"} : heap'[k] = heap[k]
      /\ OwnBlocks(heap', scan')
  BY <1>1, <1>2, <1>3 DEF OwnBlocks
<1> QED
  BY <1>1, <1>3, <1>4, <1>5, <1>6, <1>7, <1>8, LocalStep

(* What is not to be handed over is freed: all of it after an error.       *)
LEMMA ReleaseMemorySound ==
  ASSUME IInv, ReleaseMemory
  PROVE  IInv'
<1> DEFINE n == (IF scan.tmp THEN 1 ELSE 0)
           l == IF scan.result < 0 THEN Len(scan.files) ELSE 0
           t == IF scan.result < 0 /\ scan.table THEN 1 ELSE 0
           p == IF scan.dir THEN "wclose" ELSE "hand_over"
<1>1. /\ pc = "release"
      /\ heap' = [heap EXCEPT !["dirent"] = @ - n - l, !["table"] = @ - t]
      /\ scan' = IF scan.result < 0
                   THEN [scan EXCEPT !.tmp = FALSE, !.table = FALSE, !.files = <<>>]
                   ELSE [scan EXCEPT !.tmp = FALSE]
      /\ pc' = p
      /\ UNCHANGED <<directory, at, stream, searches, errno, calls, seen, handed, lost>>
  BY DEF ReleaseMemory
<1>2. /\ at = "scan" /\ handed = NULL
      /\ Typed /\ ScanInv /\ StreamsInv
      /\ scan \in Scans /\ heap \in [Kinds -> Nat]
      /\ Len(directory) \in Nat /\ Len(scan.files) \in Nat
      /\ heap["table"] = One(scan.table) + lost.tables
      /\ heap["dirent"] = One(scan.tmp) + Len(scan.files) + lost.entries
      /\ ~Scan.wide /\ lost.tables \in Nat /\ lost.entries \in Nat
  BY <1>1, ScanFacts
<1>3. /\ IF scan.dir THEN Open(Scan) ELSE Shut(Scan)
      /\ scan.result = -1 \/ (scan.dir /\ ListExact(scan))
      /\ Len(scan.files) <= scan.allocated /\ Len(scan.files) <= Len(directory)
      /\ -1 <= scan.result /\ scan.result <= Len(directory)
  BY <1>1, <1>2 DEF ScanInv, StreamsInv
<1>4. /\ scan.tmp \in BOOLEAN /\ scan.table \in BOOLEAN /\ scan.result \in Int
      /\ scan.allocated \in Nat
  BY <1>2 DEF Scans
<1>5. n \in Int /\ l \in Int /\ t \in Int
  BY <1>2
<1>6. /\ p \in {"wclose", "hand_over"} /\ (p = "wclose" <=> scan.dir)
      /\ p \in Places \ {"idle"}
      /\ p \notin Opening \cup Reading \cup {"no_dir", "temporary", "read", "release"}
      /\ p \in Closing \cup {"hand_over"}
      /\ p = "hand_over" => p \notin Closing
  BY DEF Places, Closing, Opening, Reading
<1> HIDE DEF p
<1>7. PartsAt(Scan, p)
  BY <1>2, <1>3, <1>6 DEF PartsAt, Open, Reading
<1>8. /\ scan' \in Scans /\ scan'.dir = scan.dir /\ scan'.tmp = FALSE
      /\ scan'.result = scan.result /\ scan'.allocated = scan.allocated
      /\ scan'.filter = scan.filter /\ scan'.cut = scan.cut
      /\ scan.result < 0 => scan'.table = FALSE /\ scan'.files = <<>>
      /\ ~(scan.result < 0) => scan'.table = scan.table /\ scan'.files = scan.files
  <2>1. <<>> \in Seq(Entries)
    OBVIOUS
  <2>2. CASE scan.result < 0
    BY <1>1, <1>2, <2>1, <2>2 DEF Scans
  <2>3. CASE ~(scan.result < 0)
    BY <1>1, <1>2, <2>3 DEF Scans
  <2> QED
    BY <2>2, <2>3
<1>9. /\ heap' \in [Kinds -> Int]
      /\ \A k \in Kinds \ {"table", "dirent"} : heap'[k] = heap[k]
      /\ OwnBlocks(heap', scan')
  <2>1. heap["table"] - t = One(scan'.table) + lost.tables
    BY <1>2, <1>4, <1>8 DEF One
  <2>2. heap["dirent"] - n - l = One(scan'.tmp) + Len(scan'.files) + lost.entries
    <3>0. n \in Int
      BY <1>5
    <3>1. One(scan.tmp) = n /\ One(scan'.tmp) = 0
      BY <1>8 DEF One
    <3> HIDE DEF n
    <3>2. CASE scan.result < 0
      <4>1. Len(scan'.files) = 0 /\ l = Len(scan.files)
        BY <1>8, <3>2
      <4> QED
        BY <1>2, <3>0, <3>1, <4>1
    <3>3. CASE ~(scan.result < 0)
      <4>1. Len(scan'.files) = Len(scan.files) /\ l = 0
        BY <1>8, <3>3
      <4>2. /\ heap["dirent"] = n + Len(scan.files) + lost.entries
            /\ Len(scan.files) \in Nat /\ lost.entries \in Nat
        BY <1>2, <3>1
      <4> HIDE DEF l
      <4> QED
        BY <3>0, <3>1, <4>1, <4>2
    <3> QED
      BY <3>2, <3>3
  <2> DEFINE x == heap["table"] - t
             y == heap["dirent"] - n - l
  <2>3. x \in Int /\ y \in Int
    <3>1. heap["table"] \in Nat /\ heap["dirent"] \in Nat
      BY <1>2 DEF Kinds
    <3> HIDE DEF n, l, t
    <3> QED
      BY <1>5, <3>1
  <2>4. heap' = [heap EXCEPT !["dirent"] = y, !["table"] = x]
    BY <1>1
  <2>5. heap \in [Kinds -> Int] /\ "table" \in Kinds /\ "dirent" \in Kinds
    BY <1>2 DEF Kinds
  <2>6. /\ x = One(scan'.table) + lost.tables
        /\ y = One(scan'.tmp) + Len(scan'.files) + lost.entries
    BY <2>1, <2>2
  <2> HIDE DEF x, y
  <2> QED
    BY <2>3, <2>4, <2>5, <2>6 DEF OwnBlocks
<1>10. ListExact(scan')
  <2>1. CASE scan.result < 0
    BY <1>8, <2>1 DEF ListExact
  <2>2. CASE ~(scan.result < 0)
    <3>1. ListExact(scan)
      BY <1>3, <2>2
    <3> QED
      BY <1>8, <2>2, <3>1 DEF ListExact
  <2> QED
    BY <2>1, <2>2
<1>11. ScanInv'
  <2>1. Entries' = Entries
    BY <1>1 DEF Entries
  <2>2. ListExact(scan)'
    <3>1. directory' = directory
      BY <1>1
    <3> QED
      BY <1>10, <2>1, <3>1 DEF ListExact, Tally, Alphabetical, Passing
  <2>3. Len(scan'.files) <= scan'.allocated /\ Len(scan'.files) <= Len(directory)
    <3>1. Len(<<>>) = 0
      OBVIOUS
    <3> QED
      BY <1>2, <1>3, <1>4, <1>8, <3>1
  <2>4. pc' = p /\ directory' = directory /\ at' = "scan" /\ handed' = NULL
    BY <1>1, <1>2
  <2>5. p # "idle"
    BY <1>6
  <2> QED
    BY <1>2, <1>3, <1>6, <1>8, <2>2, <2>3, <2>4, <2>5 DEF ScanInv
<1>12. p # "release" /\ pc \in Reading \cup {"no_dir", "release"}
  BY <1>1, <1>6
<1> HIDE DEF n, l, t
<1> QED
  BY <1>1, <1>6, <1>7, <1>8, <1>9, <1>11, <1>12, LocalStep

(* scandir hands its list over and returns. *)
LEMMA HandOverSound ==
  ASSUME IInv, HandOver
  PROVE  IInv'
<1>1. /\ pc = "hand_over" /\ pc' = "idle" /\ scan' = NoScan
      /\ scan.namelist =>
           /\ handed' = [result |-> scan.result, table |-> scan.table, files |-> scan.files,
                         filter |-> scan.filter, cut |-> scan.cut]
           /\ lost' = lost
      /\ ~scan.namelist =>
           /\ lost' = [tables |-> lost.tables + IF scan.table THEN 1 ELSE 0,
                       entries |-> lost.entries + Len(scan.files)]
           /\ handed' = handed
      /\ UNCHANGED <<directory, at, stream, heap, searches, errno, calls, seen>>
  BY DEF HandOver
<1>2. /\ at = "scan" /\ handed = NULL
      /\ Typed /\ StreamsInv /\ PassInv /\ ScanInv /\ Balance
      /\ scan \in Scans /\ heap \in [Kinds -> Nat]
      /\ Len(directory) \in Nat /\ Len(scan.files) \in Nat
      /\ heap["table"] = One(scan.table) + lost.tables
      /\ heap["dirent"] = One(scan.tmp) + Len(scan.files) + lost.entries
      /\ (Open(User) \/ Shut(User)) /\ ~Scan.wide
      /\ PartsAt(Scan, "hand_over") /\ lost.tables \in Nat /\ lost.entries \in Nat
  BY <1>1, ScanFacts
<1>3. ~scan.tmp /\ ListExact(scan) /\ Shut(Scan)
  BY <1>1, <1>2 DEF ScanInv, PartsAt
<1>4. scan.namelist =>
        /\ handed'.result = scan.result /\ handed'.table = scan.table
        /\ handed'.files = scan.files /\ handed'.filter = scan.filter
        /\ handed'.cut = scan.cut
  BY <1>1
<1>5. IF scan.namelist
        THEN /\ handed' \in Lists /\ handed'.files \in Seq(Entries) /\ handed' # NULL
             /\ lost' = lost
        ELSE /\ handed' = NULL /\ lost' \in [tables : Nat, entries : Nat]
             /\ lost'.tables = lost.tables + One(scan.table)
             /\ lost'.entries = lost.entries + Len(scan.files)
  <2>4. CASE ~scan.namelist
    <3>1. /\ One(scan.table) = (IF scan.table THEN 1 ELSE 0)
          /\ (IF scan.table THEN 1 ELSE 0) \in Nat
      BY DEF One
    <3> QED
      BY <1>1, <1>2, <2>4, <3>1
  <2>1. scan.files \in Seq(Entries) /\ Entries \subseteq DirEntries
    BY <1>2, EntriesAre DEF Scans
  <2>2. scan.files \in Seq(DirEntries)
    BY <2>1
  <2>3. scan.namelist => handed' \in Lists
    BY <1>1, <1>2, <2>2 DEF Lists, Scans
  <2> QED
    BY <1>1, <1>4, <2>1, <2>3, <2>4, DirectoriesAssumption
<1>6. /\ NoScan \in Scans /\ ~NoScan.dir /\ ~NoScan.table /\ NoScan.files = <<>>
      /\ NoScan.allocated = 0 /\ ~NoScan.tmp /\ NoScan.result = 0
  <2>1. <<>> \in Seq(Entries) /\ {} \in SUBSET Int
    OBVIOUS
  <2> QED
    BY <2>1 DEF NoScan, Scans
<1>7. User' = User /\ Scan' = Scan
  BY <1>1 DEF User, Scan
<1>8. Typed'
  <2>1. OpenStreams' = OpenStreams /\ Entries' = Entries /\ Scans' = Scans
    BY <1>1 DEF OpenStreams, Entries, Scans
  <2>2. "idle" \in Places
    BY DEF Places
  <2>3. lost' \in [tables : Nat, entries : Nat]
    BY <1>2, <1>5 DEF Typed
  <2>4. handed' # NULL => handed' \in Lists /\ handed'.files \in Seq(Entries)
    BY <1>5
  <2> QED
    BY <1>1, <1>2, <1>6, <2>1, <2>2, <2>3, <2>4 DEF Typed
<1>9. StreamsInv'
  BY <1>1, <1>2, <1>3, <1>7 DEF StreamsInv
<1>10. PassInv'
  <2>1. "idle" \notin Opening
    BY DEF Opening
  <2> QED
    BY <1>1, <1>2, <1>7, <2>1, PassKept
<1>11. ScanInv'
  <2>1. Entries' = Entries
    BY <1>1 DEF Entries
  <2>2. handed' # NULL => ListExact(handed)'
    BY <1>1, <1>3, <1>4, <1>5, <2>1 DEF ListExact, Tally, Alphabetical, Passing
  <2>3. Len(scan'.files) = 0
    BY <1>1, <1>6
  <2>4. "idle" \notin Opening \cup Closing \cup Reading
    BY DEF Opening, Closing, Reading
  <2> QED
    BY <1>1, <1>2, <1>6, <2>2, <2>3, <2>4 DEF ScanInv
<1>12. Balance'
  <2>1. One(scan'.table) = 0 /\ One(scan'.tmp) = 0 /\ Len(scan'.files) = 0 /\ One(scan.tmp) = 0
    BY <1>1, <1>3, <1>6 DEF One
  <2>2. \A b : One(b) \in Nat
    BY DEF One
  <2>3. heap'["table"] = One(scan'.table)
                         + (IF handed' = NULL THEN 0 ELSE One(handed'.table)) + lost'.tables
    BY <1>1, <1>2, <1>4, <1>5, <2>1, <2>2
  <2>4. heap'["dirent"] = One(scan'.tmp) + Len(scan'.files)
                          + (IF handed' = NULL THEN 0 ELSE Len(handed'.files)) + lost'.entries
    BY <1>1, <1>2, <1>4, <1>5, <2>1
  <2> QED
    BY <1>1, <1>2, <1>7, <2>3, <2>4 DEF Balance
<1> QED
  BY <1>8, <1>9, <1>10, <1>11, <1>12 DEF IInv

(* scandir reads an entry and stores it if the filter takes it; or it is   *)
(* at the end, and sorts what it has.                                      *)
LEMMA ScanEntrySound ==
  ASSUME IInv, NEW ok \in BOOLEAN, ScanEntry(ok)
  PROVE  IInv'
<1> DEFINE w == AfterNext("scan", ok)
           f == dirent_next("scan", ok)
           c == Consumption(Scan)
<1>1. /\ pc = "read"
      /\ stream' = [stream EXCEPT !["scan"] = w]
      /\ searches' = [searches EXCEPT !["scan"] =
                        IF stream["scan"].handle /\ ~w.handle THEN @ - 1 ELSE @]
      /\ f = NULL => /\ \E files \in Sorted(scan.files) :
                          scan' = [scan EXCEPT !.files = files, !.cut = w.cut]
                     /\ pc' = "release"
      /\ f # NULL => /\ scan' = IF dirent(f).d_name \in scan.filter
                                  THEN Stored(scan, dirent(f)) ELSE scan
                     /\ pc' = "grow"
      /\ UNCHANGED <<directory, at, heap, errno, calls, seen, handed, lost>>
  BY DEF ScanEntry, AdvanceStream
<1>2. "read" \in Reading /\ "grow" \in Reading /\ "release" \notin Reading
  BY DEF Reading
<1>3. /\ at = "scan" /\ handed = NULL
      /\ Typed /\ StreamsInv /\ PassInv /\ ScanInv /\ Balance
      /\ scan \in Scans /\ heap \in [Kinds -> Nat] /\ stream \in [Streams -> OpenStreams]
      /\ searches \in [Streams -> Nat] /\ directory \in Seq(Files)
      /\ Len(directory) \in Nat /\ Len(scan.files) \in Nat
      /\ heap["dirent"] = One(scan.tmp) + Len(scan.files) + lost.entries
      /\ heap["table"] = One(scan.table) + lost.tables
      /\ (Open(User) \/ Shut(User)) /\ SearchSound(Scan) /\ ~Scan.wide
      /\ PartsAt(Scan, "read") /\ Scan = stream["scan"] /\ Scan \in OpenStreams
      /\ searches["scan"] = One(Scan.handle)
      /\ "scan" \in Streams
  BY <1>1, <1>2, ScanFacts DEF Streams
<1>4. /\ scan.dir /\ scan.result = Len(scan.files) /\ scan.tmp
      /\ Len(scan.files) <= c
      /\ Tally(scan.files, scan.filter, c)
      /\ Len(scan.files) < scan.allocated /\ Len(scan.files) <= scan.allocated
      /\ Len(scan.files) <= Len(directory)
      /\ Open(Scan) /\ Scan.handle
  BY <1>1, <1>2, <1>3 DEF ScanInv, PartsAt
<1>5. /\ w \in OpenStreams /\ SearchSound(w) /\ ~w.cached
      /\ w.wide = Scan.wide /\ w.dirp = Scan.dirp /\ w.wdirp = Scan.wdirp
      /\ w.patt = Scan.patt
      /\ f # NULL => /\ w.handle /\ w.pos = c + 1 /\ w.pos \in DOMAIN directory
                     /\ f = directory[w.pos] /\ f \in Files
      /\ f = NULL => /\ ~w.handle /\ ~Scan.cached /\ w.pos = Scan.pos
                     /\ (w.cut \/ w.pos = Len(directory))
  BY <1>3, <1>4, NextFacts
<1>6. scan.allocated \in Nat /\ scan.files \in Seq(Entries) /\ w.cut \in BOOLEAN
      /\ w.pos \in 0..Len(directory) /\ w.handle \in BOOLEAN
  BY <1>3, <1>5 DEF Scans, OpenStreams
<1>7. c \in Nat /\ (f = NULL => c = w.pos) /\ c <= Len(directory)
  <2>1. Scan.pos \in 0..Len(directory) /\ Scan.pos >= 1 /\ Scan.cached \in BOOLEAN
    BY <1>3, <1>4 DEF SearchSound, OpenStreams
  <2>2. (Scan.cached => c = Scan.pos - 1) /\ (~Scan.cached => c = Scan.pos)
    BY <2>1 DEF Consumption, One
  <2> HIDE DEF c
  <2> QED
    BY <1>3, <1>5, <2>1, <2>2
<1> HIDE DEF w, f, c
<1>8. User' = User /\ Scan' = w /\ stream' \in [Streams -> OpenStreams]
      /\ \A s \in Streams \ {"scan"} : stream'[s] = stream[s]
  <2>1. stream' = [stream EXCEPT !["scan"] = w] /\ stream \in [Streams -> OpenStreams]
        /\ w \in OpenStreams /\ "scan" \in Streams /\ "user" \in Streams
    BY <1>1, <1>3, <1>5 DEF Streams
  <2>2. stream' \in [Streams -> OpenStreams]
    BY <2>1
  <2>3. stream'["scan"] = w /\ \A s \in Streams \ {"scan"} : stream'[s] = stream[s]
    BY <2>1
  <2> QED
    BY <2>1, <2>2, <2>3 DEF User, Scan
<1>9. Consumption(Scan)' = w.pos
  BY <1>5, <1>6, <1>8 DEF Consumption, One
<1>10. searches' = [searches EXCEPT !["scan"] = One(w.handle)]
  <2>1. One(w.handle) = IF Scan.handle /\ ~w.handle THEN searches["scan"] - 1
                        ELSE searches["scan"]
    BY <1>3, <1>4, <1>6 DEF One
  <2> QED
    BY <1>1, <1>3, <2>1
<1>11. Open(w)
  BY <1>4, <1>5 DEF Open
<1>12. Entries \subseteq DirEntries /\ (\A e \in Entries : e.d_name \in Int)
  BY <1>3, EntriesAre
<1>13. /\ scan' \in Scans /\ scan'.dir /\ scan'.table = scan.table
       /\ scan'.allocated = scan.allocated /\ scan'.filter = scan.filter
       /\ scan'.result = Len(scan'.files) /\ Len(scan'.files) \in Nat
       /\ One(scan'.tmp) + Len(scan'.files) = 1 + Len(scan.files)
       /\ Len(scan'.files) <= scan.allocated /\ Len(scan'.files) <= Len(directory)
       /\ pc' = "grow" => w.handle /\ Len(scan'.files) <= w.pos
                          /\ Tally(scan'.files, scan.filter, w.pos)
       /\ pc' = "release" => ListExact(scan')
       /\ pc' \in {"grow", "release"}
  <2>1. CASE f = NULL
    <3>1. PICK files \in Sorted(scan.files) :
            scan' = [scan EXCEPT !.files = files, !.cut = w.cut]
      BY <1>1, <2>1
    <3>2. /\ files \in Seq(Entries) /\ Len(files) = Len(scan.files) /\ Alphabetical(files)
          /\ \A e : Cardinality(PlacesOf(files, e)) = Cardinality(PlacesOf(scan.files, e))
      BY <1>6, <1>12, SortedFacts
    <3>3. Tally(files, scan.filter, c)
      BY <1>4, <3>2 DEF Tally, PlacesOf
    <3>4. /\ scan' \in Scans /\ scan'.files = files /\ scan'.cut = w.cut
          /\ scan'.dir = scan.dir /\ scan'.table = scan.table
          /\ scan'.allocated = scan.allocated /\ scan'.filter = scan.filter
          /\ scan'.tmp = scan.tmp /\ scan'.result = scan.result
      BY <1>3, <1>6, <3>1, <3>2 DEF Scans
    <3>5. ListExact(scan')
      <4>1. c \in 0..Len(directory) /\ (c = Len(directory) \/ scan'.cut)
        BY <1>3, <1>5, <1>7, <2>1, <3>4
      <4>2. ~(scan'.result < 0) /\ scan'.result = Len(scan'.files)
        BY <1>3, <1>4, <3>2, <3>4
      <4> QED
        BY <3>2, <3>3, <3>4, <4>1, <4>2 DEF ListExact
    <3>6. One(scan'.tmp) = 1
      BY <1>4, <3>4 DEF One
    <3> QED
      BY <1>1, <1>3, <1>4, <2>1, <3>2, <3>4, <3>5, <3>6
  <2>2. CASE f # NULL /\ dirent(f).d_name \in scan.filter
    <3> DEFINE e == dirent(f)
    <3>1. e \in Entries /\ e = dirent(directory[c + 1])
      BY <1>5, <2>2 DEF Entries
    <3>2. Passing(c + 1, scan.filter)
      BY <2>2, <3>1 DEF Passing
    <3>3. /\ scan' = [scan EXCEPT !.files = Append(@, e), !.tmp = FALSE, !.result = @ + 1]
          /\ pc' = "grow"
      BY <1>1, <2>2 DEF Stored
    <3> HIDE DEF e
    <3>4. /\ Append(scan.files, e) \in Seq(Entries)
          /\ Len(Append(scan.files, e)) = Len(scan.files) + 1
      BY <1>6, <3>1, AppendProperties
    <3>5. scan.result \in Int
      BY <1>3 DEF Scans
    <3>6. /\ scan' \in Scans /\ scan'.files = Append(scan.files, e) /\ scan'.tmp = FALSE
          /\ scan'.dir = scan.dir /\ scan'.table = scan.table
          /\ scan'.allocated = scan.allocated /\ scan'.filter = scan.filter
          /\ scan'.result = scan.result + 1
      <4>1. scan \in Scans /\ scan.result + 1 \in Int
        BY <1>3, <3>5
      <4> DEFINE q == Append(scan.files, e)
                 n == scan.result + 1
      <4>2. scan' = [scan EXCEPT !.files = q, !.tmp = FALSE, !.result = n]
        BY <3>3
      <4>3. q \in Seq(Entries) /\ n \in Int
        BY <3>4, <4>1
      <4> HIDE DEF q, n
      <4>4. /\ scan' \in Scans /\ scan'.files = q /\ scan'.tmp = FALSE
            /\ scan'.dir = scan.dir /\ scan'.table = scan.table
            /\ scan'.allocated = scan.allocated /\ scan'.filter = scan.filter
            /\ scan'.result = n
        BY <4>1, <4>2, <4>3 DEF Scans
      <4> QED
        BY <4>4 DEF q, n
    <3>7. Tally(Append(scan.files, e), scan.filter, c + 1)
      BY <1>4, <1>6, <1>7, <3>1, <3>2, TallyStored
    <3>8. One(scan'.tmp) = 0
      BY <3>6 DEF One
    <3>9. w.pos = c + 1 /\ w.handle
      BY <1>5, <2>2
    <3>10. Len(scan'.files) = Len(scan.files) + 1
      BY <3>4, <3>6
    <3>11. /\ Len(scan'.files) <= scan.allocated /\ Len(scan'.files) <= Len(directory)
           /\ Len(scan'.files) <= w.pos /\ Len(scan'.files) \in Nat
      BY <1>3, <1>4, <1>6, <1>7, <3>9, <3>10
    <3>12. scan'.result = Len(scan'.files)
      BY <1>4, <3>6, <3>10
    <3>13. One(scan'.tmp) + Len(scan'.files) = 1 + Len(scan.files)
      BY <1>3, <3>8, <3>10
    <3>14. Tally(scan'.files, scan.filter, w.pos)
      BY <3>6, <3>7, <3>9
    <3>15. scan'.dir /\ pc' = "grow"
      BY <1>4, <3>3, <3>6
    <3> QED
      BY <3>6, <3>9, <3>11, <3>12, <3>13, <3>14, <3>15
  <2>3. CASE f # NULL /\ dirent(f).d_name \notin scan.filter
    <3>1. scan' = scan /\ pc' = "grow" /\ w.pos = c + 1 /\ w.handle
      BY <1>1, <1>5, <2>3
    <3>2. ~Passing(c + 1, scan.filter)
      BY <1>5, <2>3 DEF Passing
    <3>3. Tally(scan.files, scan.filter, c + 1)
      BY <1>4, <1>7, <3>2, TallyPassedBy
    <3>4. One(scan.tmp) = 1 /\ Len(scan.files) <= c + 1
      BY <1>3, <1>4, <1>7 DEF One
    <3> QED
      BY <1>3, <1>4, <3>1, <3>3, <3>4
  <2> QED
    BY <2>1, <2>2, <2>3
<1>14. Typed'
  <2>1. OpenStreams' = OpenStreams /\ Entries' = Entries /\ Scans' = Scans
    BY <1>1 DEF OpenStreams, Entries, Scans
  <2>2. searches' \in [Streams -> Nat]
    <3>1. One(w.handle) \in Nat
      BY DEF One
    <3> QED
      BY <1>3, <1>10, <3>1
  <2>3. pc' \in Places
    BY <1>13 DEF Places, Reading
  <2> QED
    BY <1>1, <1>3, <1>8, <1>13, <2>1, <2>2, <2>3 DEF Typed
<1>15. StreamsInv'
  <2>1. \A s \in Streams : SearchSound(stream'[s])
    BY <1>1, <1>3, <1>5, <1>8 DEF StreamsInv
  <2>2. PartsAt(w, pc')
    <3>1. CASE pc' = "grow"
      BY <1>11, <1>13, <3>1 DEF PartsAt
    <3>2. CASE pc' = "release"
      BY <1>2, <3>2 DEF PartsAt
    <3> QED
      BY <1>13, <3>1, <3>2
  <2>3. stream'[at'] = w
    BY <1>1, <1>3
  <2>4. at' = "scan" /\ pc' # "idle" /\ ~w.wide
    BY <1>1, <1>3, <1>5, <1>13
  <2> QED
    BY <1>3, <1>8, <1>11, <1>13, <2>1, <2>2, <2>3, <2>4 DEF StreamsInv
<1>16. PassInv'
  BY <1>1, <1>3, <1>8, PassKept
<1>17. ScanInv'
  <2>1. Entries' = Entries
    BY <1>1 DEF Entries
  <2>2. pc' = "grow" => Tally(scan.files, scan.filter, Consumption(Scan))'
    BY <1>1, <1>9, <1>13, <2>1 DEF Tally, Passing
  <2>3. pc' = "release" => ListExact(scan)'
    <3> SUFFICES ASSUME pc' = "release" PROVE ListExact(scan)'
      OBVIOUS
    <3>1. ListExact(scan') /\ directory' = directory
      BY <1>1, <1>13
    <3> QED
      BY <2>1, <3>1 DEF ListExact, Tally, Alphabetical, Passing
  <2>4. pc' \notin Opening \cup Closing \cup {"no_dir", "hand_over", "temporary", "read", "idle"}
    BY <1>13 DEF Opening, Closing
  <2>5. pc' \in Reading \cup {"release"} /\ (pc' \in Reading => pc' = "grow")
    BY <1>2, <1>13
  <2>6. -1 <= scan'.result /\ scan'.result <= Len(directory)
    BY <1>13
  <2>7. at' = "scan" /\ handed' = NULL /\ directory' = directory
    BY <1>1, <1>3
  <2> QED
    BY <1>9, <1>13, <2>2, <2>3, <2>4, <2>5, <2>6, <2>7 DEF ScanInv
<1>18. Balance'
  <2>1. /\ Scan'.dirp = Scan.dirp /\ Scan'.wdirp = Scan.wdirp /\ Scan'.patt = Scan.patt
    BY <1>5, <1>8
  <2>2. \A s \in Streams : searches'[s] = One(stream'[s].handle)
    BY <1>1, <1>3, <1>8, <1>10 DEF Balance
  <2>3. \A b : One(b) \in Nat
    BY DEF One
  <2>4. One(scan.tmp) = 1
    BY <1>4 DEF One
  <2>5. /\ heap' = heap /\ lost' = lost /\ handed' = NULL
        /\ heap["table"] = One(scan.table) + lost.tables
        /\ heap["dirent"] = One(scan.tmp) + Len(scan.files) + lost.entries
        /\ lost.entries \in Nat
    BY <1>1, <1>3 DEF Typed
  <2>7. heap'["table"] = One(scan'.table) + 0 + lost.tables
    <3>1. One(scan.table) \in Nat /\ scan'.table = scan.table
      BY <1>13, <2>3
    <3> QED
      BY <2>5, <3>1
  <2>6. heap'["dirent"] = One(scan'.tmp) + Len(scan'.files) + 0 + lost.entries
    <3>1. /\ One(scan'.tmp) + Len(scan'.files) = 1 + Len(scan.files)
          /\ Len(scan.files) \in Nat
      BY <1>3, <1>13
    <3> DEFINE n == One(scan'.tmp) + Len(scan'.files)
    <3>2. n = 1 + Len(scan.files) /\ n \in Nat
      BY <3>1
    <3> HIDE DEF n
    <3>4. Len(scan.files) \in Nat
      BY <3>1
    <3>3. heap'["dirent"] = n + 0 + lost.entries
      BY <2>4, <2>5, <3>2, <3>4
    <3> QED
      BY <3>3 DEF n
  <2> QED
    BY <1>3, <1>8, <2>1, <2>2, <2>5, <2>6, <2>7 DEF Balance
<1> QED
  BY <1>14, <1>15, <1>16, <1>17, <1>18 DEF IInv

-----------------------------------------------------------------------------
(* The invariant *)

(* Nothing is open and nothing is allocated at the beginning. *)
LEMMA InitSound ==
  ASSUME DirInit
  PROVE  IInv
<1>1. /\ directory \in Directories
      /\ pc = "idle" /\ at = "user"
      /\ stream = [s \in Streams |-> Closed]
      /\ heap = [k \in Kinds |-> 0] /\ searches = [s \in Streams |-> 0]
      /\ errno = "none" /\ scan = NoScan /\ calls = 0 /\ seen = <<>> /\ handed = NULL
      /\ lost = [tables |-> 0, entries |-> 0]
  BY DEF DirInit
<1>2. directory \in Seq(Files) /\ Len(directory) \in Nat
  <2>1. directory \in Seq(Files)
    BY <1>1, DirectoriesAssumption
  <2> QED
    BY <2>1
<1>3. /\ Closed \in OpenStreams /\ ~Closed.wide /\ ~Closed.dirp /\ ~Closed.wdirp
      /\ ~Closed.patt /\ ~Closed.handle /\ ~Closed.cached
  <2>1. 0 \in 0..Len(directory)
    BY <1>2
  <2> QED
    BY <2>1 DEF Closed, OpenStreams
<1>4. /\ NoScan \in Scans /\ ~NoScan.dir /\ ~NoScan.table /\ NoScan.files = <<>>
      /\ NoScan.allocated = 0 /\ ~NoScan.tmp /\ NoScan.result = 0
  <2>1. <<>> \in Seq(Entries) /\ {} \in SUBSET Int
    OBVIOUS
  <2> QED
    BY <2>1 DEF NoScan, Scans
<1>5. User = Closed /\ Scan = Closed /\ \A s \in Streams : stream[s] = Closed
  BY <1>1 DEF User, Scan, Streams
<1>6. Shut(Closed) /\ SearchSound(Closed)
  BY <1>3 DEF Shut, SearchSound
<1>7. Typed
  <2>1. pc \in Places /\ at \in Streams
    BY <1>1 DEF Places, Streams
  <2>2. calls \in 0..MaxCalls
    BY <1>1, PathMaxAssumption
  <2>3. heap \in [Kinds -> Nat] /\ searches \in [Streams -> Nat]
    BY <1>1
  <2>4. stream \in [Streams -> OpenStreams]
    BY <1>1, <1>3
  <2>5. seen \in Seq(DirEntries \cup {NULL})
    BY <1>1
  <2> QED
    BY <1>1, <1>2, <1>4, <2>1, <2>2, <2>3, <2>4, <2>5 DEF Typed
<1>8. StreamsInv
  BY <1>1, <1>3, <1>5, <1>6 DEF StreamsInv
<1>9. PassInv
  BY <1>1, <1>3, <1>5 DEF PassInv
<1>10. ScanInv
  <2>1. "idle" \notin Opening \cup Closing \cup Reading
    BY DEF Opening, Closing, Reading
  <2>2. Len(scan.files) = 0
    BY <1>1, <1>4
  <2> QED
    BY <1>1, <1>2, <1>4, <2>1, <2>2 DEF ScanInv
<1>11. Balance
  <2>1. One(FALSE) = 0
    BY DEF One
  <2>2. Len(scan.files) = 0 /\ One(scan.table) = 0 /\ One(scan.tmp) = 0
    BY <1>1, <1>4 DEF One
  <2>3. /\ One(User.dirp) = 0 /\ One(User.wdirp) = 0 /\ One(User.patt) = 0
        /\ One(Scan.dirp) = 0 /\ One(Scan.wdirp) = 0 /\ One(Scan.patt) = 0
        /\ \A s \in Streams : One(stream[s].handle) = 0
    BY <1>3, <1>5 DEF One
  <2> QED
    BY <1>1, <2>2, <2>3 DEF Balance, Kinds
<1> QED
  BY <1>7, <1>8, <1>9, <1>10, <1>11 DEF IInv

(* A step that changes nothing. *)
LEMMA StutterSound ==
  ASSUME IInv, UNCHANGED dirVars
  PROVE  IInv'
<1>1. UNCHANGED <<directory, pc, at, stream, heap, searches, errno, scan, calls, seen,
                  handed, lost>>
  BY DEF dirVars
<1>2. Typed /\ StreamsInv /\ PassInv /\ ScanInv /\ Balance
  BY DEF IInv
<1>3. /\ OpenStreams' = OpenStreams /\ Entries' = Entries /\ Scans' = Scans
      /\ User' = User /\ Scan' = Scan
  BY <1>1 DEF OpenStreams, Entries, Scans, User, Scan
<1>4. Typed'
  BY <1>1, <1>2, <1>3 DEF Typed
<1>5. StreamsInv'
  BY <1>1, <1>2, <1>3 DEF StreamsInv
<1>6. PassInv'
  BY <1>1, <1>2, <1>3 DEF PassInv, FirstRead, Consumption
<1>7. ScanInv'
  <2>1. ListExact(scan)' <=> ListExact(scan)
    BY <1>1, <1>3 DEF ListExact, Tally, Alphabetical, Passing
  <2>2. ListExact(handed)' <=> ListExact(handed)
    BY <1>1, <1>3 DEF ListExact, Tally, Alphabetical, Passing
  <2>3. Consumption(Scan)' = Consumption(Scan)
    BY <1>3 DEF Consumption
  <2>4. Tally(scan.files, scan.filter, Consumption(Scan))' <=>
          Tally(scan.files, scan.filter, Consumption(Scan))
    BY <1>1, <1>3, <2>3 DEF Tally, Passing
  <2> QED
    BY <1>1, <1>2, <2>1, <2>2, <2>3, <2>4 DEF ScanInv
<1>8. Balance'
  BY <1>1, <1>2, <1>3 DEF Balance
<1> QED
  BY <1>4, <1>5, <1>6, <1>7, <1>8 DEF IInv

(* Every step keeps the invariant. *)
LEMMA NextSound ==
  ASSUME IInv, [DirNext]_dirVars
  PROVE  IInv'
<1>1. CASE InCall
  BY <1>1, AllocDIRSound, ConvertNameSound, AllocWDIRSound, AllocPattSound, FullPathSound,
     OpenFirstSound, GrowTableSound, AllocTemporarySound, ScanEntrySound, WClosedirSound,
     FreeDIRSound, NoDirSound, ReleaseMemorySound, HandOverSound DEF InCall
<1>2. CASE \E wide \in BOOLEAN : CallOpendir(wide)
  BY <1>2, CallOpendirSound
<1>3. CASE \E ok \in BOOLEAN : ReadDir(ok) \/ RewindDir(ok)
  BY <1>3, ReadDirSound, RewindDirSound
<1>4. CASE \E hidden \in AllNames \cup {NULL}, namelist \in BOOLEAN :
             CallScandir(AllNames \ {hidden}, namelist)
  BY <1>4, CallScandirSound
<1>5. CASE CallClosedir \/ FreeNamelist
  BY <1>5, CallClosedirSound, FreeNamelistSound
<1>6. CASE UNCHANGED dirVars
  BY <1>6, StutterSound
<1> QED
  BY <1>1, <1>2, <1>3, <1>4, <1>5, <1>6 DEF DirNext

(* Whatever fails, the streams, the heap, the pass and the list agree. *)
THEOREM DirInductive == DirSpec => []IInv
<1>1. DirInit => IInv
  BY InitSound
<1>2. IInv /\ [DirNext]_dirVars => IInv'
  BY NextSound
<1> QED
  BY <1>1, <1>2, PTL DEF DirSpec

(* What the invariant says of the memory, of a pass and of a list. *)
LEMMA WhatFollows ==
  ASSUME IInv
  PROVE  DirInv /\ EachEntryOnce /\ ScandirExact
<1>1. Typed /\ PassInv /\ ScanInv /\ Balance
  BY DEF IInv
<1>2. /\ stream \in [Streams -> OpenStreams] /\ User \in OpenStreams /\ scan \in Scans
      /\ directory \in Seq(Files) /\ seen \in Seq(DirEntries \cup {NULL})
  BY <1>1 DEF Typed, User, Streams
<1>3. Len(directory) \in Nat /\ Len(seen) \in Nat
  BY <1>2
<1>4. DirTypeOK
  <2>1. scan.result \in -1..Len(directory) /\ Len(scan.files) <= scan.allocated
        /\ scan.files \in Seq(Entries)
    BY <1>1, <1>2, <1>3 DEF ScanInv, Scans
  <2> QED
    BY <1>1, <2>1 DEF DirTypeOK, Typed, OpenStreams
<1>5. DirInv
  BY <1>1, <1>4, BalanceAccounts DEF DirInv
<1>6. EachEntryOnce
  <2> SUFFICES ASSUME User.wdirp
               PROVE  \E k \in 0..Len(directory) :
                        FirstRead(k) /\ (Len(seen) > k => User.cut \/ k = Len(directory))
    BY DEF EachEntryOnce, FirstRead
  <2>1. CASE User.handle
    <3>1. FirstRead(Len(seen)) /\ Len(seen) = Consumption(User)
      BY <1>1, <2>1 DEF PassInv
    <3>2. Len(seen) \in 0..Len(directory)
      <4>1. User.pos \in 0..Len(directory)
        BY <1>2 DEF OpenStreams
      <4> QED
        BY <1>3, <3>1, <4>1 DEF Consumption, One
    <3> QED
      BY <1>3, <3>1, <3>2
  <2>2. CASE ~User.handle
    BY <1>1, <2>2 DEF PassInv
  <2> QED
    BY <2>1, <2>2
<1>7. ScandirExact
  <2>1. handed # NULL => ListExact(handed)
    BY <1>1 DEF ScanInv
  <2> QED
    BY <2>1 DEF ScandirExact, ListExact, Alphabetical, Tally
<1> QED
  BY <1>5, <1>6, <1>7

(* Whatever allocation, conversion or call of the system fails, each block *)
(* and each search handle has exactly one owner, but for the lists of the  *)
(* scandirs that got no namelist to store to, and scandir never stores     *)
(* behind the end of its table.                                            *)
THEOREM MemoryIsAccounted == DirSpec => []DirInv
<1>1. IInv => DirInv
  BY WhatFollows
<1> QED
  BY <1>1, DirInductive, PTL

(* A pass over a stream returns each file once, in the system's order,     *)
(* under its name or its short name, chopped where wcstombs stops before   *)
(* the end, then NULL for good; only an error of the system ends it early. *)
THEOREM PassIsExact == DirSpec => []EachEntryOnce
<1>1. IInv => EachEntryOnce
  BY WhatFollows
<1> QED
  BY <1>1, DirInductive, PTL

(* scandir hands over the whole sorted list of what passes, or nothing. *)
THEOREM ScandirAllOrNothing == DirSpec => []ScandirExact
<1>1. IInv => ScandirExact
  BY WhatFollows
<1> QED
  BY <1>1, DirInductive, PTL

=============================================================================
