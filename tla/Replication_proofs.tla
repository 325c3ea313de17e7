------------------------- MODULE Replication_proofs --------------------------
(***************************************************************************)
(* Proofs about the directory of a collection (CollectionFiles,            *)
(* DataDirectory), its backups (Backup) and its follower (Replication):    *)
(* for any ids and values, any workloads and any number of calls, starts,  *)
(* seconds and failing files.                                              *)
(***************************************************************************)
EXTENDS Replication, Integers, FiniteSetTheorems, FunctionTheorems, SequenceTheorems,
        WellFoundedInduction, TLAPS

-----------------------------------------------------------------------------
(* The inductive invariant *)

Days == Retentions \cup {NoLimit}
Formats == {"bin", "jsonl"}
PointFiles == [bin : Maps \cup {NoFile}, jsonl : Maps \cup {NoFile},
               sum : {NoFile} \cup (Formats \X Maps)]
Directories == [config : Days \cup {NoFile}, stamp : Nat, at : [Places -> PointFiles]]
LogEntry == [ts : Nat, id : Ids, val : PointOrNone, z : BOOLEAN]
Logs == [magic : BOOLEAN, entries : Seq(LogEntry)]
Writes ==
    [file : {"config"}, place : {Root}, data : Days]
    \cup [file : {"stamp"}, place : {Root}, data : {NoFile}]
    \cup [file : Formats, place : Places, data : Maps]
    \cup [file : {"sum"}, place : Places, data : Formats \X Maps]

TypeOK ==
    /\ now \in Seconds /\ load \in Workloads /\ now <= load.seconds
    /\ options \in load.options
    /\ dir \in Directories /\ log \in Logs
    /\ program \in {"none", "engine", "server"}
    /\ points \in Maps \cup {NoCollection} /\ retention \in Days
    /\ todo \in Seq(Writes) /\ after \in {Idle, "truncate", "clean", "restored"}
    /\ restore = <<>> \/ restore \in Maps \X Days
    /\ past \in [Seconds -> Maps \cup {NoCollection}] /\ kept \in Maps \cup {NoCollection}
    /\ lapses \subseteq Spared \cup {"half", "second"}
    /\ failures \in Nat

(* The clock stamps what is written.                                       *)
ClockInv ==
    /\ dir.stamp <= now
    /\ \A i \in 1..Len(log.entries) : 1 <= log.entries[i].ts /\ log.entries[i].ts <= now

(* What the program at work may be at.                                     *)
ProgramInv ==
    /\ program = "none" => points = NoCollection /\ todo = <<>> /\ after = Idle /\ restore = <<>>
    /\ program # "none" /\ points = NoCollection => ~Loads(dir)
    /\ todo # <<>> => points # NoCollection /\ after # Idle
    /\ after = "truncate" => program = "engine" /\ points # NoCollection
    /\ after = "restored" => program = "server"
    /\ after = "clean" => todo # <<>>
    /\ program = "engine" /\ points # NoCollection /\ after # "clean" =>
          dir.config # NoFile /\ kept = points
    /\ restore # <<>> => program = "server"

(* The writes of a save: the points that a place is to hold, followed by   *)
(* their checksum.                                                         *)
Own == Format(options.binary)
Part(p) == PartOf(points, p, options.isolated)
Holds(p) == p = Root \/ (options.isolated /\ Part(p) # EmptyMap)

Due(w) ==
    \/ w = [file |-> "config", place |-> Root, data |-> retention]
    \/ w = [file |-> "stamp", place |-> Root, data |-> NoFile]
    \/ \E p \in Places : /\ Holds(p)
                         /\ w \in {[file |-> Own, place |-> p, data |-> Part(p)],
                                   [file |-> "sum", place |-> p, data |-> <<Own, Part(p)>>]}

Ordered(s) ==
    /\ \A i \in 1..Len(s) : s[i].file \in Formats =>
          i < Len(s) /\ s[i + 1].file = "sum" /\ s[i + 1].place = s[i].place
    /\ \A i \in 2..Len(s) : s[i].file = "sum" => s[i - 1].file \in Formats /\ s[i - 1].place = s[i].place
    /\ \A i \in 1..Len(s) : s[i].file = "config" => i = 1 /\ Len(s) >= 2 /\ s[2].file = "stamp"
    /\ \A i \in 1..Len(s) : s[i].file = "stamp" => i = 1 \/ (i = 2 /\ s[1].file = "config")

Ahead(p) == \E i \in 1..Len(todo) : todo[i].place = p /\ todo[i].file \in Formats \cup {"sum"}
Stamped == \A i \in 1..Len(todo) : todo[i].file # "stamp"
Fresh(p) == Chosen(dir.at[p]) = Own /\ dir.at[p][Own] = Part(p)

SaveInv ==
    todo # <<>> =>
        /\ \A i \in 1..Len(todo) : Due(todo[i])
        /\ Ordered(todo)
        /\ ~Stamped => \A p \in Places : Holds(p) =>
              \E i \in 1..Len(todo) : todo[i].file \in Formats /\ todo[i].place = p
        /\ \A p \in Places : Holds(p) /\ ~Ahead(p) => Fresh(p) /\ Intact(dir.at[p])
        /\ Head(todo).file = "sum" => Fresh(Head(todo).place)
        /\ Head(todo).file # "config" => dir.config # NoFile
        /\ Stamped => dir.stamp # 0

(* The files, whatever was cut off.                                        *)
FilesInv ==
    /\ ~options.binary => \A p \in Places : dir.at[p].bin = NoFile
    /\ ~options.isolated => \A p \in Namespaces : dir.at[p] = NoFiles
    /\ options.isolated => \A id \in Ids, f \in Formats :
          id[1] # Root /\ dir.at[Root][f] # NoFile => dir.at[Root][f][id] = None
    /\ \A p \in Namespaces, f \in Formats : dir.at[p][f] # EmptyMap
    /\ dir.config = NoFile => dir = NoDirectory
    /\ \A p \in Places : ~Intact(dir.at[p]) =>
          \/ BetweenFileAndSum /\ Head(todo).place = p
          \/ "torn" \in lapses \/ "emptied" \in lapses

(* The log, and what it says.                                              *)
Decides(id) == Hits(ReadEntries(log), Len(ReadEntries(log)), id) # {}

LogInv ==
    /\ "encoding" \notin lapses => \A i \in 1..Len(log.entries) : log.entries[i].z = log.magic
    /\ todo # <<>> /\ after # "truncate" /\ "mixed" \notin lapses => ReadEntries(log) = <<>>
    /\ program = "engine" /\ points # NoCollection /\ "mixed" \notin lapses /\ "encoding" \notin lapses =>
          \A id \in Ids : Decides(id) => points[id] = Replay(Loaded(dir), ReadEntries(log))[id]

(* Recoverable, of the points only: whether the files load is FilesInv.    *)
Promised == IF kept = NoCollection THEN EmptyMap ELSE kept

GivesBack ==
    /\ dir.config = NoFile => kept = NoCollection
    /\ lapses \cap Spared = {} /\ after # "restored" /\ dir.config # NoFile =>
          \A id \in Ids : \/ Recovered(dir, log)[id] = Promised[id]
                          \/ todo # <<>> /\ Recovered(dir, log)[id] = points[id]

(* A save that has ended, before the log is truncated.                     *)
SavedInv ==
    after = "truncate" /\ todo = <<>> =>
        /\ lapses \cap {"torn", "half", "second"} = {}
        /\ "emptied" \notin lapses => Loaded(dir) = points

(* Past times.                                                             *)
Watched == program = "engine" \/ after = "restored" \/ (ReadEntries(log) = <<>> /\ "compacted" \notin lapses)

PastSeen == points # NoCollection /\ Watched => \A t \in Seconds : t >= now => past[t] = points

PastSaved ==
    /\ todo # <<>> /\ Stamped =>
          /\ \A i \in 1..Len(log.entries) : log.entries[i].ts <= dir.stamp
          /\ Watched => past[dir.stamp] = points
    /\ todo = <<>> /\ after \in {"truncate", "restored"} /\ dir.config # NoFile
         /\ "emptied" \notin lapses /\ (after = "truncate" \/ "second" \notin lapses) =>
            dir.stamp # 0 /\ Loaded(dir) = past[dir.stamp]

PastKept ==
    lapses = {} /\ dir.config # NoFile /\ (todo = <<>> \/ (~Stamped /\ after # "restored")) =>
        /\ \A t \in RestorePoints(dir, log) : t >= dir.stamp /\ t # 0 => RecoveredTo(dir, log, t) = past[t]
        /\ RecoveredTo(dir, log, now) = Recovered(dir, log)

DirInv ==
    /\ TypeOK /\ ClockInv /\ ProgramInv /\ SaveInv /\ FilesInv
    /\ LogInv /\ GivesBack /\ SavedInv /\ PastSeen /\ PastSaved /\ PastKept

(* A backup at work: what it has read, and what is there to be read.       *)
Archived == archive.stage \in {"saved", "read"}
PlaceOf(id) == IF options.isolated THEN id[1] ELSE Root
FileKinds == {"config", "stamp", "bin", "jsonl", "sum"}

Archives ==
    [stage : {"none", "save", "saved", "read", "done"},
     listed : SUBSET (FileKinds \X Places), read : SUBSET (FileKinds \X Places),
     copy : Directories, calm : BOOLEAN, stale : BOOLEAN, values : [Ids -> SUBSET PointOrNone]]

ArchiveOK ==
    /\ archive \in Archives
    /\ archive.stage \notin {"none", "done"} => program = "server"
    /\ archive.stage = "save" => todo # <<>>
    /\ archive.stage \in {"none", "save", "saved"} => archive.read = {} /\ archive.copy = NoDirectory

ValuesInv ==
    /\ archive.stage \in {"save", "saved", "read"} /\ points # NoCollection =>
          \A id \in Ids : points[id] \in archive.values[id]
    /\ Archived /\ points # NoCollection /\ dir.config = NoFile =>
          \A id \in Ids : None \in archive.values[id]
    /\ Archived /\ dir.config # NoFile /\ "emptied" \notin lapses =>
          /\ \A p \in Places : dir.at[p][Own] = NoFile => dir.at[p].bin = NoFile /\ dir.at[p].jsonl = NoFile
          /\ \A id \in Ids : Loaded(dir)[id] \in archive.values[id]

CopyInv ==
    archive.stage = "read" /\ ~archive.stale =>
        /\ "emptied" \notin lapses
        /\ archive.copy.config # NoFile => <<"config", Root>> \in archive.read
        /\ \A p \in Places, f \in Formats \cup {"sum"} :
              archive.copy.at[p][f] # NoFile => <<f, p>> \in archive.read
        /\ \A id \in Ids : <<Own, PlaceOf(id)>> \in archive.read =>
              /\ archive.copy.at[PlaceOf(id)][Own] # NoFile
              /\ archive.copy.at[PlaceOf(id)][Own][id] \in archive.values[id]
        /\ \A p \in Places : options.binary /\ (dir.at[p].jsonl # NoFile \/ <<"jsonl", p>> \in archive.read) =>
              <<"bin", p>> \in archive.listed
        /\ dir.config # NoFile \/ archive.copy.config # NoFile => \A id \in Ids :
              <<Own, PlaceOf(id)>> \notin archive.listed => None \in archive.values[id]
        /\ ~options.binary => \A p \in Places : archive.copy.at[p].bin = NoFile
        /\ ~options.isolated => \A p \in Namespaces, f \in Formats : archive.copy.at[p][f] = NoFile
        /\ options.isolated => \A id \in Ids, f \in Formats :
              id[1] # Root /\ archive.copy.at[Root][f] # NoFile => archive.copy.at[Root][f][id] = None

CalmInv ==
    archive.stage = "read" /\ archive.calm /\ ~archive.stale =>
        /\ todo = <<>> /\ "torn" \notin lapses
        /\ dir.config # NoFile =>
              /\ archive.read \subseteq archive.listed /\ archive.listed = EntriesOf(dir)
              /\ <<"config", Root>> \in archive.read => archive.copy.config = dir.config
              /\ \A p \in Places, f \in Formats \cup {"sum"} :
                    <<f, p>> \in archive.read => archive.copy.at[p][f] = dir.at[p][f]
        /\ archive.listed \subseteq archive.read /\ archive.listed # {} => Loads(archive.copy)

ArchiveInv == ArchiveOK /\ ValuesInv /\ CopyInv /\ CalmInv /\ BackupRestores

IInv == DirInv /\ ArchiveInv

-----------------------------------------------------------------------------
(* Facts about replaying a log *)

(* A nonempty set of natural numbers has a least element.                  *)
LEMMA LeastNatural ==
    ASSUME NEW T \in SUBSET Nat, T # {}
    PROVE  \E x \in T : \A y \in T : x <= y
<1>1. \E x \in T : \A y \in T : ~(<<y, x>> \in OpToRel(<, Nat))
  BY NatLessThanWellFounded, WFMin
<1>2. \A x, y \in T : ~(<<y, x>> \in OpToRel(<, Nat)) => ~(y < x)
  BY DEF OpToRel
<1>3. \A x, y \in T : ~(y < x) => x <= y
  OBVIOUS
<1> QED
  BY <1>1, <1>2, <1>3

(* A nonempty set of numbers that has a bound has a last element.          *)
LEMMA LastExists ==
    ASSUME NEW n \in Nat, NEW P \in SUBSET (0..n), P # {}
    PROVE  /\ Last(P) \in P
           /\ \A j \in P : j <= Last(P)
<1> DEFINE T == {t \in Nat : n - t \in P}
<1>1. PICK i \in P : TRUE
  OBVIOUS
<1>2. n - i \in T
  BY <1>1
<1>3. PICK x \in T : \A y \in T : x <= y
  <2> HIDE DEF T
  <2>1. T \subseteq Nat
    BY DEF T
  <2> QED
    BY <1>2, <2>1, LeastNatural
<1>4. ASSUME NEW j \in P PROVE j <= n - x
  <2>1. n - j \in T
    OBVIOUS
  <2>2. x <= n - j
    BY <1>3, <2>1
  <2> QED
    BY <2>2
<1>5. n - x \in P
  BY <1>3
<1> QED
  BY <1>4, <1>5 DEF Last

LEMMA ReadType ==
    ASSUME NEW l \in Logs
    PROVE  /\ ReadEntries(l) \in Seq(LogEntry) /\ Len(ReadEntries(l)) \in Nat
           /\ Len(ReadEntries(l)) <= Len(l.entries)
           /\ \A i \in 1..Len(ReadEntries(l)) :
                 i \in 1..Len(l.entries) /\ ReadEntries(l)[i] = l.entries[i]
           /\ DOMAIN ReadEntries(l) = 1..Len(ReadEntries(l))
           /\ \A i \in 1..Len(ReadEntries(l)) : ReadEntries(l)[i] \in LogEntry
<1> DEFINE n == Len(l.entries)
           P == {m \in 0..n : \A i \in 1..m : l.entries[i].z = l.magic}
<1>1. l.entries \in Seq(LogEntry) /\ n \in Nat
  BY DEF Logs
<1>2. 0 \in P
  BY <1>1
<1>3. Last(P) \in 0..n
  <2> HIDE DEF n
  <2>1. P \in SUBSET (0..n) /\ P # {}
    BY <1>2
  <2> HIDE DEF P
  <2> QED
    BY <1>1, <2>1, LastExists
<1>4. ReadEntries(l) = SubSeq(l.entries, 1, Last(P))
  BY DEF ReadEntries
<1> HIDE DEF n, P
<1>5. /\ ReadEntries(l) \in Seq(LogEntry) /\ Len(ReadEntries(l)) = Last(P)
      /\ \A i \in 1..Last(P) : ReadEntries(l)[i] = l.entries[i]
  BY <1>1, <1>3, <1>4 DEF n
<1> QED
  BY <1>1, <1>3, <1>5 DEF n

(* A log in one encoding is read to its end.                               *)
LEMMA ReadAll ==
    ASSUME NEW l \in Logs, \A i \in 1..Len(l.entries) : l.entries[i].z = l.magic
    PROVE  ReadEntries(l) = l.entries
<1> DEFINE n == Len(l.entries)
           P == {m \in 0..n : \A i \in 1..m : l.entries[i].z = l.magic}
<1>1. l.entries \in Seq(LogEntry) /\ n \in Nat
  BY DEF Logs
<1>2. n \in P
  BY <1>1
<1>3. Last(P) = n
  <2> HIDE DEF n
  <2>1. P \in SUBSET (0..n) /\ P # {}
    BY <1>2
  <2> HIDE DEF P
  <2>2. Last(P) \in P /\ \A j \in P : j <= Last(P)
    BY <1>1, <2>1, LastExists
  <2>3. Last(P) \in 0..n /\ n <= Last(P)
    BY <1>2, <2>1, <2>2
  <2> QED
    BY <1>1, <2>3
<1>4. ReadEntries(l) = SubSeq(l.entries, 1, Last(P))
  BY DEF ReadEntries
<1> HIDE DEF n, P
<1> QED
  BY <1>1, <1>3, <1>4 DEF n

(* Reading depends on the encoding and the entries alone, and of no        *)
(* entries there is nothing to read.                                       *)
LEMMA ReadSame ==
    ASSUME NEW l \in Logs, NEW k \in Logs, k.entries = l.entries,
           k.magic = l.magic \/ l.entries = <<>>
    PROVE  ReadEntries(k) = ReadEntries(l)
<1>1. CASE k.magic = l.magic
  BY <1>1 DEF ReadEntries
<1>2. CASE l.entries = <<>>
  BY <1>2, ReadAll
<1> QED
  BY <1>1, <1>2

LEMMA ReadEmpty ==
    ASSUME NEW l \in Logs, l.entries = <<>>
    PROVE  ReadEntries(l) = <<>>
BY ReadAll

(* The last position that decides about an id is one that does.            *)
LEMMA LastHit ==
    ASSUME NEW s \in Seq(LogEntry), NEW id, NEW H \in SUBSET Hits(s, Len(s), id), H # {}
    PROVE  /\ Last(H) \in H /\ Last(H) \in 1..Len(s)
           /\ \A j \in H : j <= Last(H)
           /\ s[Last(H)] \in LogEntry
<1>1. Len(s) \in Nat /\ H \in SUBSET (0..Len(s)) /\ H \subseteq 1..Len(s)
  BY DEF Hits
<1>2. Last(H) \in H /\ \A j \in H : j <= Last(H)
  BY <1>1, LastExists
<1>3. Last(H) \in 1..Len(s)
  BY <1>1, <1>2
<1>4. s[Last(H)] \in LogEntry
  BY <1>3
<1> QED
  BY <1>2, <1>3, <1>4

(* Replaying over a map gives a map.                                       *)
LEMMA ReplayType ==
    ASSUME NEW base \in Maps, NEW s \in Seq(LogEntry)
    PROVE  Replay(base, s) \in Maps
<1> SUFFICES ASSUME NEW id \in Ids, Hits(s, Len(s), id) # {}
             PROVE  s[Last(Hits(s, Len(s), id))].val \in PointOrNone
  BY DEF Replay, Overlay, Maps
<1> QED
  BY LastHit DEF LogEntry

LEMMA ReplayEmpty ==
    ASSUME NEW base \in Maps
    PROVE  Replay(base, <<>>) = base
<1>1. \A id \in Ids : Hits(<<>>, Len(<<>>), id) = {}
  BY DEF Hits
<1> QED
  BY <1>1 DEF Replay, Overlay, Maps

(* What each entry decides does not depend on the map it is replayed over. *)
LEMMA ReplayOver ==
    ASSUME NEW a, NEW b, NEW s, NEW id \in Ids
    PROVE  /\ Hits(s, Len(s), id) = {} => Replay(a, s)[id] = a[id]
           /\ Hits(s, Len(s), id) # {} => Replay(a, s)[id] = Replay(b, s)[id]
BY DEF Replay, Overlay

(* One entry sets its own id, unless its value is refused.                 *)
LEMMA ReplayOne ==
    ASSUME NEW base \in Maps, NEW id \in Ids, NEW val \in PointOrNone
    PROVE  Replay(base, <<[id |-> id, val |-> val]>>)
               = [x \in Ids |-> IF x = id /\ val \notin Refused THEN val ELSE base[x]]
<1> DEFINE s == <<[id |-> id, val |-> val]>>
<1>1. Len(s) = 1 /\ s[1].id = id /\ s[1].val = val
  OBVIOUS
<1> HIDE DEF s
<1>2. ASSUME NEW x \in Ids
      PROVE  Replay(base, s)[x] = IF x = id /\ val \notin Refused THEN val ELSE base[x]
  <2>1. CASE x = id /\ val \notin Refused
    <3>1. Hits(s, Len(s), x) = {1}
      BY <1>1, <2>1 DEF Hits
    <3>2. Last({1}) = 1
      BY DEF Last
    <3> QED
      BY <1>1, <2>1, <3>1, <3>2 DEF Replay, Overlay
  <2>2. CASE ~(x = id /\ val \notin Refused)
    <3>1. Hits(s, Len(s), x) = {}
      BY <1>1, <2>2 DEF Hits
    <3> QED
      BY <2>2, <3>1 DEF Replay, Overlay
  <2> QED
    BY <2>1, <2>2
<1>3. Replay(base, s) = [x \in Ids |-> Replay(base, s)[x]]
  BY DEF Replay, Overlay
<1> QED
  BY <1>2, <1>3 DEF s

(* The last of positions to which one more is added.                       *)
LEMMA LastAdded ==
    ASSUME NEW n \in Nat, NEW P \in SUBSET (0..n)
    PROVE  Last(P \cup {n + 1}) = n + 1
<1>1. \A j \in P \cup {n + 1} : j <= n + 1
  OBVIOUS
<1>2. ASSUME NEW x \in P \cup {n + 1}, \A j \in P \cup {n + 1} : j <= x
      PROVE  x = n + 1
  BY <1>2
<1> QED
  BY <1>1, <1>2 DEF Last

(* An entry at the end decides about its own id, and about no other.       *)
LEMMA HitsAppended ==
    ASSUME NEW s \in Seq(LogEntry), NEW e \in LogEntry, NEW id \in Ids
    PROVE  Hits(Append(s, e), Len(Append(s, e)), id) =
               Hits(s, Len(s), id) \cup (IF e.id = id /\ e.val \notin Refused THEN {Len(s) + 1} ELSE {})
<1>1. /\ Len(s) \in Nat /\ Len(Append(s, e)) = Len(s) + 1 /\ Append(s, e)[Len(s) + 1] = e
      /\ \A i \in 1..Len(s) : Append(s, e)[i] = s[i]
  OBVIOUS
<1>2. \A i \in 1..(Len(s) + 1) : i \in 1..Len(s) \/ i = Len(s) + 1
  BY <1>1
<1>3. \A i \in 1..Len(s) : i \in 1..(Len(s) + 1) /\ i # Len(s) + 1
  BY <1>1
<1>4. Len(s) + 1 \in 1..(Len(s) + 1)
  BY <1>1
<1> QED
  BY <1>1, <1>2, <1>3, <1>4 DEF Hits

LEMMA ReplayAppended ==
    ASSUME NEW base \in Maps, NEW s \in Seq(LogEntry), NEW e \in LogEntry, NEW id \in Ids
    PROVE  Replay(base, Append(s, e))[id] =
               IF e.id = id /\ e.val \notin Refused THEN e.val ELSE Replay(base, s)[id]
<1> DEFINE t == Append(s, e)
           H == Hits(s, Len(s), id)
           K == Hits(t, Len(t), id)
<1>1. /\ Len(s) \in Nat /\ t[Len(s) + 1] = e /\ \A i \in 1..Len(s) : t[i] = s[i]
      /\ H \in SUBSET (0..Len(s)) /\ H \subseteq 1..Len(s)
  BY DEF Hits
<1>2. K = H \cup (IF e.id = id /\ e.val \notin Refused THEN {Len(s) + 1} ELSE {})
  BY HitsAppended
<1>3. CASE e.id = id /\ e.val \notin Refused
  <2>1. K # {} /\ Last(K) = Len(s) + 1
    BY <1>1, <1>2, <1>3, LastAdded
  <2> QED
    BY <1>1, <1>3, <2>1 DEF Replay, Overlay
<1>4. CASE ~(e.id = id /\ e.val \notin Refused)
  <2>1. K = H
    BY <1>2, <1>4
  <2>2. H # {} => Last(H) \in H
    BY LastHit
  <2>3. H # {} => t[Last(H)] = s[Last(H)]
    BY <1>1, <2>2
  <2> QED
    BY <1>4, <2>1, <2>3 DEF Replay, Overlay
<1> QED
  BY <1>3, <1>4
-----------------------------------------------------------------------------
(* Listings of a finite set, and compaction *)

LEMMA Listing ==
    ASSUME NEW P, IsFiniteSet(P), NEW s \in S!SetToSeqs(P)
    PROVE  /\ s \in Seq(P) /\ Len(s) \in Nat /\ DOMAIN s = 1..Len(s)
           /\ \A x \in P : \E i \in 1..Len(s) : s[i] = x
<1> DEFINE k == Cardinality(P)
<1>1. k \in Nat
  BY FS_CardinalityType
<1>2. s \in [1..k -> P] /\ \A i, j \in 1..k : i # j => s[i] # s[j]
  <2>1. S!Cardinality(P) = Cardinality(P)
    BY DEF S!Cardinality, Cardinality
  <2> QED
    BY <2>1 DEF S!SetToSeqs
<1>3. s \in Surjection(1..k, P)
  <2>1. s \in Injection(1..k, P)
    BY <1>2 DEF Injection, IsInjective
  <2>2. Cardinality(1..k) = k /\ IsFiniteSet(1..k)
    BY <1>1, FS_Interval
  <2> QED
    BY <2>1, <2>2, FS_Injection
<1> HIDE DEF k
<1> QED
  BY <1>1, <1>2, <1>3 DEF Surjection

(* What holds of 0 and goes on from each number to the next, always holds. *)
LEMMA Induction ==
    ASSUME NEW T \in SUBSET Nat, 0 \in T, \A n \in T : n + 1 \in T
    PROVE  T = Nat
<1> SUFFICES ASSUME Nat \ T # {} PROVE FALSE
  OBVIOUS
<1>1. PICK n \in Nat \ T : \A m \in Nat \ T : n <= m
  BY LeastNatural
<1>2. n - 1 \in T
  BY <1>1
<1> QED
  BY <1>1, <1>2

(* Positions can be listed in order.                                       *)
Ascends(s) == \A i, j \in DOMAIN s : i < j => s[i] < s[j]

LEMMA Ascending ==
    ASSUME NEW n \in Nat, NEW P \in SUBSET (1..n)
    PROVE  IsFiniteSet(P) /\ \E s \in S!SetToSeqs(P) : Ascends(s)
<1> DEFINE T == {k \in Nat : \A R \in SUBSET (1..n) : Cardinality(R) = k =>
                    \E s \in [1..k -> R] : Ascends(s)}
<1>0. ASSUME NEW R \in SUBSET (1..n)
      PROVE  IsFiniteSet(R) /\ Cardinality(R) \in Nat
  <2>1. IsFiniteSet(1..n)
    BY FS_Interval
  <2>2. IsFiniteSet(R)
    BY <2>1, FS_Subset
  <2> QED
    BY <2>2, FS_CardinalityType
<1>1. 0 \in T
  <2> SUFFICES ASSUME NEW R \in SUBSET (1..n), Cardinality(R) = 0
               PROVE  \E s \in [1..0 -> R] : Ascends(s)
    OBVIOUS
  <2>1. R = {} /\ 1..0 = {}
    BY <1>0, FS_EmptySet
  <2>2. [i \in 1..0 |-> i] \in [1..0 -> R] /\ Ascends([i \in 1..0 |-> i])
    BY <2>1 DEF Ascends
  <2> QED
    BY <2>2
<1>2. ASSUME NEW k \in T PROVE k + 1 \in T
  <2> SUFFICES ASSUME NEW R \in SUBSET (1..n), Cardinality(R) = k + 1
               PROVE  \E t \in [1..(k + 1) -> R] : Ascends(t)
    OBVIOUS
  <2>0. k \in Nat /\ k + 1 # 0 /\ Cardinality({}) = 0
    BY FS_EmptySet
  <2>1. R # {} /\ R \in SUBSET (0..n)
    <3>1. R \in SUBSET (0..n)
      OBVIOUS
    <3> QED
      BY <2>0, <3>1
  <2>2. PICK x \in R : \A y \in R : y <= x
    BY <2>1, LastExists
  <2>3. PICK Q \in SUBSET (1..n) : Q = R \ {x}
    OBVIOUS
  <2>4. Cardinality(Q) = k
    <3>1. Cardinality(R \ {x}) = Cardinality(R) - 1 /\ k \in Nat
      BY <1>0, <2>2, FS_RemoveElement
    <3> QED
      BY <2>3, <3>1
  <2>5. PICK s \in [1..k -> Q] : Ascends(s)
    BY <2>4
  <2>6. PICK t : t = [i \in 1..(k + 1) |-> IF i = k + 1 THEN x ELSE s[i]]
    OBVIOUS
  <2>7. /\ DOMAIN t = 1..(k + 1) /\ t[k + 1] = x
        /\ \A i \in 1..k : i \in 1..(k + 1) /\ t[i] = s[i] /\ t[i] \in Q /\ i < k + 1
        /\ \A i \in 1..(k + 1) : i \in 1..k \/ i = k + 1
    BY <2>5, <2>6
  <2>8. t \in [1..(k + 1) -> R]
    BY <2>3, <2>6, <2>7
  <2>9. \A y \in Q : y < x
    BY <2>2, <2>3
  <2>10. ASSUME NEW i \in 1..(k + 1), NEW j \in 1..(k + 1), i < j PROVE t[i] < t[j]
    <3>1. i \in 1..k
      BY <2>7, <2>10
    <3>2. CASE j = k + 1
      BY <2>7, <2>9, <3>1, <3>2
    <3>3. CASE j \in 1..k
      BY <2>5, <2>7, <2>10, <3>1, <3>3 DEF Ascends
    <3> QED
      BY <2>7, <3>2, <3>3
  <2> QED
    BY <2>7, <2>8, <2>10 DEF Ascends
<1>3. T = Nat
  <2> HIDE DEF T
  <2>1. T \subseteq Nat
    BY DEF T
  <2> QED
    BY <1>1, <1>2, <2>1, Induction
<1>4. PICK s \in [1..Cardinality(P) -> P] : Ascends(s)
  BY <1>0, <1>3
<1>5. s \in S!SetToSeqs(P)
  <2>1. S!Cardinality(P) = Cardinality(P)
    BY DEF S!Cardinality, Cardinality
  <2>2. ASSUME NEW i \in 1..Cardinality(P), NEW j \in 1..Cardinality(P), i # j PROVE s[i] # s[j]
    <3>0. Cardinality(P) \in Nat /\ s[i] \in 1..n /\ s[j] \in 1..n
      BY <1>0, <1>4
    <3>1. (i < j \/ j < i) /\ s[i] \in Nat /\ s[j] \in Nat
      BY <2>2, <3>0
    <3>2. i < j => s[i] < s[j]
      BY <1>4 DEF Ascends
    <3>3. j < i => s[j] < s[i]
      BY <1>4 DEF Ascends
    <3> QED
      BY <3>1, <3>2, <3>3
  <2> QED
    BY <1>4, <2>1, <2>2 DEF S!SetToSeqs
<1> QED
  BY <1>0, <1>4, <1>5

(* A compacted log is the log, or one in the encoding asked for whose      *)
(* entries are some of its own.                                            *)
LEMMA CompactedType ==
    ASSUME NEW l \in Logs, NEW cutoff, NEW compress \in BOOLEAN
    PROVE  LET c == Compacted(l, cutoff, compress)
           IN  /\ c \in Logs
               /\ c # l => \A i \in 1..Len(c.entries) : c.entries[i].z = c.magic
               /\ \A i \in 1..Len(c.entries) :
                     \E j \in 1..Len(l.entries) : c.entries[i].ts = l.entries[j].ts
<1> DEFINE s == ReadEntries(l)
           P == {i \in DOMAIN s : s[i].ts >= cutoff}
           order == InOrder(P)
           c == Compacted(l, cutoff, compress)
<1>1. /\ s \in Seq(LogEntry) /\ Len(s) \in Nat /\ DOMAIN s = 1..Len(s)
      /\ \A i \in 1..Len(s) : s[i] \in LogEntry /\ i \in 1..Len(l.entries) /\ s[i] = l.entries[i]
  BY ReadType
<1>2. CASE P = DOMAIN s
  <2>1. c = l
    BY <1>2 DEF Compacted
  <2> QED
    BY <2>1
<1>3. CASE P # DOMAIN s
  <2>1. P \in SUBSET (1..Len(s))
    BY <1>1
  <2>2. IsFiniteSet(P) /\ \E r \in S!SetToSeqs(P) : Ascends(r)
    <3> HIDE DEF P
    <3> QED
      BY <1>1, <2>1, Ascending
  <2>3. order \in S!SetToSeqs(P)
    <3> HIDE DEF P
    <3> QED
      BY <2>2 DEF InOrder, Ascends
  <2>4. order \in Seq(P) /\ Len(order) \in Nat /\ DOMAIN order = 1..Len(order)
    <3> HIDE DEF P, order
    <3> QED
      BY <2>2, <2>3, Listing
  <2>5. c = [magic |-> compress,
             entries |-> [i \in DOMAIN order |-> [s[order[i]] EXCEPT !.z = compress]]]
    BY <1>3 DEF Compacted
  <2> HIDE DEF c, order, P
  <2>6. ASSUME NEW i \in 1..Len(order)
        PROVE  /\ order[i] \in 1..Len(s)
               /\ s[order[i]] \in LogEntry
               /\ [s[order[i]] EXCEPT !.z = compress] \in LogEntry
               /\ [s[order[i]] EXCEPT !.z = compress].z = compress
               /\ [s[order[i]] EXCEPT !.z = compress].ts = s[order[i]].ts
    <3>1. order[i] \in P
      BY <2>4
    <3>2. order[i] \in 1..Len(s)
      BY <2>1, <3>1
    <3>3. s[order[i]] \in LogEntry
      BY <1>1, <3>2
    <3> QED
      BY <3>2, <3>3 DEF LogEntry
  <2>7. /\ c.magic = compress /\ Len(c.entries) = Len(order)
        /\ c.entries \in Seq(LogEntry)
        /\ \A i \in 1..Len(order) : c.entries[i] = [s[order[i]] EXCEPT !.z = compress]
    <3>1. c.entries = [i \in 1..Len(order) |-> [s[order[i]] EXCEPT !.z = compress]]
      BY <2>4, <2>5
    <3>2. c.entries \in [1..Len(order) -> LogEntry]
      BY <2>6, <3>1
    <3> QED
      BY <2>4, <2>5, <2>6, <3>1, <3>2
  <2>8. c \in Logs
    BY <2>5, <2>7 DEF Logs
  <2>9. ASSUME NEW i \in 1..Len(c.entries)
        PROVE  /\ c.entries[i].z = c.magic
               /\ \E j \in 1..Len(l.entries) : c.entries[i].ts = l.entries[j].ts
    <3>1. i \in 1..Len(order) /\ c.entries[i] = [s[order[i]] EXCEPT !.z = compress]
      BY <2>7
    <3>2. c.entries[i].z = compress /\ c.entries[i].ts = s[order[i]].ts /\ order[i] \in 1..Len(s)
      BY <2>6, <3>1
    <3>3. order[i] \in 1..Len(l.entries) /\ s[order[i]] = l.entries[order[i]]
      BY <1>1, <3>2
    <3> QED
      BY <2>7, <3>2, <3>3
  <2> QED
    BY <2>8, <2>9 DEF c
<1> QED
  BY <1>2, <1>3
-----------------------------------------------------------------------------
(* Facts about the files *)

LEMMA PlaceFacts ==
    /\ Root \in Places /\ Root \notin Namespaces /\ Namespaces \subseteq Places
    /\ \A p \in Places : p # Root => p \in Namespaces
    /\ \A id \in Ids : id[1] \in Places
BY DEF Places, Namespaces

LEMMA DataFacts ==
    /\ EmptyMap \in Maps /\ NoFile \notin Maps /\ NoCollection \notin Maps
    /\ NoFile \notin Days /\ None \in PointOrNone
    /\ \A m \in Maps, id \in Ids : m[id] \in PointOrNone
    /\ \A m \in Maps : (\A id \in Ids : m[id] = None) => m = EmptyMap
    /\ \A id \in Ids : EmptyMap[id] = None
BY CollectionFilesAssumption, DataDirectoryAssumption DEF Maps, EmptyMap, PointOrNone, Days

LEMMA MapsEqual ==
    ASSUME NEW m \in Maps, NEW n \in Maps, \A id \in Ids : m[id] = n[id]
    PROVE  m = n
BY DEF Maps

Switches == [binary : BOOLEAN, isolated : BOOLEAN, compress : BOOLEAN]

LEMMA FormatFacts ==
    ASSUME NEW b \in BOOLEAN
    PROVE  /\ Format(b) \in Formats /\ Format(b) # "sum"
           /\ (Format(b) = "bin") = b /\ (Format(b) = "jsonl") = ~b
BY DEF Format, Formats

LEMMA PartFacts ==
    ASSUME NEW m \in Maps, NEW p, NEW iso \in BOOLEAN
    PROVE  /\ PartOf(m, p, iso) \in Maps
           /\ \A id \in Ids : PartOf(m, p, iso)[id] = IF iso /\ id[1] # p THEN None ELSE m[id]
BY DEF PartOf, Maps, PointOrNone

LEMMA FilesType ==
    ASSUME NEW held \in PointFiles
    PROVE  /\ Chosen(held) \in Formats /\ PointsIn(held) \in Maps
           /\ \A f \in Formats : held[f] \in Maps \cup {NoFile}
           /\ held = [bin |-> held["bin"], jsonl |-> held["jsonl"], sum |-> held["sum"]]
<1>1. Chosen(held) \in Formats
  BY DEF Chosen, Format, Formats
<1>2. \A f \in Formats : held[f] \in Maps \cup {NoFile}
  BY DEF Formats, PointFiles
<1>3. PointsIn(held) \in Maps
  BY <1>1, <1>2, DataFacts DEF PointsIn
<1> QED
  BY <1>1, <1>2, <1>3 DEF PointFiles

LEMMA EmptyFiles ==
    /\ NoFiles \in PointFiles /\ Intact(NoFiles) /\ PointsIn(NoFiles) = EmptyMap
    /\ \A f \in Formats \cup {"sum"} : NoFiles[f] = NoFile
BY DEF NoFiles, PointFiles, Intact, PointsIn, Chosen, Format, Formats

LEMMA EmptyDirectory ==
    /\ NoDirectory \in Directories /\ NoDirectory.config = NoFile /\ NoDirectory.stamp = 0
    /\ \A p \in Places : NoDirectory.at[p] = NoFiles
BY EmptyFiles DEF NoDirectory, Directories

LEMMA LoadedType ==
    ASSUME NEW d \in Directories
    PROVE  /\ Loaded(d) \in Maps
           /\ \A p \in Places : d.at[p] \in PointFiles
<1>1. \A p \in Places : d.at[p] \in PointFiles
  BY DEF Directories
<1>2. ASSUME NEW id \in Ids, NEW own, own = PointsIn(d.at[id[1]])[id]
      PROVE  (IF own # None THEN own ELSE PointsIn(d.at[Root])[id]) \in PointOrNone
  BY <1>1, <1>2, PlaceFacts, FilesType, DataFacts
<1> QED
  BY <1>1, <1>2 DEF Loaded, Maps

LEMMA RecoveredType ==
    ASSUME NEW d \in Directories, NEW l \in Logs
    PROVE  /\ Recovered(d, l) \in Maps \cup {NoCollection}
           /\ d.config # NoFile => /\ Recovered(d, l) \in Maps
                                   /\ Recovered(d, l) = Replay(Loaded(d), ReadEntries(l))
BY LoadedType, ReadType, ReplayType DEF Recovered

(* Each point comes from the one place that may hold it.                   *)
LEMMA LoadedAt ==
    ASSUME NEW d \in Directories, NEW iso \in BOOLEAN, NEW id \in Ids,
           ~iso => \A p \in Namespaces, f \in Formats : d.at[p][f] = NoFile,
           iso => \A f \in Formats :
              id[1] # Root /\ d.at[Root][f] # NoFile => d.at[Root][f][id] = None
    PROVE  Loaded(d)[id] = PointsIn(d.at[IF iso THEN id[1] ELSE Root])[id]
<1>1. Loaded(d)[id] = IF PointsIn(d.at[id[1]])[id] # None THEN PointsIn(d.at[id[1]])[id]
                      ELSE PointsIn(d.at[Root])[id]
  BY DEF Loaded
<1>2. /\ id[1] \in Places /\ (id[1] # Root => id[1] \in Namespaces) /\ Root \in Places
      /\ d.at[id[1]] \in PointFiles /\ d.at[Root] \in PointFiles
      /\ Chosen(d.at[id[1]]) \in Formats /\ Chosen(d.at[Root]) \in Formats
  BY PlaceFacts, LoadedType, FilesType
<1>3. CASE id[1] = Root
  BY <1>1, <1>3
<1>4. CASE id[1] # Root /\ iso
  <2>1. PointsIn(d.at[Root])[id] = None
    BY <1>2, <1>4, DataFacts DEF PointsIn
  <2> QED
    BY <1>1, <1>4, <2>1
<1>5. CASE id[1] # Root /\ ~iso
  <2>1. PointsIn(d.at[id[1]])[id] = None
    BY <1>2, <1>5, DataFacts DEF PointsIn
  <2> QED
    BY <1>1, <1>5, <2>1
<1> QED
  BY <1>3, <1>4, <1>5

(* What a write changes, and what it does not.                             *)
LEMMA WriteType ==
    ASSUME NEW w \in Writes
    PROVE  /\ w.file \in {"config", "stamp", "sum"} \cup Formats /\ w.place \in Places
           /\ w.file = "config" => w.data \in Days
           /\ w.file \in Formats => w.data \in Maps
           /\ w.file = "sum" => w.data \in Formats \X Maps
BY PlaceFacts DEF Writes, Formats

LEMMA PutWhat ==
    ASSUME NEW d \in Directories, NEW w \in Writes, NEW time \in Nat
    PROVE  /\ Put(d, w, time) \in Directories
           /\ Put(d, w, time).config = IF w.file = "config" THEN w.data ELSE d.config
           /\ Put(d, w, time).stamp = IF w.file = "stamp" THEN time ELSE d.stamp
           /\ w.file \in {"config", "stamp"} => Put(d, w, time).at = d.at
           /\ \A p \in Places : w.place # p => Put(d, w, time).at[p] = d.at[p]
           /\ \A p \in Places, f \in Formats \cup {"sum"} :
                 Put(d, w, time).at[p][f] = IF w.place = p /\ w.file = f THEN w.data ELSE d.at[p][f]
<1> DEFINE e == Put(d, w, time)
<1>0. w.file \in {"config", "stamp", "sum"} \cup Formats /\ w.place \in Places
  BY WriteType
<1>1. CASE w.file = "config"
  BY <1>1, WriteType DEF Put, Directories, Formats
<1>2. CASE w.file = "stamp"
  BY <1>2, WriteType DEF Put, Directories, Formats
<1>3. CASE w.file \in Formats \cup {"sum"}
  <2>1. e = [d EXCEPT !.at[w.place][w.file] = w.data]
    <3>1. w.file # "config" /\ w.file # "stamp"
      BY <1>3 DEF Formats
    <3> QED
      BY <3>1 DEF Put
  <2>2. d.at \in [Places -> PointFiles]
    BY DEF Directories
  <2> HIDE DEF e
  <2>3. [d.at[w.place] EXCEPT ![w.file] = w.data] \in PointFiles
    BY <1>0, <1>3, <2>2, WriteType DEF PointFiles, Formats
  <2>4. e.at = [d.at EXCEPT ![w.place] = [d.at[w.place] EXCEPT ![w.file] = w.data]]
    <3>1. d.at \in [Places -> PointFiles] /\ DOMAIN d = {"config", "stamp", "at"}
      BY DEF Directories
    <3> QED
      BY <2>1, <3>1
  <2>5. e.at \in [Places -> PointFiles]
    BY <2>2, <2>3, <2>4
  <2>6. e \in Directories /\ e.config = d.config /\ e.stamp = d.stamp
    BY <2>1, <2>5 DEF Directories
  <2>7. \A p \in Places : w.place # p => e.at[p] = d.at[p]
    BY <2>2, <2>4
  <2>8. e.at[w.place] = [d.at[w.place] EXCEPT ![w.file] = w.data]
    BY <1>0, <2>2, <2>4
  <2>9. \A f \in Formats \cup {"sum"} :
           e.at[w.place][f] = IF w.file = f THEN w.data ELSE d.at[w.place][f]
    BY <1>0, <2>2, <2>8 DEF PointFiles, Formats
  <2> QED
    BY <1>0, <1>3, <2>6, <2>7, <2>9 DEF Formats, e
<1> QED
  BY <1>0, <1>1, <1>2, <1>3
-----------------------------------------------------------------------------
(* Recovery to a time *)

Needed(d, e, target) == e.ts <= target /\ (d.stamp = 0 \/ e.ts > d.stamp)

LEMMA RecoveredToType ==
    ASSUME NEW d \in Directories, NEW l \in Logs, NEW target
    PROVE  RecoveredTo(d, l, target) \in Maps
<1> DEFINE s == ReadEntries(l)
<1>1. s \in Seq(LogEntry) /\ Loaded(d) \in Maps
  BY ReadType, LoadedType
<1> SUFFICES ASSUME NEW id \in Ids,
                    NEW v, v = IF HitsTo(d, s, target, id) = {} THEN Loaded(d)[id]
                               ELSE s[Last(HitsTo(d, s, target, id))].val
             PROVE  v \in PointOrNone
  BY DEF RecoveredTo, Maps
<1>2. HitsTo(d, s, target, id) \in SUBSET Hits(s, Len(s), id)
  BY DEF HitsTo
<1> HIDE DEF s
<1>3. HitsTo(d, s, target, id) # {} => s[Last(HitsTo(d, s, target, id))] \in LogEntry
  BY <1>1, <1>2, LastHit
<1> QED
  BY <1>1, <1>3, DataFacts DEF LogEntry

LEMMA NoneNeeded ==
    ASSUME NEW d \in Directories, NEW l \in Logs, NEW target,
           \A i \in 1..Len(ReadEntries(l)) : ~Needed(d, ReadEntries(l)[i], target)
    PROVE  RecoveredTo(d, l, target) = Loaded(d)
<1>1. \A id \in Ids : HitsTo(d, ReadEntries(l), target, id) = {}
  BY DEF HitsTo, Hits, Needed
<1>2. RecoveredTo(d, l, target) = [id \in Ids |-> Loaded(d)[id]]
  BY <1>1 DEF RecoveredTo
<1> QED
  BY <1>2, LoadedType DEF Maps

LEMMA AllNeeded ==
    ASSUME NEW d \in Directories, NEW l \in Logs, NEW target,
           \A i \in 1..Len(ReadEntries(l)) : Needed(d, ReadEntries(l)[i], target)
    PROVE  RecoveredTo(d, l, target) = Replay(Loaded(d), ReadEntries(l))
<1>1. \A id \in Ids : HitsTo(d, ReadEntries(l), target, id) = Hits(ReadEntries(l), Len(ReadEntries(l)), id)
  BY DEF HitsTo, Hits, Needed
<1> QED
  BY <1>1 DEF RecoveredTo, Replay, Overlay

LEMMA RecoveredToSame ==
    ASSUME NEW d, NEW e, NEW l, NEW k, NEW target,
           Loaded(e) = Loaded(d), e.stamp = d.stamp, ReadEntries(k) = ReadEntries(l)
    PROVE  RecoveredTo(e, k, target) = RecoveredTo(d, l, target)
BY DEF RecoveredTo, HitsTo

(* An entry more decides about its own id, if it is needed.                *)
LEMMA RecoveredToAppended ==
    ASSUME NEW d \in Directories, NEW l \in Logs, NEW k \in Logs, NEW e \in LogEntry, NEW target,
           ReadEntries(k) = Append(ReadEntries(l), e), NEW id \in Ids
    PROVE  RecoveredTo(d, k, target)[id] =
               IF e.id = id /\ e.val \notin Refused /\ Needed(d, e, target) THEN e.val
               ELSE RecoveredTo(d, l, target)[id]
<1> DEFINE s == ReadEntries(l)
           t == ReadEntries(k)
           H == HitsTo(d, s, target, id)
           K == HitsTo(d, t, target, id)
<1>1. /\ s \in Seq(LogEntry) /\ Len(s) \in Nat /\ t = Append(s, e) /\ Loaded(d) \in Maps
      /\ t[Len(s) + 1] = e /\ \A i \in 1..Len(s) : t[i] = s[i]
  <2>1. s \in Seq(LogEntry) /\ Len(s) \in Nat /\ t = Append(s, e) /\ Loaded(d) \in Maps
    BY ReadType, LoadedType
  <2> HIDE DEF s
  <2> QED
    BY <2>1
<1>2. /\ RecoveredTo(d, k, target)[id] = IF K = {} THEN Loaded(d)[id] ELSE t[Last(K)].val
      /\ RecoveredTo(d, l, target)[id] = IF H = {} THEN Loaded(d)[id] ELSE s[Last(H)].val
  BY DEF RecoveredTo
<1> HIDE DEF s, t
<1>3. H \in SUBSET Hits(s, Len(s), id) /\ H \in SUBSET (0..Len(s)) /\ H \subseteq 1..Len(s)
  BY <1>1 DEF HitsTo, Hits
<1>4. Hits(t, Len(t), id) = Hits(s, Len(s), id)
            \cup (IF e.id = id /\ e.val \notin Refused THEN {Len(s) + 1} ELSE {})
  BY <1>1, HitsAppended
<1>5. K = H \cup (IF e.id = id /\ e.val \notin Refused /\ Needed(d, e, target) THEN {Len(s) + 1} ELSE {})
  <2>1. \A i \in Hits(s, Len(s), id) : t[i] = s[i]
    BY <1>1 DEF Hits
  <2> QED
    BY <1>1, <1>4, <2>1 DEF HitsTo, Needed
<1>6. CASE e.id = id /\ e.val \notin Refused /\ Needed(d, e, target)
  <2>1. K # {} /\ Last(K) = Len(s) + 1
    BY <1>1, <1>3, <1>5, <1>6, LastAdded
  <2> HIDE DEF H, K
  <2> QED
    BY <1>1, <1>2, <1>6, <2>1
<1>7. CASE ~(e.id = id /\ e.val \notin Refused /\ Needed(d, e, target))
  <2>1. K = H
    BY <1>5, <1>7
  <2>2. H # {} => Last(H) \in 1..Len(s)
    BY <1>1, <1>3, LastHit
  <2> HIDE DEF H, K
  <2>3. H # {} => t[Last(H)] = s[Last(H)]
    BY <1>1, <2>2
  <2> QED
    BY <1>2, <1>7, <2>1, <2>3
<1> QED
  BY <1>6, <1>7
-----------------------------------------------------------------------------
(* A save, file after file *)

LEMMA Typed ==
    ASSUME TypeOK
    PROVE  /\ options \in Switches /\ load.options \subseteq Switches
           /\ options.binary \in BOOLEAN /\ options.isolated \in BOOLEAN /\ options.compress \in BOOLEAN
           /\ Own \in Formats /\ now \in Nat /\ now >= 1 /\ now \in Seconds
           /\ todo \in Seq(Writes) /\ Len(todo) \in Nat
           /\ dir \in Directories /\ log \in Logs /\ dir.stamp \in Nat
           /\ \A p \in Places : dir.at[p] \in PointFiles
           /\ points \in Maps \cup {NoCollection} /\ retention \in Days
<1>1. load.options \subseteq Switches /\ options \in Switches
  BY DataDirectoryAssumption DEF TypeOK, Switches
<1>2. Own \in Formats
  BY <1>1, FormatFacts DEF Own, Switches
<1>3. now \in Nat /\ now >= 1
  BY DataDirectoryAssumption DEF TypeOK, Seconds
<1>4. dir \in Directories /\ log \in Logs /\ todo \in Seq(Writes)
  BY DEF TypeOK
<1>5. dir.stamp \in Nat /\ \A p \in Places : dir.at[p] \in PointFiles
  BY <1>4, LoadedType DEF Directories
<1> QED
  BY <1>1, <1>2, <1>3, <1>4, <1>5 DEF TypeOK, Switches

LEMMA DueWrite ==
    ASSUME TypeOK, ProgramInv, SaveInv, NEW i \in 1..Len(todo)
    PROVE  /\ todo[i] \in Writes /\ points \in Maps
           /\ todo[i].file = "config" => todo[i].data = retention
           /\ todo[i].file \in Formats =>
                 Holds(todo[i].place) /\ todo[i].file = Own /\ todo[i].data = Part(todo[i].place)
           /\ todo[i].file = "sum" =>
                 Holds(todo[i].place) /\ todo[i].data = <<Own, Part(todo[i].place)>>
<1>1. todo \in Seq(Writes) /\ todo # <<>> /\ Own \in Formats
  BY Typed
<1>2. points \in Maps
  BY <1>1 DEF TypeOK, ProgramInv
<1>3. Due(todo[i]) /\ todo[i] \in Writes
  BY <1>1 DEF SaveInv
<1> HIDE DEF Own
<1> QED
  BY <1>1, <1>2, <1>3 DEF Due, Formats

LEMMA TailFacts ==
    ASSUME TypeOK, todo # <<>>
    PROVE  /\ Tail(todo) \in Seq(Writes) /\ Len(Tail(todo)) = Len(todo) - 1
           /\ \A i \in 1..Len(Tail(todo)) : i + 1 \in 1..Len(todo) /\ Tail(todo)[i] = todo[i + 1]
           /\ Tail(todo) # <<>> => Head(Tail(todo)) = todo[2] /\ 2 \in 1..Len(todo)
           /\ Tail(todo) = <<>> => Len(todo) = 1
           /\ 1 \in 1..Len(todo) /\ Head(todo) = todo[1] /\ Len(todo) \in Nat
           /\ \A i \in 1..Len(todo) : i = 1 \/ (i - 1 \in 1..Len(Tail(todo)) /\ todo[i] = Tail(todo)[i - 1])
<1>1. todo \in Seq(Writes) /\ Len(todo) \in Nat /\ Len(todo) # 0
  BY Typed
<1>2. Tail(todo) \in Seq(Writes) /\ Len(Tail(todo)) = Len(todo) - 1
  BY <1>1
<1>3. \A i \in 1..Len(Tail(todo)) : i + 1 \in 1..Len(todo) /\ Tail(todo)[i] = todo[i + 1]
  BY <1>1, <1>2
<1>4. Tail(todo) # <<>> => Head(Tail(todo)) = todo[2] /\ 2 \in 1..Len(todo)
  BY <1>1, <1>2, <1>3
<1>5. Tail(todo) = <<>> => Len(todo) = 1
  <2>1. Len(<<>>) = 0
    OBVIOUS
  <2>2. Tail(todo) = <<>> => Len(Tail(todo)) = 0
    BY <2>1, Zenon
  <2>3. PICK n : n = Len(Tail(todo)) /\ n = Len(todo) - 1
    BY <1>2
  <2>4. n = 0 => Len(todo) = 1
    BY <1>1, <2>3
  <2> QED
    BY <2>2, <2>3, <2>4
<1>6. 1 \in 1..Len(todo) /\ Head(todo) = todo[1]
  BY <1>1
<1>7. ASSUME NEW i \in 1..Len(todo), i # 1
      PROVE  i - 1 \in 1..Len(Tail(todo)) /\ todo[i] = Tail(todo)[i - 1]
  <2>1. i - 1 \in 1..Len(Tail(todo)) /\ (i - 1) + 1 = i
    BY <1>1, <1>2, <1>7
  <2> QED
    BY <1>3, <2>1
<1> QED
  BY <1>1, <1>2, <1>3, <1>4, <1>5, <1>6, <1>7

(* What the file on its way leaves behind.                                 *)
LEMMA WritePut ==
    ASSUME TypeOK, ProgramInv, SaveInv, WriteFile
    PROVE  /\ dir' \in Directories /\ Head(todo) \in Writes
           /\ dir'.config = IF Head(todo).file = "config" THEN retention ELSE dir.config
           /\ dir'.stamp = IF Head(todo).file = "stamp" THEN now ELSE dir.stamp
           /\ \A p \in Places : dir'.at[p] \in PointFiles
           /\ Head(todo).file \in {"config", "stamp"} => dir'.at = dir.at
           /\ \A p \in Places : Head(todo).place # p => dir'.at[p] = dir.at[p]
           /\ \A p \in Places, f \in Formats \cup {"sum"} :
                 dir'.at[p][f] = IF Head(todo).place = p /\ Head(todo).file = f THEN Head(todo).data
                                 ELSE dir.at[p][f]
<1>1. Head(todo) \in Writes /\ dir' = Put(dir, Head(todo), now) /\ dir \in Directories /\ now \in Nat
      /\ (Head(todo).file = "config" => Head(todo).data = retention)
  BY Typed, TailFacts, DueWrite DEF WriteFile
<1>2. /\ Put(dir, Head(todo), now) \in Directories
      /\ Put(dir, Head(todo), now).config = IF Head(todo).file = "config" THEN Head(todo).data ELSE dir.config
      /\ Put(dir, Head(todo), now).stamp = IF Head(todo).file = "stamp" THEN now ELSE dir.stamp
      /\ Head(todo).file \in {"config", "stamp"} => Put(dir, Head(todo), now).at = dir.at
      /\ \A p \in Places : Head(todo).place # p => Put(dir, Head(todo), now).at[p] = dir.at[p]
      /\ \A p \in Places, f \in Formats \cup {"sum"} :
            Put(dir, Head(todo), now).at[p][f] =
               IF Head(todo).place = p /\ Head(todo).file = f THEN Head(todo).data ELSE dir.at[p][f]
  BY <1>1, PutWhat
<1>3. \A p \in Places : dir'.at[p] \in PointFiles
  BY <1>1, <1>2, LoadedType
<1> QED
  BY <1>1, <1>2, <1>3

LEMMA WriteSame ==
    ASSUME WriteFile
    PROVE  /\ Own' = Own /\ \A p \in Places : Part(p)' = Part(p) /\ (Holds(p)' <=> Holds(p))
           /\ todo # <<>> /\ todo' = Tail(todo)
BY DEF WriteFile, Own, Part, Holds

(* A place is as the save wants it as soon as its points are written.      *)
LEMMA FreshWhen ==
    ASSUME NEW held \in PointFiles, NEW b \in BOOLEAN, NEW m \in Maps,
           held[Format(b)] = m, ~b => held.bin = NoFile
    PROVE  /\ Chosen(held) = Format(b) /\ held[Chosen(held)] = m /\ PointsIn(held) = m
           /\ held.sum = <<Format(b), m>> => Intact(held)
<1>1. m # NoFile
  BY DataFacts
<1>2. Chosen(held) = Format(b)
  BY <1>1 DEF Chosen, Format
<1> QED
  BY <1>1, <1>2 DEF PointsIn, Intact

LEMMA WriteKeepsSave ==
    ASSUME TypeOK, ProgramInv, SaveInv, FilesInv, WriteFile
    PROVE  /\ SaveInv'
           /\ \A p \in Places : Holds(p) /\ ~Ahead(p)' => Fresh(p)' /\ Intact(dir'.at[p])
           /\ dir'.config # NoFile
           /\ Head(todo).file # "config" => dir.config # NoFile
           /\ Stamped' => dir'.stamp # 0
           /\ todo' = <<>> => Stamped
<1> DEFINE w == Head(todo)
<1>1. /\ todo # <<>> /\ todo' = Tail(todo) /\ todo \in Seq(Writes) /\ todo' \in Seq(Writes)
      /\ Len(todo') = Len(todo) - 1 /\ Len(todo) \in Nat
      /\ \A i \in 1..Len(todo') : i + 1 \in 1..Len(todo) /\ todo'[i] = todo[i + 1]
      /\ \A i \in 1..Len(todo) : i = 1 \/ (i - 1 \in 1..Len(todo') /\ todo[i] = todo'[i - 1])
      /\ 1 \in 1..Len(todo) /\ Head(todo) = todo[1]
      /\ todo' # <<>> => Head(todo') = todo[2] /\ 2 \in 1..Len(todo)
      /\ todo' = <<>> => Len(todo) = 1
  BY TailFacts, WriteSame, Typed
<1>2. /\ \A i \in 1..Len(todo) : Due(todo[i])
      /\ Ordered(todo)
      /\ ~Stamped => \A p \in Places : Holds(p) =>
            \E i \in 1..Len(todo) : todo[i].file \in Formats /\ todo[i].place = p
      /\ \A p \in Places : Holds(p) /\ ~Ahead(p) => Fresh(p) /\ Intact(dir.at[p])
      /\ Head(todo).file = "sum" => Fresh(Head(todo).place)
      /\ Head(todo).file # "config" => dir.config # NoFile
      /\ Stamped => dir.stamp # 0
  BY <1>1 DEF SaveInv
<1>4. (\A i \in 1..Len(todo) : Due(todo[i]))'
  <2> SUFFICES ASSUME NEW i \in 1..Len(todo') PROVE Due(todo[i])'
    OBVIOUS
  <2>1. PICK x \in Writes : x = todo'[i] /\ Due(x)
    BY <1>1, <1>2
  <2>2. Due(x)'
    BY <2>1 DEF Due, Holds, Part, Own, WriteFile
  <2> QED
    BY <2>1, <2>2 DEF Due
<1>5. Ordered(todo')
  <2>1. ASSUME NEW i \in 1..Len(todo'), todo'[i].file \in Formats
        PROVE  i < Len(todo') /\ todo'[i + 1].file = "sum" /\ todo'[i + 1].place = todo'[i].place
    <3>1. i + 1 \in 1..Len(todo) /\ todo[i + 1].file \in Formats
      BY <1>1, <2>1
    <3>2. i + 1 < Len(todo) /\ todo[i + 2].file = "sum" /\ todo[i + 2].place = todo[i + 1].place
      BY <1>2, <3>1 DEF Ordered
    <3>3. i + 1 \in 1..Len(todo') /\ todo'[i + 1] = todo[i + 2]
      BY <1>1, <3>1, <3>2
    <3> QED
      BY <1>1, <3>2, <3>3
  <2>2. ASSUME NEW i \in 2..Len(todo'), todo'[i].file = "sum"
        PROVE  todo'[i - 1].file \in Formats /\ todo'[i - 1].place = todo'[i].place
    <3>1. /\ i \in 1..Len(todo') /\ i - 1 \in 1..Len(todo') /\ i + 1 \in 2..Len(todo)
          /\ todo'[i] = todo[i + 1] /\ todo'[i - 1] = todo[i] /\ (i + 1) - 1 = i
      BY <1>1
    <3>2. todo[(i + 1) - 1].file \in Formats /\ todo[(i + 1) - 1].place = todo[i + 1].place
      BY <1>2, <2>2, <3>1 DEF Ordered
    <3> QED
      BY <3>1, <3>2
  <2>3. ASSUME NEW i \in 1..Len(todo') PROVE todo'[i].file # "config"
    <3>1. i + 1 \in 1..Len(todo) /\ todo'[i] = todo[i + 1] /\ i + 1 # 1
      BY <1>1
    <3> QED
      BY <1>2, <3>1 DEF Ordered
  <2>4. ASSUME NEW i \in 1..Len(todo'), todo'[i].file = "stamp" PROVE i = 1
    <3>1. i + 1 \in 1..Len(todo) /\ todo'[i] = todo[i + 1] /\ i + 1 # 1
      BY <1>1
    <3> QED
      BY <1>2, <2>4, <3>1 DEF Ordered
  <2> QED
    BY <2>1, <2>2, <2>3, <2>4 DEF Ordered
<1>6. ASSUME ~Stamped' PROVE todo[1].file = "config" /\ ~Stamped
  <2>1. PICK i \in 1..Len(todo') : todo'[i].file = "stamp"
    BY <1>6 DEF Stamped
  <2>2. i + 1 \in 1..Len(todo) /\ todo[i + 1].file = "stamp" /\ i + 1 # 1
    BY <1>1, <2>1
  <2>3. todo[1].file = "config"
    BY <1>2, <2>2 DEF Ordered
  <2> QED
    BY <2>2, <2>3 DEF Stamped
<1>7. ASSUME ~Stamped', NEW p \in Places, Holds(p)
      PROVE  \E i \in 1..Len(todo') : todo'[i].file \in Formats /\ todo'[i].place = p
  <2>1. PICK i \in 1..Len(todo) : todo[i].file \in Formats /\ todo[i].place = p
    BY <1>2, <1>6, <1>7
  <2>2. i # 1
    BY <1>6, <1>7, <2>1 DEF Formats
  <2> QED
    BY <1>1, <2>1, <2>2
<1>8. ASSUME NEW p \in Places, Head(todo).file \in Formats, Head(todo).place = p
      PROVE  Fresh(p)'
  <2>1. Head(todo).file = Own /\ Head(todo).data = Part(p) /\ points \in Maps
    BY <1>1, <1>8, DueWrite
  <2>2. dir'.at[p][Own] = Part(p) /\ dir'.at[p] \in PointFiles
    BY <1>8, <2>1, WritePut
  <2>3. ~options.binary => dir'.at[p].bin = NoFile
    <3>1. ~options.binary => Own # "bin" /\ dir.at[p].bin = NoFile
      BY DEF FilesInv, Own, Format
    <3> QED
      BY <2>1, <3>1, WritePut DEF Formats
  <2>4. Part(p) \in Maps /\ options.binary \in BOOLEAN
    BY <2>1, PartFacts, Typed DEF Part
  <2>5. Chosen(dir'.at[p]) = Own /\ dir'.at[p][Own] = Part(p)
    <3>1. dir'.at[p][Format(options.binary)] = Part(p)
      BY <2>2 DEF Own
    <3>2. Chosen(dir'.at[p]) = Format(options.binary)
      BY <2>2, <2>3, <2>4, <3>1, FreshWhen
    <3> QED
      BY <2>2, <3>2 DEF Own
  <2> QED
    BY <2>5, WriteSame DEF Fresh
<1>9. ASSUME NEW p \in Places, Head(todo).file = "sum", Head(todo).place = p
      PROVE  Fresh(p)' /\ Intact(dir'.at[p])
  <2>1. Head(todo).data = <<Own, Part(p)>> /\ points \in Maps
    BY <1>1, <1>9, DueWrite
  <2>2. Fresh(p)
    BY <1>2, <1>9
  <2>3. /\ dir'.at[p]["sum"] = <<Own, Part(p)>> /\ dir'.at[p] \in PointFiles
        /\ \A f \in Formats : dir'.at[p][f] = dir.at[p][f]
    BY <1>9, <2>1, WritePut DEF Formats
  <2>4. Chosen(dir'.at[p]) = Own /\ dir'.at[p][Own] = Part(p)
    BY <2>2, <2>3, Typed DEF Fresh, Chosen, Formats
  <2>5. Intact(dir'.at[p])
    BY <2>3, <2>4 DEF Intact
  <2> QED
    BY <2>4, <2>5, WriteSame DEF Fresh
<1>10. ASSUME NEW p \in Places, Holds(p), ~Ahead(p)'
       PROVE  Fresh(p)' /\ Intact(dir'.at[p])
  <2>1. CASE w.place = p /\ w.file = "sum"
    BY <1>9, <2>1
  <2>2. CASE w.place = p /\ w.file \in Formats
    <3>1. 1 < Len(todo) /\ todo[2].file = "sum" /\ todo[2].place = p
      <4>1. todo[1].file \in Formats /\ todo[1].place = p
        BY <1>1, <2>2
      <4>2. 1 < Len(todo) /\ todo[1 + 1].file = "sum" /\ todo[1 + 1].place = p
        BY <1>1, <1>2, <4>1 DEF Ordered
      <4> QED
        BY <4>2
    <3>2. 1 \in 1..Len(todo') /\ todo'[1].file = "sum" /\ todo'[1].place = p
      BY <1>1, <3>1
    <3> QED
      BY <1>10, <3>2 DEF Ahead
  <2>3. CASE ~(w.place = p /\ w.file \in Formats \cup {"sum"})
    <3>1. ~Ahead(p)
      <4> SUFFICES ASSUME NEW i \in 1..Len(todo), todo[i].place = p, todo[i].file \in Formats \cup {"sum"}
                   PROVE  FALSE
        BY DEF Ahead
      <4>1. i # 1
        BY <1>1, <2>3
      <4>2. i - 1 \in 1..Len(todo') /\ todo'[i - 1].place = p /\ todo'[i - 1].file \in Formats \cup {"sum"}
        BY <1>1, <4>1
      <4> QED
        BY <1>10, <4>2 DEF Ahead
    <3>2. dir'.at[p] = dir.at[p]
      <4>1. w.file \in {"config", "stamp", "sum"} \cup Formats
        BY WritePut, WriteType
      <4> QED
        BY <2>3, <4>1, WritePut
    <3>3. Fresh(p) /\ Intact(dir.at[p])
      BY <1>2, <1>10, <3>1
    <3> QED
      BY <3>2, <3>3, WriteSame DEF Fresh
  <2> QED
    BY <2>1, <2>2, <2>3
<1>11. ASSUME todo' # <<>>, Head(todo').file = "sum"
       PROVE  Fresh(Head(todo).place)'
  <2>1. 2 \in 2..Len(todo) /\ todo[2].file = "sum" /\ todo[2] = Head(todo')
    BY <1>1, <1>11
  <2>2. todo[2 - 1].file \in Formats /\ todo[2 - 1].place = todo[2].place
    BY <1>2, <2>1 DEF Ordered
  <2>3. Head(todo).file \in Formats /\ Head(todo).place = Head(todo').place
    BY <1>1, <2>1, <2>2
  <2>4. Head(todo').place \in Places
    BY <2>3, WritePut, WriteType
  <2>5. PICK p \in Places : p = Head(todo').place
    BY <2>4
  <2>6. Fresh(p)'
    BY <1>8, <2>3, <2>5
  <2>7. p = p'
    OBVIOUS
  <2> QED
    BY <2>5, <2>6 DEF Fresh, Part
<1>12. dir'.config # NoFile
  BY <1>2, WritePut, DataFacts, Typed
<1>13. ASSUME Stamped' PROVE dir'.stamp # 0
  <2>1. CASE Stamped
    <3>1. Head(todo).file # "stamp" /\ dir.stamp # 0
      BY <1>1, <1>2, <2>1 DEF Stamped
    <3> QED
      BY <3>1, WritePut
  <2>2. CASE ~Stamped
    <3>1. PICK i \in 1..Len(todo) : todo[i].file = "stamp"
      BY <2>2 DEF Stamped
    <3>2. i = 1
      <4>1. i # 1 => i - 1 \in 1..Len(todo') /\ todo'[i - 1].file = "stamp"
        BY <1>1, <3>1
      <4> QED
        BY <1>13, <4>1 DEF Stamped
    <3>3. Head(todo).file = "stamp" /\ now # 0
      BY <1>1, <3>1, <3>2, Typed
    <3> QED
      BY <3>3, WritePut
  <2> QED
    BY <2>1, <2>2
<1>14. todo' = <<>> => Stamped
  <2> SUFFICES ASSUME Len(todo) = 1, ~Stamped PROVE FALSE
    BY <1>1
  <2>1. todo[1].file = "stamp"
    BY <1>1 DEF Stamped
  <2>2. Root \in Places /\ Holds(Root)
    BY PlaceFacts DEF Holds
  <2>3. PICK i \in 1..Len(todo) : todo[i].file \in Formats
    BY <1>2, <2>2
  <2>4. i = 1
    OBVIOUS
  <2> QED
    BY <2>1, <2>3, <2>4 DEF Formats
<1>15. SaveInv'
  <2>1. /\ \A p \in Places : Holds(p)' <=> Holds(p)
        /\ Ordered(todo)' <=> Ordered(todo')
    BY WriteSame DEF Ordered
  <2>2. ~Stamped' => \A p \in Places : Holds(p)' =>
            \E i \in 1..Len(todo') : todo'[i].file \in Formats /\ todo'[i].place = p
    BY <1>7, <2>1
  <2>3. \A p \in Places : Holds(p)' /\ ~Ahead(p)' => Fresh(p)' /\ Intact(dir.at[p])'
    BY <1>10, <2>1 DEF Intact, Chosen
  <2> QED
    BY <1>4, <1>5, <1>11, <1>12, <1>13, <2>1, <2>2, <2>3 DEF SaveInv
<1> QED
  BY <1>2, <1>10, <1>12, <1>13, <1>14, <1>15

LEMMA LoadedHere ==
    ASSUME NEW d \in Directories, NEW o \in Switches, NEW id \in Ids,
           ~o.isolated => \A p \in Namespaces : d.at[p] = NoFiles,
           o.isolated => \A x \in Ids, f \in Formats :
              x[1] # Root /\ d.at[Root][f] # NoFile => d.at[Root][f][x] = None
    PROVE  Loaded(d)[id] = PointsIn(d.at[IF o.isolated THEN id[1] ELSE Root])[id]
<1>1. o.isolated \in BOOLEAN
  BY DEF Switches
<1>2. ~o.isolated => \A p \in Namespaces, f \in Formats : d.at[p][f] = NoFile
  BY EmptyFiles
<1> QED
  BY <1>1, <1>2, LoadedAt

LEMMA PlaceOfFacts ==
    ASSUME TypeOK, NEW id \in Ids
    PROVE  /\ PlaceOf(id) \in Places
           /\ points \in Maps => Part(PlaceOf(id))[id] = points[id]
           /\ PlaceOf(id) # Root => options.isolated /\ PlaceOf(id) \in Namespaces
           /\ ~Holds(PlaceOf(id)) => Part(PlaceOf(id)) = EmptyMap
BY Typed, PlaceFacts, PartFacts DEF PlaceOf, Part, Holds

LEMMA WriteKeepsFiles ==
    ASSUME TypeOK, ProgramInv, SaveInv, FilesInv, WriteFile
    PROVE  FilesInv'
<1> DEFINE w == Head(todo)
<1>1. /\ todo # <<>> /\ todo' = Tail(todo) /\ w = todo[1] /\ 1 \in 1..Len(todo)
      /\ options' = options /\ options.binary \in BOOLEAN /\ options.isolated \in BOOLEAN
      /\ dir \in Directories
  BY TailFacts, Typed DEF WriteFile
<1>2. /\ w \in Writes /\ points \in Maps /\ w.place \in Places
      /\ w.file \in {"config", "stamp", "sum"} \cup Formats
      /\ w.file \in Formats => Holds(w.place) /\ w.file = Own /\ w.data = Part(w.place)
      /\ w.file = "sum" => Holds(w.place) /\ w.data = <<Own, Part(w.place)>>
      /\ w.place \in Places => Part(w.place) \in Maps
  BY <1>1, DueWrite, WriteType, PartFacts DEF Part
<1>3. /\ dir'.config # NoFile /\ dir' \in Directories
      /\ \A p \in Places : dir'.at[p] \in PointFiles
      /\ w.file \in {"config", "stamp"} => dir'.at = dir.at
      /\ \A p \in Places : w.place # p => dir'.at[p] = dir.at[p]
      /\ \A p \in Places, f \in Formats \cup {"sum"} :
            dir'.at[p][f] = IF w.place = p /\ w.file = f THEN w.data ELSE dir.at[p][f]
      /\ \A p \in Places : Holds(p) /\ ~Ahead(p)' => Fresh(p)' /\ Intact(dir'.at[p])
  BY WritePut, WriteKeepsSave
<1>4. FilesInv!1 /\ FilesInv!2 /\ FilesInv!3 /\ FilesInv!4 /\ FilesInv!5 /\ FilesInv!6
  BY DEF FilesInv
<1> HIDE DEF w
<1>5. Own = "bin" => options.binary
  BY DEF Own, Format
<1>6. ~options.binary => \A p \in Places : dir'.at[p].bin = NoFile
  BY <1>2, <1>3, <1>4, <1>5 DEF Formats
<1>7. ~options.isolated => \A p \in Namespaces : dir'.at[p] = NoFiles
  <2>1. ~options.isolated => \A p \in Namespaces : w.place = p => w.file \in {"config", "stamp"}
    BY <1>2, PlaceFacts DEF Holds
  <2> QED
    BY <1>3, <1>4, <2>1, PlaceFacts
<1>8. options.isolated => \A id \in Ids, f \in Formats :
         id[1] # Root /\ dir'.at[Root][f] # NoFile => dir'.at[Root][f][id] = None
  <2> SUFFICES ASSUME options.isolated, NEW id \in Ids, NEW f \in Formats,
                      id[1] # Root, dir'.at[Root][f] # NoFile
               PROVE  dir'.at[Root][f][id] = None
    OBVIOUS
  <2>1. CASE w.place = Root /\ w.file = f
    <3>1. dir'.at[Root][f] = Part(Root)
      BY <1>2, <1>3, <2>1, PlaceFacts
    <3>2. PartOf(points, Root, options.isolated)[id] = None
      BY DEF PartOf
    <3> QED
      BY <3>1, <3>2 DEF Part
  <2>2. CASE ~(w.place = Root /\ w.file = f)
    <3>1. dir'.at[Root][f] = dir.at[Root][f]
      BY <1>3, <2>2, PlaceFacts
    <3> QED
      BY <1>4, <3>1
  <2> QED
    BY <2>1, <2>2
<1>9. \A p \in Namespaces, f \in Formats : dir'.at[p][f] # EmptyMap
  <2> SUFFICES ASSUME NEW p \in Namespaces, NEW f \in Formats PROVE dir'.at[p][f] # EmptyMap
    OBVIOUS
  <2>1. CASE w.place = p /\ w.file = f
    <3>1. dir'.at[p][f] = Part(p) /\ Holds(p) /\ p # Root
      BY <1>2, <1>3, <2>1, PlaceFacts
    <3> QED
      BY <3>1 DEF Holds
  <2>2. CASE ~(w.place = p /\ w.file = f)
    <3>1. dir'.at[p][f] = dir.at[p][f]
      BY <1>3, <2>2, PlaceFacts
    <3> QED
      BY <1>4, <3>1
  <2> QED
    BY <2>1, <2>2
<1>10. ASSUME NEW p \in Places, ~Intact(dir'.at[p])
       PROVE  \/ todo' # <<>> /\ Head(todo').file = "sum" /\ Head(todo').place = p
              \/ "torn" \in lapses' \/ "emptied" \in lapses'
  <2>1. CASE todo' = <<>>
    <3>1. ~Ahead(p)'
      BY <2>1 DEF Ahead
    <3>2. ~Holds(p)
      BY <1>3, <1>10, <3>1
    <3>3. p \in Namespaces
      BY <3>2, PlaceFacts DEF Holds
    <3>4. options.isolated
      BY <1>7, <1>10, <3>3, EmptyFiles
    <3>5. PartOf(points, p, TRUE) = EmptyMap
      BY <3>2, <3>4 DEF Holds, Part
    <3>6. PointsIn(dir'.at[p]) # EmptyMap
      <4>1. dir'.at[p][Chosen(dir'.at[p])] # NoFile
        BY <1>10 DEF Intact
      <4>2. Chosen(dir'.at[p]) \in Formats
        BY <1>3, FilesType
      <4> QED
        BY <1>9, <3>3, <4>1, <4>2 DEF PointsIn
    <3>7. "emptied" \in SavedLapses(dir')
      BY <3>3, <3>4, <3>5, <3>6 DEF SavedLapses
    <3> QED
      BY <2>1, <3>7 DEF WriteFile
  <2>2. CASE todo' # <<>> /\ ~(w.place = p /\ w.file \in Formats \cup {"sum"})
    <3>1. dir'.at[p] = dir.at[p]
      BY <1>2, <1>3, <2>2
    <3>2. \/ todo # <<>> /\ w.file = "sum" /\ w.place = p
          \/ "torn" \in lapses \/ "emptied" \in lapses
      BY <1>4, <1>10, <3>1 DEF BetweenFileAndSum, w
    <3> QED
      BY <2>2, <3>2 DEF WriteFile
  <2>3. CASE todo' # <<>> /\ w.place = p /\ w.file \in Formats
    <3>1. todo[1 + 1].file = "sum" /\ todo[1 + 1].place = p
      <4>1. todo[1].file \in Formats /\ todo[1].place = p
        BY <1>1, <2>3
      <4> QED
        BY <1>1, <2>3, <4>1 DEF SaveInv, Ordered
    <3>2. Head(todo') = todo[2]
      BY <1>1, <2>3, TailFacts
    <3> QED
      BY <2>3, <3>1, <3>2
  <2>4. CASE todo' # <<>> /\ w.place = p /\ w.file = "sum"
    <3>1. /\ Holds(p)
          /\ Fresh(p)
          /\ dir'.at[p]["sum"] = <<Own, Part(p)>>
          /\ \A f \in Formats : dir'.at[p][f] = dir.at[p][f]
      BY <1>1, <1>2, <1>3, <2>4 DEF SaveInv, Formats, w
    <3>2. Chosen(dir'.at[p]) = Own /\ dir'.at[p][Own] = Part(p)
      BY <3>1, Typed DEF Fresh, Chosen, Formats
    <3> QED
      BY <1>10, <3>1, <3>2 DEF Intact
  <2> QED
    BY <2>1, <2>2, <2>3, <2>4
<1>11. \A p \in Places : ~Intact(dir.at[p])' =>
          \/ BetweenFileAndSum' /\ (Head(todo).place = p)'
          \/ "torn" \in lapses' \/ "emptied" \in lapses'
  BY <1>10 DEF BetweenFileAndSum, Intact, Chosen
<1> QED
  BY <1>1, <1>3, <1>6, <1>7, <1>8, <1>9, <1>11 DEF FilesInv

(* A write changes no point but to its new value.                          *)
LEMMA Written ==
    ASSUME TypeOK, ProgramInv, SaveInv, FilesInv, WriteFile, NEW id \in Ids
    PROVE  Loaded(dir')[id] \in {Loaded(dir)[id], points[id]}
<1> DEFINE w == Head(todo)
           p == PlaceOf(id)
<1>1. /\ FilesInv' /\ options \in Switches /\ options' = options /\ dir \in Directories /\ dir' \in Directories
      /\ Own' = Own /\ p \in Places /\ points \in Maps /\ Part(p)[id] = points[id]
      /\ 1 \in 1..Len(todo) /\ w = todo[1]
      /\ dir'.at[p] \in PointFiles
  BY WriteKeepsFiles, Typed, WritePut, WriteSame, TailFacts, DueWrite, PlaceOfFacts DEF WriteFile
<1>2. Loaded(dir)[id] = PointsIn(dir.at[p])[id]
  BY <1>1, LoadedHere DEF FilesInv, PlaceOf
<1>3. Loaded(dir')[id] = PointsIn(dir'.at[p])[id]
  BY <1>1, LoadedHere DEF FilesInv, PlaceOf
<1>4. CASE w.place = p /\ w.file \in Formats
  <2>1. w.file = Own /\ w.data = Part(p) /\ Part(p) \in Maps /\ options.binary \in BOOLEAN
    BY <1>1, <1>4, DueWrite, PartFacts, Typed DEF Part
  <2>2. dir'.at[p][Format(options.binary)] = Part(p)
    BY <1>1, <1>4, <2>1, WritePut DEF Own
  <2>3. ~options.binary => dir'.at[p].bin = NoFile
    BY <1>1 DEF FilesInv
  <2> HIDE DEF p
  <2>4. PointsIn(dir'.at[p]) = Part(p)
    BY <1>1, <2>1, <2>2, <2>3, FreshWhen
  <2> QED
    BY <1>1, <1>3, <2>4
<1>5. CASE ~(w.place = p /\ w.file \in Formats)
  <2>1. \A f \in Formats : dir'.at[p][f] = dir.at[p][f]
    BY <1>1, <1>5, WritePut
  <2> HIDE DEF p
  <2>2. PointsIn(dir'.at[p]) = PointsIn(dir.at[p])
    BY <2>1 DEF PointsIn, Chosen, Format, Formats
  <2> QED
    BY <1>2, <1>3, <2>2
<1> QED
  BY <1>4, <1>5

(* What a save that has ended leaves is what is in memory, and it loads,   *)
(* but for files of namespaces that have no points left.                   *)
LEMMA Saved ==
    ASSUME TypeOK, ProgramInv, SaveInv, FilesInv, WriteFile, todo' = <<>>, "emptied" \notin lapses'
    PROVE  Loaded(dir') = points /\ Loads(dir')
<1>1. /\ FilesInv' /\ options \in Switches /\ options' = options /\ dir' \in Directories
      /\ points \in Maps /\ 1 \in 1..Len(todo) /\ dir'.config # NoFile
      /\ \A p \in Places : dir'.at[p] \in PointFiles
  BY WriteKeepsFiles, WriteKeepsSave, Typed, WritePut, TailFacts, DueWrite DEF WriteFile
<1>2. /\ \A p \in Places : Holds(p) => Fresh(p)' /\ Intact(dir'.at[p])
      /\ \A p \in Places : Fresh(p)' => Chosen(dir'.at[p]) = Own /\ dir'.at[p][Own] = Part(p)
  <2>1. \A p \in Places : ~Ahead(p)'
    BY DEF Ahead
  <2> QED
    BY <2>1, WriteKeepsSave, WriteSame DEF Fresh
<1>3. \A p \in Places : ~Holds(p) => PointsIn(dir'.at[p]) = EmptyMap
  <2> SUFFICES ASSUME NEW p \in Places, ~Holds(p) PROVE PointsIn(dir'.at[p]) = EmptyMap
    OBVIOUS
  <2>1. p \in Namespaces
    BY PlaceFacts DEF Holds
  <2>2. CASE options.isolated
    <3>1. PartOf(points, p, TRUE) = EmptyMap
      BY <2>2 DEF Holds, Part
    <3>2. "emptied" \notin SavedLapses(dir')
      BY DEF WriteFile
    <3> QED
      BY <2>1, <2>2, <3>1, <3>2 DEF SavedLapses
  <2>3. CASE ~options.isolated
    BY <1>1, <2>1, <2>3, EmptyFiles DEF FilesInv
  <2> QED
    BY <2>2, <2>3
<1>4. ASSUME NEW id \in Ids PROVE Loaded(dir')[id] = points[id]
  <2> DEFINE p == PlaceOf(id)
  <2>1. /\ p \in Places /\ Part(p)[id] = points[id] /\ Part(p) \in Maps
        /\ ~Holds(p) => Part(p) = EmptyMap
    BY <1>1, PlaceOfFacts, PartFacts, Typed DEF Part
  <2>2. Loaded(dir')[id] = PointsIn(dir'.at[p])[id]
    BY <1>1, LoadedHere DEF FilesInv, PlaceOf
  <2> HIDE DEF p
  <2>3. CASE Holds(p)
    <3>1. PointsIn(dir'.at[p]) = Part(p)
      BY <1>2, <2>1, <2>3, DataFacts DEF PointsIn
    <3> QED
      BY <2>1, <2>2, <3>1
  <2>4. CASE ~Holds(p)
    BY <1>3, <2>1, <2>2, <2>4
  <2> QED
    BY <2>3, <2>4
<1>5. Loads(dir')
  <2>1. \A p \in Places : ~Holds(p) => Intact(dir'.at[p])
    <3> SUFFICES ASSUME NEW p \in Places, ~Holds(p) PROVE Intact(dir'.at[p])
      OBVIOUS
    <3>1. p \in Namespaces /\ PointsIn(dir'.at[p]) = EmptyMap /\ Chosen(dir'.at[p]) \in Formats
      BY <1>1, <1>3, PlaceFacts, FilesType DEF Holds
    <3>2. dir'.at[p][Chosen(dir'.at[p])] # EmptyMap
      BY <1>1, <3>1 DEF FilesInv
    <3> QED
      BY <3>1, <3>2 DEF PointsIn, Intact
  <2> QED
    BY <1>1, <1>2, <2>1 DEF Loads
<1>6. Loaded(dir') = points
  BY <1>1, <1>4, LoadedType, MapsEqual
<1> QED
  BY <1>5, <1>6
-----------------------------------------------------------------------------
(* WriteFile keeps the invariant of the directory *)

LEMMA LapsesOfSaved ==
    ASSUME WriteFile
    PROVE  /\ lapses' \in {lapses, SavedLapses(dir')} /\ (todo' # <<>> => lapses' = lapses)
           /\ (todo' = <<>> => lapses' = SavedLapses(dir'))
           /\ lapses' \subseteq lapses \cup {"emptied"}
           /\ \A x \in {"mixed", "undone", "compacted", "encoding"} : x \in lapses' <=> x \in lapses
BY DEF WriteFile, SavedLapses

LEMMA WriteKeepsType ==
    ASSUME TypeOK, ProgramInv, SaveInv, WriteFile
    PROVE  TypeOK'
<1>1. dir' \in Directories /\ points \in Maps /\ todo' \in Seq(Writes)
  BY WritePut, DueWrite, TailFacts, WriteSame
<1>2. lapses' \subseteq Spared \cup {"half", "second"}
  BY LapsesOfSaved DEF TypeOK, Spared
<1> QED
  BY <1>1, <1>2 DEF TypeOK, WriteFile, bounds

LEMMA WriteKeepsProgram ==
    ASSUME TypeOK, ProgramInv, SaveInv, FilesInv, WriteFile
    PROVE  ProgramInv'
<1>1. /\ dir'.config # NoFile /\ todo # <<>> /\ points # NoCollection /\ after # Idle
      /\ program' = program /\ points' = points /\ restore' = restore /\ program # "none"
      /\ (after' = after \/ (after' = Idle /\ after = "clean" /\ todo' = <<>>))
      /\ (todo' = <<>> => after' # "clean") /\ (todo' # <<>> => after' = after)
      /\ (kept' = points \/ (kept' = kept /\ (todo' # <<>> \/ after = "restored")))
      /\ Head(todo).file # "config" => dir.config # NoFile
  BY WriteKeepsSave, DataDirectoryAssumption DEF WriteFile, ProgramInv, SaveInv
<1> QED
  BY <1>1, DataDirectoryAssumption DEF ProgramInv

(* What is read of the next state's files is what is there to be read.     *)
LEMMA NextFiles ==
    /\ Loaded(dir)' = Loaded(dir') /\ ReadEntries(log)' = ReadEntries(log')
    /\ Recovered(dir, log)' = Recovered(dir', log') /\ (Loads(dir)' <=> Loads(dir'))
    /\ \A t : RecoveredTo(dir, log, t)' = RecoveredTo(dir', log', t)
    /\ RecoveredTo(dir, log, now)' = RecoveredTo(dir', log', now')
    /\ RestorePoints(dir, log)' = RestorePoints(dir', log')
BY DEF Loaded, PointsIn, Chosen, ReadEntries, Recovered, Replay, Overlay, Loads, Intact,
       RecoveredTo, HitsTo, RestorePoints

LEMMA Decided ==
    ASSUME NEW id \in Ids, NEW a, NEW b
    PROVE  /\ Decides(id) => Replay(a, ReadEntries(log))[id] = Replay(b, ReadEntries(log))[id]
           /\ ~Decides(id) => Replay(a, ReadEntries(log))[id] = a[id]
BY DEF Decides, Replay, Overlay

LEMMA WriteKeepsLog ==
    ASSUME TypeOK, LogInv, WriteFile
    PROVE  LogInv'
<1>1. /\ log' = log /\ ReadEntries(log)' = ReadEntries(log) /\ program' = program /\ points' = points
      /\ todo # <<>> /\ (todo' # <<>> => after' = after)
      /\ ("mixed" \in lapses' <=> "mixed" \in lapses) /\ ("encoding" \in lapses' <=> "encoding" \in lapses)
  BY LapsesOfSaved, NextFiles DEF WriteFile
<1>2. ASSUME program = "engine", points # NoCollection, "mixed" \notin lapses, "encoding" \notin lapses,
             NEW id \in Ids, Decides(id)
      PROVE  points[id] = Replay(Loaded(dir'), ReadEntries(log))[id]
  BY <1>2, Decided DEF LogInv
<1>3. \A id \in Ids : Decides(id)' <=> Decides(id)
  BY <1>1 DEF Decides
<1>4. Loaded(dir)' = Loaded(dir')
  BY NextFiles
<1>5. Replay(Loaded(dir), ReadEntries(log))' = Replay(Loaded(dir'), ReadEntries(log))
  BY <1>1, <1>4 DEF Replay, Overlay
<1> QED
  BY <1>1, <1>2, <1>3, <1>5 DEF LogInv

(* Whatever the log decides is in memory when a save is under way.         *)
LEMMA LogAgrees ==
    ASSUME ProgramInv, LogInv, todo # <<>>, "mixed" \notin lapses, "encoding" \notin lapses,
           NEW id \in Ids, NEW base, Decides(id)
    PROVE  Replay(base, ReadEntries(log))[id] = points[id] /\ after = "truncate" /\ dir.config # NoFile
<1>1. after = "truncate"
  BY DEF LogInv, Decides, Hits
<1>2. program = "engine" /\ points # NoCollection
  BY <1>1 DEF ProgramInv
<1>3. Replay(base, ReadEntries(log))[id] = Replay(Loaded(dir), ReadEntries(log))[id]
  BY Decided
<1> QED
  BY <1>1, <1>2, <1>3 DEF LogInv, ProgramInv

LEMMA WriteKeepsPromise ==
    ASSUME TypeOK, ProgramInv, SaveInv, FilesInv, LogInv, GivesBack, WriteFile
    PROVE  GivesBack'
<1> DEFINE s == ReadEntries(log)
<1>0. /\ dir'.config # NoFile /\ points \in Maps /\ todo # <<>> /\ log' = log /\ points' = points
      /\ Recovered(dir, log)' = Replay(Loaded(dir'), s)
      /\ Loaded(dir') \in Maps /\ NoCollection \notin Maps /\ 1 \in 1..Len(todo)
      /\ \A id \in Ids : ~Decides(id) => Replay(Loaded(dir'), s)[id] = Loaded(dir')[id]
  <2>1. /\ dir'.config # NoFile /\ points \in Maps /\ todo # <<>> /\ log' = log /\ points' = points
        /\ 1 \in 1..Len(todo) /\ Loaded(dir') \in Maps /\ NoCollection \notin Maps
    BY WriteKeepsSave, TailFacts, DueWrite, WritePut, LoadedType, DataFacts DEF WriteFile
  <2>2. Recovered(dir, log)' = Replay(Loaded(dir'), s)
    BY <2>1, NextFiles DEF Recovered
  <2>3. \A id \in Ids : ~Decides(id) => Replay(Loaded(dir'), s)[id] = Loaded(dir')[id]
    BY Decided
  <2> QED
    BY <2>1, <2>2, <2>3
<1> SUFFICES ASSUME lapses' \cap Spared = {}, after' # "restored", NEW id \in Ids
             PROVE  \/ Replay(Loaded(dir'), s)[id] = Promised'[id]
                    \/ todo' # <<>> /\ Replay(Loaded(dir'), s)[id] = points[id]
  BY <1>0 DEF GivesBack, Spared, Promised
<1>1. "mixed" \notin lapses /\ "encoding" \notin lapses
  BY LapsesOfSaved DEF Spared
<1>2. CASE todo' = <<>>
  <2>1. "emptied" \notin lapses'
    BY DEF Spared
  <2>2. Loaded(dir') = points
    BY <1>2, <2>1, Saved
  <2>3. Promised' = points
    <3>1. kept' = points
      <4>1. after # "restored"
        BY DEF WriteFile
      <4> QED
        BY <1>2, <4>1 DEF WriteFile
    <3> QED
      BY <1>0, <3>1 DEF Promised
  <2>4. Replay(Loaded(dir'), s)[id] = points[id]
    BY <1>0, <1>1, <2>2, LogAgrees
  <2> QED
    BY <2>3, <2>4
<1>3. CASE todo' # <<>>
  <2>1. lapses' = lapses /\ after' = after /\ kept' = kept
    BY <1>3 DEF WriteFile
  <2>2. Promised' = Promised
    BY <2>1 DEF Promised
  <2>3. CASE Decides(id)
    BY <1>0, <1>1, <1>3, <2>3, LogAgrees
  <2>4. CASE ~Decides(id) /\ Loaded(dir')[id] = points[id]
    BY <1>0, <1>3, <2>4
  <2>5. CASE ~Decides(id) /\ Loaded(dir')[id] = Loaded(dir)[id] /\ dir.config # NoFile
    <3>1. Recovered(dir, log)[id] = Loaded(dir)[id]
      BY <2>5, Decided DEF Recovered
    <3>2. Recovered(dir, log)[id] = Promised[id] \/ Recovered(dir, log)[id] = points[id]
      BY <2>1, <2>5 DEF GivesBack
    <3> QED
      BY <1>0, <1>3, <2>2, <2>5, <3>1, <3>2
  <2>6. CASE ~Decides(id) /\ Loaded(dir')[id] = Loaded(dir)[id] /\ dir.config = NoFile
    <3>1. dir = NoDirectory
      BY <2>6 DEF FilesInv
    <3>2. Loaded(dir)[id] = None
      BY <3>1, PlaceFacts, EmptyDirectory, EmptyFiles, DataFacts DEF Loaded
    <3>3. kept = NoCollection
      BY <2>1, <2>6 DEF GivesBack
    <3>4. Promised[id] = None
      BY <3>3, DataFacts DEF Promised
    <3> QED
      BY <1>0, <2>2, <2>6, <3>2, <3>4
  <2> QED
    BY <2>3, <2>4, <2>5, <2>6, Written
<1> QED
  BY <1>2, <1>3

LEMMA WriteKeepsSaved ==
    ASSUME TypeOK, ProgramInv, SaveInv, FilesInv, WriteFile
    PROVE  SavedInv'
<1> SUFFICES ASSUME after' = "truncate", todo' = <<>>
             PROVE  /\ lapses' \cap {"torn", "half", "second"} = {}
                    /\ "emptied" \notin lapses' => Loaded(dir') = points
  BY NextFiles DEF SavedInv, WriteFile
<1>1. lapses' = SavedLapses(dir')
  BY LapsesOfSaved
<1> QED
  BY <1>1, Saved DEF SavedLapses

LEMMA WatchedSame ==
    ASSUME WriteFile, Watched'
    PROVE  Watched
BY LapsesOfSaved, NextFiles, DataDirectoryAssumption DEF Watched, WriteFile

LEMMA WriteKeepsSeen ==
    ASSUME PastSeen, WriteFile
    PROVE  PastSeen'
BY WatchedSame DEF PastSeen, WriteFile

LEMMA WriteKeepsClock ==
    ASSUME TypeOK, ClockInv, ProgramInv, SaveInv, WriteFile
    PROVE  ClockInv'
<1>1. /\ dir'.stamp \in {now, dir.stamp} /\ now' = now /\ log' = log
      /\ now \in Nat
  BY WritePut, Typed DEF WriteFile
<1>2. dir'.stamp <= now
  BY <1>1 DEF ClockInv
<1> QED
  BY <1>1, <1>2 DEF ClockInv

LEMMA WriteKeepsPastSaved ==
    ASSUME TypeOK, ClockInv, ProgramInv, SaveInv, FilesInv, PastSeen, PastSaved, WriteFile
    PROVE  PastSaved'
<1>1. /\ todo # <<>> /\ log' = log /\ points' = points /\ past' = past /\ now \in Seconds /\ now \in Nat
      /\ (after' = after \/ after' = Idle) /\ points \in Maps /\ points # NoCollection /\ 1 \in 1..Len(todo)
      /\ dir'.stamp = IF Head(todo).file = "stamp" THEN now ELSE dir.stamp
      /\ Head(todo) = todo[1] /\ todo' = Tail(todo)
  BY TailFacts, DueWrite, WritePut, Typed, DataFacts DEF WriteFile
<1>2. ASSUME Stamped
      PROVE  dir'.stamp = dir.stamp
  BY <1>1, <1>2 DEF Stamped
<1>3. ASSUME Stamped', todo' # <<>>
      PROVE  /\ \A i \in 1..Len(log.entries) : log.entries[i].ts <= dir'.stamp
             /\ Watched' => past[dir'.stamp] = points
  <2>1. CASE Stamped
    BY <1>1, <1>2, <2>1, WatchedSame DEF PastSaved
  <2>2. CASE ~Stamped
    <3>1. PICK i \in 1..Len(todo) : todo[i].file = "stamp"
      BY <2>2 DEF Stamped
    <3>2. i = 1
      <4>1. i # 1 => i - 1 \in 1..Len(todo') /\ todo'[i - 1].file = "stamp"
        BY <1>1, <3>1, TailFacts
      <4> QED
        BY <1>3, <4>1 DEF Stamped
    <3>3. dir'.stamp = now
      BY <1>1, <3>1, <3>2
    <3>4. \A j \in 1..Len(log.entries) : log.entries[j].ts <= now
      BY DEF ClockInv
    <3>5. Watched' => past[now] = points
      BY <1>1, WatchedSame DEF PastSeen
    <3> QED
      BY <3>3, <3>4, <3>5
  <2> QED
    BY <2>1, <2>2
<1>4. ASSUME todo' = <<>>, after' \in {"truncate", "restored"}, "emptied" \notin lapses'
      PROVE  dir'.stamp # 0 /\ Loaded(dir') = past[dir'.stamp]
  <2>1. Stamped
    BY <1>4, WriteKeepsSave
  <2>2. after \in {"truncate", "restored"}
    BY <1>4, DataDirectoryAssumption DEF WriteFile
  <2>3. Watched
    BY <2>2 DEF Watched, ProgramInv
  <2>4. dir.stamp # 0 /\ dir'.stamp = dir.stamp /\ past[dir.stamp] = points
    BY <1>1, <1>2, <2>1, <2>3 DEF SaveInv, PastSaved
  <2>5. Loaded(dir') = points
    BY <1>4, Saved
  <2> QED
    BY <2>4, <2>5
<1>5. todo' # <<>> /\ Stamped' =>
          /\ (\A i \in 1..Len(log.entries) : log.entries[i].ts <= dir.stamp)'
          /\ Watched' => past'[dir'.stamp] = points'
  BY <1>1, <1>3
<1> QED
  BY <1>1, <1>4, <1>5, NextFiles DEF PastSaved

LEMMA WriteKeepsPast ==
    ASSUME TypeOK, ClockInv, ProgramInv, SaveInv, FilesInv, LogInv, PastSaved, PastKept, WriteFile
    PROVE  PastKept'
<1> DEFINE s == ReadEntries(log)
<1>0. /\ todo # <<>> /\ log' = log /\ points' = points /\ past' = past /\ now' = now /\ now \in Nat
      /\ points \in Maps /\ 1 \in 1..Len(todo) /\ Head(todo) = todo[1] /\ todo' = Tail(todo)
      /\ log \in Logs /\ dir' \in Directories /\ dir'.config # NoFile /\ dir.stamp \in Nat
      /\ dir'.stamp = IF Head(todo).file = "stamp" THEN now ELSE dir.stamp
      /\ DOMAIN s = 1..Len(s)
      /\ \A i \in 1..Len(s) : i \in 1..Len(log.entries) /\ s[i] = log.entries[i] /\ s[i] \in LogEntry
      /\ dir \in Directories
  BY TailFacts, DueWrite, WritePut, WriteKeepsSave, Typed, ReadType DEF WriteFile
<1> SUFFICES ASSUME lapses' = {}, todo' = <<>> \/ (~Stamped' /\ after' # "restored")
             PROVE  /\ \A t \in RestorePoints(dir', log) : t >= dir'.stamp /\ t # 0 =>
                          RecoveredTo(dir', log, t) = past[t]
                    /\ RecoveredTo(dir', log, now) = Recovered(dir', log)
  <2> QED
    BY <1>0, NextFiles DEF PastKept
<1> HIDE DEF s
<1>1. "mixed" \notin lapses /\ "encoding" \notin lapses /\ "compacted" \notin lapses
  BY LapsesOfSaved
<1>2. ASSUME s = <<>> 
      PROVE  Recovered(dir', log) = Loaded(dir') /\ \A t \in Nat : RecoveredTo(dir', log, t) = Loaded(dir')
  <2>1. Loaded(dir') \in Maps /\ ~\E i \in 1..Len(s) : TRUE
    BY <1>0, <1>2, LoadedType
  <2> QED
    BY <1>0, <1>2, <2>1, ReplayEmpty, NoneNeeded DEF s, Recovered
<1>3. CASE todo' # <<>>
  <2>1. lapses = {} /\ after' = after
    BY <1>3 DEF WriteFile
  <2>2. todo[1].file = "config" /\ ~Stamped
    <3>1. PICK i \in 1..Len(todo') : todo'[i].file = "stamp"
      BY <1>3 DEF Stamped
    <3>2. i + 1 \in 1..Len(todo) /\ todo[i + 1].file = "stamp" /\ i + 1 # 1
      BY <1>0, <3>1, TailFacts
    <3>3. todo[1].file = "config"
      BY <1>0, <3>2 DEF SaveInv, Ordered
    <3> QED
      BY <3>2, <3>3 DEF Stamped
  <2>3. dir'.stamp = dir.stamp /\ dir'.at = dir.at
    BY <1>0, <2>2, WritePut
  <2>4. Loaded(dir') = Loaded(dir)
    BY <2>3 DEF Loaded
  <2>5. CASE dir.config # NoFile
    <3>1. /\ \A t \in RestorePoints(dir, log) : t >= dir.stamp /\ t # 0 => RecoveredTo(dir, log, t) = past[t]
          /\ RecoveredTo(dir, log, now) = Recovered(dir, log)
      BY <1>3, <2>1, <2>2, <2>5 DEF PastKept
    <3>2. RestorePoints(dir', log) = RestorePoints(dir, log) /\ Recovered(dir', log) = Recovered(dir, log)
      BY <1>0, <2>3, <2>4, <2>5 DEF RestorePoints, Recovered
    <3>3. \A t : RecoveredTo(dir', log, t) = RecoveredTo(dir, log, t)
      BY <2>3, <2>4, RecoveredToSame
    <3> QED
      BY <2>3, <3>1, <3>2, <3>3
  <2>6. CASE dir.config = NoFile
    <3>1. dir = NoDirectory /\ dir.stamp = 0
      BY <2>6, EmptyDirectory DEF FilesInv
    <3>2. s = <<>>
      BY <1>0, <1>1, <2>6 DEF LogInv, ProgramInv, s
    <3>3. RestorePoints(dir', log) = {0}
      BY <1>0, <2>3, <3>1, <3>2 DEF RestorePoints, s
    <3> QED
      BY <1>0, <1>2, <3>2, <3>3
  <2> QED
    BY <2>5, <2>6
<1>4. CASE todo' = <<>>
  <2>1. Loaded(dir') = points
    BY <1>4, Saved
  <2>2. Stamped /\ dir'.stamp = dir.stamp /\ dir.stamp # 0
    <3>1. Stamped
      BY <1>4, WriteKeepsSave
    <3> QED
      BY <1>0, <3>1 DEF Stamped, SaveInv
  <2>3. \A i \in 1..Len(s) : s[i].ts <= dir.stamp /\ s[i].ts \in Nat
    BY <1>0, <2>2 DEF PastSaved, LogEntry
  <2>4. \A t \in Nat : RecoveredTo(dir', log, t) = points
    <3>1. \A i \in 1..Len(s), t \in Nat : ~Needed(dir', s[i], t)
      BY <1>0, <2>2, <2>3 DEF Needed
    <3> QED
      BY <1>0, <2>1, <3>1, NoneNeeded DEF s
  <2>5. Recovered(dir', log) = points
    <3>1. Recovered(dir', log) = Replay(points, s) /\ Replay(points, s) \in Maps
      BY <1>0, <2>1, RecoveredType DEF s
    <3>2. \A id \in Ids : Replay(points, s)[id] = points[id]
      BY <1>0, <1>1, LogAgrees, Decided DEF s
    <3> QED
      BY <1>0, <3>1, <3>2, MapsEqual
  <2>6. Watched
    <3>1. after # "truncate" => s = <<>>
      BY <1>0, <1>1 DEF LogInv, s
    <3>2. after = "truncate" => program = "engine"
      BY DEF ProgramInv
    <3> QED
      BY <1>1, <3>1, <3>2 DEF Watched, s
  <2>7. past[dir.stamp] = points
    BY <1>0, <2>2, <2>6 DEF PastSaved
  <2>8. ASSUME NEW t \in RestorePoints(dir', log), t >= dir'.stamp
        PROVE  t = dir.stamp /\ t \in Nat
    <3>1. t = dir'.stamp \/ \E i \in 1..Len(s) : t = s[i].ts
      BY <1>0 DEF RestorePoints, s
    <3> QED
      BY <1>0, <2>2, <2>3, <2>8, <3>1
  <2> QED
    BY <1>0, <2>2, <2>4, <2>5, <2>7, <2>8
<1> QED
  BY <1>3, <1>4

LEMMA WriteKeeps ==
    ASSUME DirInv, WriteFile
    PROVE  DirInv'
BY WriteKeepsType, WriteKeepsClock, WriteKeepsProgram, WriteKeepsSave, WriteKeepsFiles, WriteKeepsLog,
   WriteKeepsPromise, WriteKeepsSaved, WriteKeepsSeen, WriteKeepsPastSaved, WriteKeepsPast DEF DirInv
-----------------------------------------------------------------------------
(* A save begins *)

LEMMA FiniteNamespaces == IsFiniteSet(Namespaces)
<1>1. IsFiniteSet({id[1] : id \in Ids})
  <2>1. PICK f : f = [id \in Ids |-> id[1]]
    OBVIOUS
  <2>2. PICK T : T = {id[1] : id \in Ids}
    OBVIOUS
  <2>3. (\A t \in T : \E id \in Ids : t = id[1]) /\ \A id \in Ids : id[1] \in T
    BY <2>2, Zenon
  <2>4. f \in [Ids -> T] /\ \A t \in T : \E id \in Ids : f[id] = t
    BY <2>1, <2>3, Zenon
  <2>5. f \in Surjection(Ids, T)
    BY <2>4, Zenon DEF Surjection
  <2> QED
    BY <2>2, <2>5, CollectionFilesAssumption, FS_Surjection
<1> QED
  BY <1>1, FS_Subset DEF Namespaces

LEMMA Halves ==
    ASSUME NEW n \in Nat, NEW i \in 1..(2 * n)
    PROVE  \E j \in 1..n : \/ i = 2 * j - 1 /\ (i + 1) \div 2 = j /\ 2 - (i % 2) = 1
                           \/ i = 2 * j /\ (i + 1) \div 2 = j /\ 2 - (i % 2) = 2
<1>1. PICK k \in Nat : i = 2 * k \/ i = 2 * k + 1
  <2>1. i = 2 * (i \div 2) + (i % 2) /\ i % 2 \in 0..1 /\ i \div 2 \in Nat
    OBVIOUS
  <2> QED
    BY <2>1
<1>2. CASE i = 2 * k
  <2>1. k \in 1..n /\ (i + 1) \div 2 = k /\ i % 2 = 0
    BY <1>2
  <2> QED
    BY <1>2, <2>1
<1>3. CASE i = 2 * k + 1
  <2>1. k + 1 \in 1..n /\ i = 2 * (k + 1) - 1 /\ (i + 1) \div 2 = k + 1 /\ i % 2 = 1
    BY <1>3
  <2> QED
    BY <2>1
<1> QED
  BY <1>1, <1>2, <1>3

(* The places of a save: the root, and each namespace that has points.     *)
LEMMA OrderFacts ==
    ASSUME NEW map \in Maps, NEW iso \in BOOLEAN, NEW order \in Orders(map, iso)
    PROVE  /\ order \in Seq(Namespaces) /\ Len(order) \in Nat
           /\ \A i \in 1..Len(order) : iso /\ PartOf(map, order[i], iso) # EmptyMap
           /\ \A p \in Namespaces : iso /\ PartOf(map, p, iso) # EmptyMap =>
                 \E i \in 1..Len(order) : order[i] = p
<1> DEFINE N == {n \in Namespaces : PartOf(map, n, TRUE) # EmptyMap}
<1>1. CASE iso
  <2>1. order \in S!SetToSeqs(N)
    BY <1>1 DEF Orders
  <2>2. IsFiniteSet(N)
    BY FiniteNamespaces, FS_Subset
  <2>3. order \in Seq(N) /\ Len(order) \in Nat /\ \A x \in N : \E i \in 1..Len(order) : order[i] = x
    <3> HIDE DEF N
    <3> QED
      BY <2>1, <2>2, Listing
  <2>4. order \in Seq(Namespaces) /\ \A i \in 1..Len(order) : order[i] \in N
    <3>1. N \subseteq Namespaces
      OBVIOUS
    <3> HIDE DEF N
    <3>2. \A i \in 1..Len(order) : order[i] \in N /\ order[i] \in Namespaces
      BY <2>3, <3>1
    <3>3. Seq(N) \subseteq Seq(Namespaces)
      BY <3>1, SeqMonotonic
    <3> QED
      BY <2>3, <3>2, <3>3
  <2> QED
    BY <1>1, <2>3, <2>4
<1>2. CASE ~iso
  <2>1. order = <<>>
    BY <1>2 DEF Orders
  <2> QED
    BY <1>2, <2>1
<1> QED
  BY <1>1, <1>2

(* How the writes w of a save go: the config, the timestamp, and for each  *)
(* of n places its points and their checksum.                              *)
Shape(w, map, days, o, n, at) ==
    /\ w \in Seq(Writes) /\ Len(w) = 2 * n + 2
    /\ w[1] = [file |-> "config", place |-> Root, data |-> days]
    /\ w[2] = [file |-> "stamp", place |-> Root, data |-> NoFile]
    /\ \A i \in 3..Len(w) : \E j \in 1..n : i = 2 * j + 1 \/ i = 2 * j + 2
    /\ \A j \in 1..n :
         /\ 2 * j + 1 \in 3..Len(w) /\ 2 * j + 2 \in 3..Len(w)
         /\ w[2 * j + 1] = [file |-> Format(o.binary), place |-> at[j],
                            data |-> PartOf(map, at[j], o.isolated)]
         /\ w[2 * j + 2] = [file |-> "sum", place |-> at[j],
                            data |-> <<Format(o.binary), PartOf(map, at[j], o.isolated)>>]
         /\ at[j] = Root \/ (o.isolated /\ PartOf(map, at[j], o.isolated) # EmptyMap)
    /\ \A p \in Places : p = Root \/ (o.isolated /\ PartOf(map, p, o.isolated) # EmptyMap) =>
         \E j \in 1..n : at[j] = p

LEMMA ConcatTwo ==
    ASSUME NEW T, NEW h \in Seq(T), Len(h) = 2, NEW r \in Seq(T)
    PROVE  /\ h \o r \in Seq(T) /\ Len(h \o r) = 2 + Len(r)
           /\ (h \o r)[1] = h[1] /\ (h \o r)[2] = h[2]
           /\ \A i \in 1..Len(r) : (h \o r)[i + 2] = r[i]
<1>1. /\ h \o r \in Seq(T) /\ Len(h \o r) = 2 + Len(r) /\ Len(r) \in Nat
      /\ \A i \in 1..(2 + Len(r)) : (h \o r)[i] = IF i <= 2 THEN h[i] ELSE r[i - 2]
  <2>1. Len(r) \in Nat
    BY LenProperties
  <2>2. /\ h \o r \in Seq(T) /\ Len(h \o r) = Len(h) + Len(r)
        /\ \A i \in 1..(Len(h) + Len(r)) : (h \o r)[i] = IF i <= Len(h) THEN h[i] ELSE r[i - Len(h)]
    BY ConcatProperties, Zenon
  <2> QED
    BY <2>1, <2>2
<1>2. \A i \in 1..Len(r) : i + 2 \in 1..(2 + Len(r)) /\ ~(i + 2 <= 2) /\ (i + 2) - 2 = i
  BY <1>1
<1> QED
  BY <1>1, <1>2

LEMMA SaveShape ==
    ASSUME NEW map \in Maps, NEW days \in Days, NEW o \in Switches, NEW order \in Orders(map, o.isolated),
           NEW w, w = SaveWrites(map, days, o, order)
    PROVE  \E n \in Nat \ {0} : \E at \in [1..n -> Places] : Shape(w, map, days, o, n, at)
<1> DEFINE n == Len(order) + 1
           at == <<Root>> \o order
           head == <<[file |-> "config", place |-> Root, data |-> days],
                     [file |-> "stamp", place |-> Root, data |-> NoFile]>>
           rest == [i \in 1..(2 * n) |-> PointsWrite(map, o, at, i)]
           file(p) == [file |-> Format(o.binary), place |-> p, data |-> PartOf(map, p, o.isolated)]
           sum(p) == [file |-> "sum", place |-> p,
                      data |-> <<Format(o.binary), PartOf(map, p, o.isolated)>>]
<1>1. /\ o.isolated \in BOOLEAN /\ o.binary \in BOOLEAN
      /\ order \in Seq(Namespaces) /\ Len(order) \in Nat
      /\ \A i \in 1..Len(order) : o.isolated /\ PartOf(map, order[i], o.isolated) # EmptyMap
      /\ \A p \in Namespaces : o.isolated /\ PartOf(map, p, o.isolated) # EmptyMap =>
            \E i \in 1..Len(order) : order[i] = p
  BY OrderFacts DEF Switches
<1>2. /\ n \in Nat \ {0} /\ at \in Seq(Places) /\ Len(at) = n /\ at[1] = Root /\ at \in [1..n -> Places]
      /\ \A i \in 1..Len(order) : at[i + 1] = order[i]
  <2>1. order \in Seq(Places) /\ <<Root>> \in Seq(Places) /\ Len(<<Root>>) = 1 /\ <<Root>>[1] = Root
    BY <1>1, PlaceFacts
  <2>2. at \in Seq(Places) /\ Len(at) = n /\ at[1] = Root
    BY <1>1, <2>1
  <2>3. \A i \in 1..Len(order) : at[i + 1] = order[i]
    BY <1>1, <2>1
  <2> HIDE DEF at
  <2>4. at \in [1..Len(at) -> Places]
    BY <2>2
  <2> QED
    BY <1>1, <2>2, <2>3, <2>4
<1>3. /\ \A j \in 1..n : at[j] \in Places
      /\ \A j \in 1..n : at[j] = Root \/ (o.isolated /\ PartOf(map, at[j], o.isolated) # EmptyMap)
      /\ \A p \in Places : p = Root \/ (o.isolated /\ PartOf(map, p, o.isolated) # EmptyMap) =>
                   \E j \in 1..n : at[j] = p
  <2>1. ASSUME NEW j \in 1..n
        PROVE  at[j] \in Places /\ (at[j] = Root \/ (o.isolated /\ PartOf(map, at[j], o.isolated) # EmptyMap))
    <3>1. j = 1 \/ (j - 1 \in 1..Len(order) /\ (j - 1) + 1 = j)
      BY <1>1
    <3>2. j # 1 => at[j] = order[j - 1]
      BY <1>2, <3>1
    <3> HIDE DEF at
    <3> QED
      BY <1>1, <1>2, <3>1, <3>2
  <2>2. ASSUME NEW p \in Places, p = Root \/ (o.isolated /\ PartOf(map, p, o.isolated) # EmptyMap)
        PROVE  \E j \in 1..n : at[j] = p
    <3>1. CASE p = Root
      BY <1>1, <1>2, <3>1
    <3>2. CASE p # Root
      <4>1. PICK i \in 1..Len(order) : order[i] = p
        BY <1>1, <2>2, <3>2, PlaceFacts
      <4>2. at[i + 1] = p /\ i + 1 \in 1..n
        BY <1>1, <1>2, <4>1
      <4> HIDE DEF at
      <4> QED
        BY <4>2
    <3> QED
      BY <3>1, <3>2
  <2> QED
    BY <2>1, <2>2
<1>4. \A p \in Places : file(p) \in Writes /\ sum(p) \in Writes
  <2>1. \A p : PartOf(map, p, o.isolated) \in Maps
    BY <1>1, PartFacts
  <2>2. Format(o.binary) \in Formats
    BY <1>1, FormatFacts
  <2> QED
    BY <2>1, <2>2 DEF Writes
<1> HIDE DEF n, at
<1>5. \A i \in 1..(2 * n) : \E j \in 1..n :
         \/ i = 2 * j - 1 /\ rest[i] = file(at[j])
         \/ i = 2 * j /\ rest[i] = sum(at[j])
  <2> SUFFICES ASSUME NEW i \in 1..(2 * n)
               PROVE  \E j \in 1..n : \/ i = 2 * j - 1 /\ rest[i] = file(at[j])
                                      \/ i = 2 * j /\ rest[i] = sum(at[j])
    OBVIOUS
  <2>1. PICK j \in 1..n : \/ i = 2 * j - 1 /\ (i + 1) \div 2 = j /\ 2 - (i % 2) = 1
                          \/ i = 2 * j /\ (i + 1) \div 2 = j /\ 2 - (i % 2) = 2
    BY <1>2, Halves
  <2>2. rest[i] = PointsWrites(at[j], PartOf(map, at[j], o.isolated), o.binary)[2 - (i % 2)]
    BY <2>1 DEF PointsWrite
  <2>3. /\ PointsWrites(at[j], PartOf(map, at[j], o.isolated), o.binary)[1] = file(at[j])
        /\ PointsWrites(at[j], PartOf(map, at[j], o.isolated), o.binary)[2] = sum(at[j])
    BY DEF PointsWrites
  <2> HIDE DEF rest
  <2> QED
    BY <2>1, <2>2, <2>3
<1>6. rest \in Seq(Writes) /\ Len(rest) = 2 * n /\ rest \in [1..(2 * n) -> Writes]
  <2>1. \A i \in 1..(2 * n) : rest[i] \in Writes
    <3> HIDE DEF rest, file, sum
    <3> QED
      BY <1>3, <1>4, <1>5
  <2>2. rest \in [1..(2 * n) -> Writes]
    BY <2>1
  <2>3. 2 * n \in Nat
    BY <1>2
  <2> HIDE DEF rest
  <2> QED
    BY <2>2, <2>3
<1>7. head \in Seq(Writes) /\ Len(head) = 2
  BY DEF Writes
<1>8. w = head \o rest
  BY DEF SaveWrites, n, at
<1>9. head[1] = [file |-> "config", place |-> Root, data |-> days]
      /\ head[2] = [file |-> "stamp", place |-> Root, data |-> NoFile]
  OBVIOUS
<1> HIDE DEF head, rest, file, sum
<1>10. /\ w \in Seq(Writes) /\ Len(w) = 2 * n + 2 /\ w[1] = head[1] /\ w[2] = head[2]
       /\ \A i \in 1..(2 * n) : w[i + 2] = rest[i]
  <2>1. /\ head \o rest \in Seq(Writes) /\ Len(head \o rest) = 2 + Len(rest)
        /\ (head \o rest)[1] = head[1] /\ (head \o rest)[2] = head[2]
        /\ \A i \in 1..Len(rest) : (head \o rest)[i + 2] = rest[i]
    BY <1>6, <1>7, ConcatTwo
  <2>2. 2 + Len(rest) = 2 * n + 2
    BY <1>2, <1>6
  <2> QED
    BY <1>6, <1>8, <2>1, <2>2
<1>11. ASSUME NEW j \in 1..n
       PROVE  /\ 2 * j + 1 \in 3..Len(w) /\ 2 * j + 2 \in 3..Len(w)
              /\ w[2 * j + 1] = file(at[j]) /\ w[2 * j + 2] = sum(at[j])
  <2>1. /\ 2 * j - 1 \in 1..(2 * n) /\ 2 * j \in 1..(2 * n) /\ (2 * j - 1) + 2 = 2 * j + 1
        /\ 2 * j + 1 \in 3..Len(w) /\ 2 * j + 2 \in 3..Len(w)
    BY <1>2, <1>10
  <2>2. rest[2 * j - 1] = file(at[j])
    <3>1. PICK k \in 1..n : \/ 2 * j - 1 = 2 * k - 1 /\ rest[2 * j - 1] = file(at[k])
                            \/ 2 * j - 1 = 2 * k /\ rest[2 * j - 1] = sum(at[k])
      BY <1>5, <2>1
    <3>2. k = j
      BY <3>1
    <3>3. 2 * j - 1 # 2 * k
      BY <1>2
    <3> QED
      BY <3>1, <3>2, <3>3
  <2>3. rest[2 * j] = sum(at[j])
    <3>1. PICK k \in 1..n : \/ 2 * j = 2 * k - 1 /\ rest[2 * j] = file(at[k])
                            \/ 2 * j = 2 * k /\ rest[2 * j] = sum(at[k])
      BY <1>5, <2>1
    <3>2. k = j
      BY <3>1
    <3>3. 2 * j # 2 * k - 1
      BY <1>2
    <3> QED
      BY <3>1, <3>2, <3>3
  <2> QED
    BY <1>10, <2>1, <2>2, <2>3
<1>12. ASSUME NEW i \in 3..Len(w) PROVE \E j \in 1..n : i = 2 * j + 1 \/ i = 2 * j + 2
  <2>1. i - 2 \in 1..(2 * n)
    BY <1>2, <1>10
  <2>2. PICK j \in 1..n : i - 2 = 2 * j - 1 \/ i - 2 = 2 * j
    BY <1>5, <2>1
  <2> QED
    BY <2>2
<1>13. n \in Nat \ {0} /\ at \in [1..n -> Places]
  BY <1>2
<1>14. Shape(w, map, days, o, n, at)
  BY <1>3, <1>9, <1>10, <1>11, <1>12 DEF file, sum, Shape
<1> QED
  BY <1>13, <1>14

LEMMA Begun ==
    ASSUME NEW map \in Maps, NEW days \in Days, NEW o \in Switches, NEW order \in Orders(map, o.isolated),
           todo' = SaveWrites(map, days, o, order), points' = map, retention' = days, options' = o
    PROVE  /\ todo' \in Seq(Writes) /\ todo' # <<>> /\ Head(todo').file = "config"
           /\ ~Stamped' /\ SaveInv' /\ ~BetweenFileAndSum'
<1>0. PICK n \in Nat \ {0} : \E at \in [1..n -> Places] : Shape(todo', map, days, o, n, at)
  <2>1. PICK w : w = SaveWrites(map, days, o, order)
    OBVIOUS
  <2>2. \E n \in Nat \ {0} : \E at \in [1..n -> Places] : Shape(w, map, days, o, n, at)
    BY <2>1, SaveShape
  <2> QED
    BY <2>1, <2>2
<1>a. PICK at \in [1..n -> Places] : Shape(todo', map, days, o, n, at)
  BY <1>0
<1>1. /\ todo' \in Seq(Writes) /\ Len(todo') = 2 * n + 2
      /\ todo'[1] = [file |-> "config", place |-> Root, data |-> days]
      /\ todo'[2] = [file |-> "stamp", place |-> Root, data |-> NoFile]
      /\ \A i \in 3..Len(todo') : \E j \in 1..n : i = 2 * j + 1 \/ i = 2 * j + 2
      /\ \A j \in 1..n :
           /\ 2 * j + 1 \in 3..Len(todo') /\ 2 * j + 2 \in 3..Len(todo')
           /\ todo'[2 * j + 1] = [file |-> Format(o.binary), place |-> at[j],
                                  data |-> PartOf(map, at[j], o.isolated)]
           /\ todo'[2 * j + 2] = [file |-> "sum", place |-> at[j],
                                  data |-> <<Format(o.binary), PartOf(map, at[j], o.isolated)>>]
           /\ at[j] = Root \/ (o.isolated /\ PartOf(map, at[j], o.isolated) # EmptyMap)
           /\ at[j] \in Places
      /\ \A p \in Places : p = Root \/ (o.isolated /\ PartOf(map, p, o.isolated) # EmptyMap) =>
           \E j \in 1..n : at[j] = p
  BY <1>a DEF Shape
<1>2. /\ Own' = Format(o.binary) /\ Own' \in Formats
      /\ \A p \in Places : /\ Part(p)' = PartOf(map, p, o.isolated)
                           /\ Holds(p)' <=> p = Root \/ (o.isolated /\ PartOf(map, p, o.isolated) # EmptyMap)
  BY FormatFacts DEF Own, Part, Holds, Switches
<1>3. /\ todo' # <<>> /\ Head(todo') = todo'[1] /\ 1 \in 1..Len(todo') /\ 2 \in 1..Len(todo')
      /\ todo'[1].file = "config" /\ todo'[2].file = "stamp"
      /\ \A i \in 1..Len(todo') : i = 1 \/ i = 2 \/ i \in 3..Len(todo')
  BY <1>1
<1>4. ASSUME NEW j \in 1..n
      PROVE  /\ todo'[2 * j + 1].file = Own' /\ todo'[2 * j + 1].place = at[j]
             /\ todo'[2 * j + 2].file = "sum" /\ todo'[2 * j + 2].place = at[j]
             /\ at[j] \in Places
  <2>1. /\ todo'[2 * j + 1] = [file |-> Format(o.binary), place |-> at[j],
                               data |-> PartOf(map, at[j], o.isolated)]
        /\ todo'[2 * j + 2] = [file |-> "sum", place |-> at[j],
                               data |-> <<Format(o.binary), PartOf(map, at[j], o.isolated)>>]
        /\ at[j] \in Places
    BY <1>1
  <2> QED
    BY <1>2, <2>1
<1>5. (\A i \in 1..Len(todo) : Due(todo[i]))'
  <2> SUFFICES ASSUME NEW i \in 1..Len(todo') PROVE Due(todo[i])'
    OBVIOUS
  <2>1. CASE i = 1 \/ i = 2
    BY <1>1, <2>1 DEF Due
  <2>2. CASE i \in 3..Len(todo')
    <3>1. PICK j \in 1..n : i = 2 * j + 1 \/ i = 2 * j + 2
      BY <1>1, <2>2
    <3>2. PICK p \in Places : p = at[j] /\ Holds(p)'
      BY <1>1, <1>2, <1>4
    <3>4. \/ todo'[i] = [file |-> Format(o.binary), place |-> p, data |-> PartOf(map, p, o.isolated)]
          \/ todo'[i] = [file |-> "sum", place |-> p,
                         data |-> <<Format(o.binary), PartOf(map, p, o.isolated)>>]
      BY <1>1, <3>1, <3>2
    <3>3. todo'[i] \in {[file |-> Own', place |-> p, data |-> Part(p)'],
                        [file |-> "sum", place |-> p, data |-> <<Own', Part(p)'>>]}
      BY <1>2, <3>2, <3>4
    <3> QED
      BY <3>2, <3>3 DEF Due
  <2> QED
    BY <1>3, <2>1, <2>2
<1>6. Ordered(todo')
  <2>1. ASSUME NEW i \in 3..Len(todo')
        PROVE  \/ /\ todo'[i].file \in Formats
                  /\ i < Len(todo') /\ todo'[i + 1].file = "sum" /\ todo'[i + 1].place = todo'[i].place
               \/ /\ todo'[i].file = "sum"
                  /\ todo'[i - 1].file \in Formats /\ todo'[i - 1].place = todo'[i].place
    <3>1. PICK j \in 1..n : i = 2 * j + 1 \/ i = 2 * j + 2
      BY <1>1
    <3>2. CASE i = 2 * j + 1
      <4>1. i + 1 = 2 * j + 2 /\ i < Len(todo')
        BY <1>1, <3>2
      <4> QED
        BY <1>2, <1>4, <3>2, <4>1
    <3>3. CASE i = 2 * j + 2
      <4>1. i - 1 = 2 * j + 1
        BY <3>3
      <4> QED
        BY <1>2, <1>4, <3>3, <4>1
    <3> QED
      BY <3>1, <3>2, <3>3
  <2>2. \A i \in 1..Len(todo') : todo'[i].file \in Formats =>
          i < Len(todo') /\ todo'[i + 1].file = "sum" /\ todo'[i + 1].place = todo'[i].place
    BY <1>3, <2>1 DEF Formats
  <2>3. \A i \in 2..Len(todo') : todo'[i].file = "sum" =>
          todo'[i - 1].file \in Formats /\ todo'[i - 1].place = todo'[i].place
    <3>1. \A i \in 2..Len(todo') : i = 2 \/ i \in 3..Len(todo')
      BY <1>1
    <3> QED
      BY <1>3, <2>1, <3>1 DEF Formats
  <2>4. \A i \in 1..Len(todo') : todo'[i].file = "config" => i = 1 /\ Len(todo') >= 2 /\ todo'[2].file = "stamp"
    <3>1. Len(todo') >= 2
      BY <1>1
    <3> QED
      BY <1>3, <2>1, <3>1 DEF Formats
  <2>5. \A i \in 1..Len(todo') : todo'[i].file = "stamp" => i = 1 \/ (i = 2 /\ todo'[1].file = "config")
    BY <1>3, <2>1 DEF Formats
  <2> QED
    BY <2>2, <2>3, <2>4, <2>5 DEF Ordered
<1>7. ~Stamped'
  BY <1>3 DEF Stamped
<1>8. ASSUME NEW p \in Places, Holds(p)'
      PROVE  \E i \in 1..Len(todo') : todo'[i].file \in Formats /\ todo'[i].place = p
  <2>1. PICK j \in 1..n : at[j] = p
    BY <1>1, <1>2, <1>8
  <2>2. 2 * j + 1 \in 1..Len(todo')
    BY <1>1
  <2> QED
    BY <1>2, <1>4, <2>1, <2>2
<1>9. \A p \in Places : Holds(p)' => Ahead(p)'
  BY <1>8 DEF Ahead
<1>10. Ordered(todo)' <=> Ordered(todo')
  BY DEF Ordered
<1>11. SaveInv'
  BY <1>3, <1>5, <1>6, <1>7, <1>8, <1>9, <1>10 DEF SaveInv
<1> QED
  BY <1>1, <1>3, <1>7, <1>11 DEF BetweenFileAndSum
-----------------------------------------------------------------------------
(* What the invariants need not to be disturbed *)

LEMMA KeepsClock ==
    ASSUME TypeOK, ClockInv, now' \in Nat, now' >= now, dir'.stamp = dir.stamp \/ dir'.stamp = 0,
           \A i \in 1..Len(log'.entries) :
              \/ log'.entries[i].ts = now
              \/ \E j \in 1..Len(log.entries) : log'.entries[i].ts = log.entries[j].ts
    PROVE  ClockInv'
<1>1. now \in Nat /\ now >= 1 /\ dir.stamp \in Nat /\ dir.stamp <= now
  BY Typed DEF ClockInv
<1>2. ASSUME NEW j \in 1..Len(log.entries) PROVE log.entries[j].ts \in Nat
  <2>1. log.entries \in Seq(LogEntry)
    BY Typed DEF Logs
  <2>2. log.entries[j] \in LogEntry
    BY <2>1
  <2> QED
    BY <2>2 DEF LogEntry
<1>3. dir'.stamp <= now'
  BY <1>1
<1>4. ASSUME NEW i \in 1..Len(log'.entries)
      PROVE  1 <= log'.entries[i].ts /\ log'.entries[i].ts <= now'
  <2>1. CASE log'.entries[i].ts = now
    BY <1>1, <2>1
  <2>2. ASSUME NEW j \in 1..Len(log.entries), log'.entries[i].ts = log.entries[j].ts
        PROVE  1 <= log'.entries[i].ts /\ log'.entries[i].ts <= now'
    <3>1. 1 <= log.entries[j].ts /\ log.entries[j].ts <= now /\ log.entries[j].ts \in Nat
      BY <1>2 DEF ClockInv
    <3> QED
      BY <1>1, <2>2, <3>1
  <2> QED
    BY <2>1, <2>2
<1> QED
  BY <1>3, <1>4 DEF ClockInv

LEMMA KeepsSave ==
    ASSUME SaveInv,
           todo' = <<>> \/ UNCHANGED <<todo, dir, options, points, retention>>
    PROVE  SaveInv'
<1>1. CASE todo' = <<>>
  BY <1>1 DEF SaveInv
<1>2. CASE UNCHANGED <<todo, dir, options, points, retention>>
  <2>1. /\ Own' = Own /\ Stamped' = Stamped
        /\ \A p \in Places : /\ Holds(p)' <=> Holds(p)
                             /\ Ahead(p)' <=> Ahead(p)
                             /\ Fresh(p)' <=> Fresh(p)
                             /\ Intact(dir.at[p])' <=> Intact(dir.at[p])
    BY <1>2 DEF Own, Stamped, Holds, Part, Ahead, Fresh, Intact, Chosen
  <2>2. (\A i \in 1..Len(todo) : Due(todo[i])) => (\A i \in 1..Len(todo) : Due(todo[i]))'
    BY <1>2 DEF Due, Own, Holds, Part
  <2>3. Ordered(todo) => Ordered(todo)'
    BY <1>2 DEF Ordered
  <2>4. Fresh(Head(todo).place) => Fresh(Head(todo).place)'
    BY <1>2 DEF Fresh, Own, Part, Chosen
  <2> QED
    BY <1>2, <2>1, <2>2, <2>3, <2>4 DEF SaveInv
<1> QED
  BY <1>1, <1>2

LEMMA KeepsFiles ==
    ASSUME FilesInv, dir' = dir, options'.isolated = options.isolated, options.binary => options'.binary,
           \/ todo = <<>> \/ todo' = todo
           \/ BetweenFileAndSum /\ ~Loads(dir) /\ dir.config # NoFile => "torn" \in lapses',
           \A x \in {"torn", "emptied"} : x \in lapses => x \in lapses'
    PROVE  FilesInv'
<1>1. ASSUME NEW p \in Places, ~Intact(dir.at[p])
      PROVE  \/ BetweenFileAndSum' /\ (Head(todo).place = p)'
             \/ "torn" \in lapses' \/ "emptied" \in lapses'
  <2>1. \/ BetweenFileAndSum /\ Head(todo).place = p
        \/ "torn" \in lapses \/ "emptied" \in lapses
    BY <1>1 DEF FilesInv
  <2>2. CASE todo = <<>> \/ todo' = todo
    BY <2>1, <2>2 DEF BetweenFileAndSum
  <2>3. CASE BetweenFileAndSum /\ ~Loads(dir) /\ dir.config # NoFile => "torn" \in lapses'
    <3>1. ~Loads(dir)
      BY <1>1 DEF Loads
    <3>2. dir.config # NoFile
      BY <1>1, EmptyDirectory, EmptyFiles DEF FilesInv
    <3> QED
      BY <2>1, <2>3, <3>1, <3>2
  <2> QED
    BY <2>2, <2>3
<1>2. \A p \in Places : Intact(dir.at[p])' <=> Intact(dir.at[p])
  BY DEF Intact, Chosen
<1> QED
  BY <1>1, <1>2 DEF FilesInv

(* The promise is kept when what it is about is the same.                  *)
LEMMA KeepsPromise ==
    ASSUME GivesBack, dir' = dir, ReadEntries(log') = ReadEntries(log), kept' = kept,
           todo = <<>> \/ UNCHANGED <<todo, points>>,
           lapses \cap Spared \subseteq lapses', after = "restored" => after' = "restored"
    PROVE  GivesBack'
<1>1. Promised' = Promised /\ Recovered(dir, log)' = Recovered(dir, log)
  BY NextFiles DEF Promised, Recovered
<1> QED
  BY <1>1 DEF GivesBack

LEMMA KeepsPast ==
    ASSUME PastKept, dir' = dir, ReadEntries(log') = ReadEntries(log), past' = past, now' = now,
           lapses' = {} => lapses = {},
           lapses' = {} /\ (todo' = <<>> \/ (~Stamped' /\ after' # "restored")) =>
              todo = <<>> \/ (~Stamped /\ after # "restored")
    PROVE  PastKept'
<1>1. /\ RestorePoints(dir, log)' = RestorePoints(dir, log)
      /\ Recovered(dir, log)' = Recovered(dir, log)
      /\ \A t : RecoveredTo(dir, log, t)' = RecoveredTo(dir, log, t)
      /\ RecoveredTo(dir, log, now)' = RecoveredTo(dir, log, now)
  <2>1. \A t : RecoveredTo(dir', log', t) = RecoveredTo(dir, log, t)
    BY RecoveredToSame
  <2> QED
    BY <2>1, NextFiles DEF Recovered, RestorePoints
<1> QED
  BY <1>1 DEF PastKept

LEMMA KeepsSeen ==
    ASSUME PastSeen, past' = past, points' = points, now' \in Nat, now \in Nat, now' >= now, Watched' => Watched
    PROVE  PastSeen'
<1>1. \A t \in Seconds : t >= now' => t >= now
  BY DataDirectoryAssumption DEF Seconds
<1> QED
  BY <1>1 DEF PastSeen

LEMMA NowSeen ==
    ASSUME TypeOK, now' = now, NEW map, Seen(map), points' = map
    PROVE  /\ PastSeen'
           /\ \A t \in Seconds : past'[t] = IF t >= now THEN map ELSE past[t]
           /\ map \in Maps \cup {NoCollection} => past' \in [Seconds -> Maps \cup {NoCollection}]
<1>1. past' = [t \in Seconds |-> IF t >= now THEN map ELSE past[t]] /\ past \in [Seconds -> Maps \cup {NoCollection}]
  BY DEF Seen, TypeOK
<1> QED
  BY <1>1 DEF PastSeen

(* An older log of the same entries reads the same.                        *)
LEMMA Opened ==
    ASSUME NEW l \in Logs, NEW compress \in BOOLEAN
    PROVE  /\ OpenLog(l, compress) \in Logs /\ OpenLog(l, compress).entries = l.entries
           /\ OpenLog(l, compress).magic = l.magic \/ l.entries = <<>>
           /\ ReadEntries(OpenLog(l, compress)) = ReadEntries(l)
<1>1. /\ OpenLog(l, compress) \in Logs /\ OpenLog(l, compress).entries = l.entries
      /\ OpenLog(l, compress).magic = l.magic \/ l.entries = <<>>
  BY DEF OpenLog, Logs
<1> QED
  BY <1>1, ReadSame

LEMMA Truncated ==
    ASSUME NEW compress \in BOOLEAN
    PROVE  /\ TruncatedLog(compress) \in Logs /\ TruncatedLog(compress).entries = <<>>
           /\ ReadEntries(TruncatedLog(compress)) = <<>>
<1>1. TruncatedLog(compress) \in Logs /\ TruncatedLog(compress).entries = <<>>
  BY DEF TruncatedLog, Logs
<1> QED
  BY <1>1, ReadEmpty

LEMMA NoLogFacts == NoLog \in Logs /\ NoLog.entries = <<>> /\ ReadEntries(NoLog) = <<>>
<1>1. NoLog \in Logs /\ NoLog.entries = <<>>
  BY DEF NoLog, Logs
<1> QED
  BY <1>1, ReadEmpty

(* What an empty log leaves of the invariants.                             *)
LEMMA EmptyLogInv ==
    ASSUME log' \in Logs, log'.entries = <<>>
    PROVE  LogInv'
<1>1. ReadEntries(log)' = <<>>
  BY NextFiles, ReadEmpty
<1>2. \A id \in Ids : ~Decides(id)'
  BY <1>1 DEF Decides, Hits
<1> QED
  BY <1>1, <1>2 DEF LogInv
-----------------------------------------------------------------------------
(* Steps that leave the files, the memory and the save alone: the clock,   *)
(* what a restore reads, the follower, a backup.                           *)
LEMMA StillKeeps ==
    ASSUME DirInv,
           UNCHANGED <<dir, log, program, options, points, retention, todo, after, past, kept, lapses, load>>,
           now' \in Seconds, now' <= load.seconds, now' >= now, failures' \in Nat,
           restore' = restore \/ restore' = <<>>
             \/ (restore' \in Maps \X Days /\ program = "server")
    PROVE  DirInv'
<1>0. TypeOK /\ now \in Nat /\ now' \in Nat /\ log \in Logs /\ dir \in Directories
  BY Typed, DataDirectoryAssumption DEF DirInv, Seconds
<1>1. TypeOK'
  BY <1>0 DEF TypeOK
<1>2. ClockInv'
  BY <1>0, KeepsClock DEF DirInv
<1>3. ProgramInv'
  <2>1. (Loads(dir)' <=> Loads(dir))
    BY DEF Loads, Intact, Chosen
  <2> QED
    BY <2>1 DEF DirInv, ProgramInv
<1>4. SaveInv' /\ FilesInv'
  BY KeepsSave, KeepsFiles DEF DirInv
<1>5. LogInv'
  <2>1. /\ ReadEntries(log)' = ReadEntries(log)
        /\ \A id \in Ids : Decides(id)' <=> Decides(id)
        /\ Replay(Loaded(dir), ReadEntries(log))' = Replay(Loaded(dir), ReadEntries(log))
    BY NextFiles DEF Decides, Replay, Overlay
  <2> QED
    BY <2>1 DEF DirInv, LogInv
<1>6. GivesBack'
  BY KeepsPromise DEF DirInv
<1>7. SavedInv' /\ PastSaved'
  <2>1. Loaded(dir)' = Loaded(dir) /\ (Stamped' <=> Stamped) /\ (Watched' <=> Watched)
    BY DEF Loaded, PointsIn, Chosen, Stamped, Watched, ReadEntries
  <2>2. SavedInv'
    BY <2>1 DEF DirInv, SavedInv
  <2>3. PastSaved'
    BY <2>1 DEF DirInv, PastSaved
  <2> QED
    BY <2>2, <2>3
<1>8. PastSeen'
  <2>1. Watched' <=> Watched
    BY DEF Watched, ReadEntries
  <2> QED
    BY <1>0, <2>1, KeepsSeen DEF DirInv
<1>9. PastKept'
  <2>1. RecoveredTo(dir, log, now') = RecoveredTo(dir, log, now)
    <3> DEFINE s == ReadEntries(log)
    <3>1. \A i \in 1..Len(s) : s[i].ts <= now /\ s[i].ts \in Nat
      BY <1>0, ReadType DEF DirInv, ClockInv, LogEntry
    <3>2. \A i \in 1..Len(s) : s[i].ts <= now' <=> s[i].ts <= now
      BY <1>0, <3>1
    <3>3. \A id : HitsTo(dir, s, now', id) = HitsTo(dir, s, now, id)
      BY <3>2 DEF HitsTo, Hits
    <3> QED
      BY <3>3 DEF RecoveredTo
  <2>2. /\ RestorePoints(dir, log)' = RestorePoints(dir, log)
        /\ Recovered(dir, log)' = Recovered(dir, log)
        /\ \A t : RecoveredTo(dir, log, t)' = RecoveredTo(dir, log, t)
        /\ RecoveredTo(dir, log, now)' = RecoveredTo(dir, log, now')
        /\ Stamped' <=> Stamped
    BY NextFiles DEF Stamped
  <2> QED
    BY <2>1, <2>2 DEF DirInv, PastKept
<1> QED
  BY <1>1, <1>2, <1>3, <1>4, <1>5, <1>6, <1>7, <1>8, <1>9 DEF DirInv

LEMMA SavingLapsesFacts ==
    ASSUME lapses \subseteq Spared \cup {"half", "second"}
    PROVE  /\ lapses \subseteq SavingLapses /\ SavingLapses \subseteq lapses \cup {"mixed"}
           /\ SavingLapses \subseteq Spared \cup {"half", "second"}
           /\ "mixed" \notin SavingLapses /\ (program = "server" \/ points = NoCollection) =>
                 ReadEntries(log) = <<>>
BY DEF SavingLapses, Spared

LEMMA Orderings ==
    ASSUME NEW map, NEW days, NEW what, StartSave(map, days, what)
    PROVE  \E order \in Orders(map, options.isolated) :
              todo' = SaveWrites(map, days, options, order) /\ after' = what
BY DEF StartSave

(* A save of what is in memory.                                            *)
LEMMA BeginKeeps ==
    ASSUME DirInv, NEW days \in Days, program = "server", points # NoCollection, ~Saving,
           StartSave(points, days, "clean"), lapses' = SavingLapses, retention' = days,
           UNCHANGED <<now, dir, log, program, options, points, restore, past, kept, load, failures>>
    PROVE  DirInv'
<1>0. /\ TypeOK /\ now \in Nat /\ log \in Logs /\ dir \in Directories /\ todo = <<>> /\ after = Idle
      /\ points \in Maps /\ options \in Switches /\ dir.stamp \in Nat
      /\ lapses \subseteq lapses' /\ lapses' \subseteq lapses \cup {"mixed"}
      /\ lapses' \subseteq Spared \cup {"half", "second"}
      /\ ("mixed" \notin lapses' => ReadEntries(log) = <<>>)
      /\ ReadEntries(log)' = ReadEntries(log)
  <2>1. /\ TypeOK /\ lapses \subseteq Spared \cup {"half", "second"} /\ todo = <<>> /\ after = Idle
    BY DEF DirInv, TypeOK, Saving
  <2> QED
    BY <2>1, Typed, SavingLapsesFacts, NextFiles
<1>1. after' = "clean" /\ todo' \in Seq(Writes) /\ todo' # <<>> /\ ~Stamped' /\ SaveInv'
  <2>1. PICK order \in Orders(points, options.isolated) :
           todo' = SaveWrites(points, days, options, order) /\ after' = "clean"
    BY Orderings
  <2> QED
    BY <1>0, <2>1, Begun
<1>2. TypeOK'
  BY <1>0, <1>1 DEF TypeOK
<1>3. ClockInv'
  BY <1>0, KeepsClock DEF DirInv
<1>4. ProgramInv'
  BY <1>0, <1>1, DataDirectoryAssumption DEF DirInv, ProgramInv
<1>5. FilesInv'
  BY <1>0, KeepsFiles DEF DirInv
<1>6. LogInv'
  BY <1>0 DEF DirInv, LogInv
<1>7. GivesBack'
  BY <1>0, DataDirectoryAssumption, KeepsPromise DEF DirInv
<1>8. SavedInv' /\ PastSaved'
  BY <1>1 DEF SavedInv, PastSaved
<1>9. PastSeen'
  <2>1. Watched' => Watched
    BY <1>0, <1>1 DEF Watched
  <2> QED
    BY <1>0, <2>1, KeepsSeen DEF DirInv
<1>10. PastKept'
  BY <1>0, KeepsPast DEF DirInv
<1> QED
  BY <1>1, <1>2, <1>3, <1>4, <1>5, <1>6, <1>7, <1>8, <1>9, <1>10 DEF DirInv

(* A collection is created: one that was not there, or that did not load.  *)
LEMMA CreateKeeps ==
    ASSUME DirInv, program # "none", points = NoCollection, ~Saving,
           StartSave(EmptyMap, NoLimit, "clean"), lapses' = SavingLapses, retention' = NoLimit,
           points' = EmptyMap, Seen(EmptyMap), log' = log \/ log' = OpenLog(log, options.compress),
           UNCHANGED <<now, dir, program, options, restore, kept, load, failures>>
    PROVE  DirInv'
<1>0. /\ TypeOK /\ now \in Nat /\ log \in Logs /\ dir \in Directories /\ todo = <<>> /\ after = Idle
      /\ EmptyMap \in Maps /\ EmptyMap # NoCollection /\ options \in Switches /\ NoLimit \in Days
      /\ options.compress \in BOOLEAN
      /\ lapses \subseteq lapses' /\ lapses' \subseteq lapses \cup {"mixed"}
      /\ lapses' \subseteq Spared \cup {"half", "second"}
      /\ ("mixed" \notin lapses' => ReadEntries(log) = <<>>)
  <2>1. /\ TypeOK /\ lapses \subseteq Spared \cup {"half", "second"} /\ todo = <<>> /\ after = Idle
    BY DEF DirInv, TypeOK, Saving
  <2> QED
    BY <2>1, Typed, SavingLapsesFacts, DataFacts DEF Days
<1>1. after' = "clean" /\ todo' \in Seq(Writes) /\ todo' # <<>> /\ ~Stamped' /\ SaveInv'
  <2>1. PICK order \in Orders(EmptyMap, options.isolated) :
           todo' = SaveWrites(EmptyMap, NoLimit, options, order) /\ after' = "clean"
    BY Orderings
  <2> QED
    BY <1>0, <2>1, Begun
<1>2. /\ log' \in Logs /\ log'.entries = log.entries /\ ReadEntries(log') = ReadEntries(log)
      /\ log'.magic = log.magic \/ log.entries = <<>>
  BY <1>0, Opened
<1>3. ~Loads(dir)
  BY DEF DirInv, ProgramInv
<1>4. PastSeen' /\ past' \in [Seconds -> Maps \cup {NoCollection}]
  BY <1>0, NowSeen
<1>5. TypeOK'
  BY <1>0, <1>1, <1>2, <1>4 DEF TypeOK
<1>6. ClockInv'
  BY <1>0, <1>2, KeepsClock DEF DirInv
<1>7. ProgramInv'
  BY <1>0, <1>1, DataDirectoryAssumption DEF DirInv, ProgramInv
<1>8. FilesInv'
  BY <1>0, KeepsFiles DEF DirInv
<1>9. LogInv'
  <2>1. "encoding" \notin lapses' => \A i \in 1..Len(log'.entries) : log'.entries[i].z = log'.magic
    <3>1. log.entries = <<>> => Len(log'.entries) = 0
      BY <1>2
    <3> QED
      BY <1>0, <1>2, <3>1 DEF DirInv, LogInv
  <2>2. "mixed" \notin lapses' => ReadEntries(log)' = <<>> /\ \A id \in Ids : ~Decides(id)'
    BY <1>0, <1>2, NextFiles DEF Decides, Hits
  <2> QED
    BY <2>1, <2>2 DEF LogInv
<1>10. GivesBack'
  BY <1>0, <1>2, DataDirectoryAssumption, KeepsPromise DEF DirInv
<1>11. SavedInv' /\ PastSaved'
  BY <1>1 DEF SavedInv, PastSaved
<1>12. PastKept'
  <2>1. ASSUME lapses' = {} PROVE dir.config = NoFile
    <3>1. "torn" \notin lapses /\ "emptied" \notin lapses
      BY <1>0, <2>1
    <3>2. \A p \in Places : Intact(dir.at[p])
      BY <1>0, <3>1 DEF DirInv, FilesInv, BetweenFileAndSum
    <3> QED
      BY <1>3, <3>2 DEF Loads
  <2> QED
    BY <2>1 DEF PastKept
<1> QED
  BY <1>1, <1>4, <1>5, <1>6, <1>7, <1>8, <1>9, <1>10, <1>11, <1>12 DEF DirInv

LEMMA SwapKeeps ==
    ASSUME DirInv, RestoreSwap
    PROVE  DirInv'
<1>0. /\ TypeOK /\ now \in Nat /\ log \in Logs /\ dir \in Directories /\ todo = <<>> /\ after = Idle
      /\ restore \in Maps \X Days /\ restore[1] \in Maps /\ restore[2] \in Days /\ restore[1] # NoCollection
      /\ options \in Switches /\ program = "server" /\ points # NoCollection
      /\ lapses \subseteq lapses' /\ lapses' \subseteq lapses \cup {"mixed"}
      /\ lapses' \subseteq Spared \cup {"half", "second"}
      /\ ("mixed" \notin lapses' => ReadEntries(log) = <<>>)
      /\ UNCHANGED <<now, dir, log, program, options, kept, load, failures>>
      /\ points' = restore[1] /\ retention' = restore[2] /\ restore' = <<>> /\ Seen(restore[1])
  <2>1. /\ TypeOK /\ lapses \subseteq Spared \cup {"half", "second"} /\ todo = <<>> /\ after = Idle
        /\ restore \in Maps \X Days /\ lapses' = SavingLapses /\ program = "server" /\ points # NoCollection
        /\ UNCHANGED <<now, dir, log, program, options, kept, load, failures>>
        /\ points' = restore[1] /\ retention' = restore[2] /\ restore' = <<>> /\ Seen(restore[1])
    BY DEF DirInv, TypeOK, Saving, RestoreSwap, Serving, files, bounds
  <2> QED
    BY <2>1, Typed, SavingLapsesFacts, DataFacts
<1>1. after' = "restored" /\ todo' \in Seq(Writes) /\ todo' # <<>> /\ ~Stamped' /\ SaveInv'
  <2>1. PICK map \in Maps, days \in Days : map = restore[1] /\ days = restore[2]
    BY <1>0
  <2>2. PICK order \in Orders(map, options.isolated) :
           todo' = SaveWrites(map, days, options, order) /\ after' = "restored"
    BY <2>1 DEF RestoreSwap, StartSave
  <2> QED
    BY <1>0, <2>1, <2>2, Begun
<1>2. PastSeen' /\ past' \in [Seconds -> Maps \cup {NoCollection}]
  BY <1>0, NowSeen
<1>3. TypeOK'
  BY <1>0, <1>1, <1>2 DEF TypeOK
<1>4. ClockInv'
  BY <1>0, KeepsClock DEF DirInv
<1>5. ProgramInv'
  BY <1>0, <1>1, DataDirectoryAssumption DEF DirInv, ProgramInv
<1>6. FilesInv'
  BY <1>0, KeepsFiles DEF DirInv
<1>7. LogInv'
  <2>1. ReadEntries(log)' = ReadEntries(log)
    BY <1>0, NextFiles
  <2> QED
    BY <1>0, <2>1 DEF DirInv, LogInv
<1>8. GivesBack'
  BY <1>0, <1>1 DEF DirInv, GivesBack
<1>9. SavedInv' /\ PastSaved' /\ PastKept'
  BY <1>1 DEF SavedInv, PastSaved, PastKept
<1> QED
  BY <1>1, <1>2, <1>3, <1>4, <1>5, <1>6, <1>7, <1>8, <1>9 DEF DirInv

(* A change of the map in memory.                                          *)
LEMMA ChangeKeeps ==
    ASSUME DirInv, NEW map \in Maps, Changed(map)
    PROVE  DirInv'
<1>0. /\ TypeOK /\ now \in Nat /\ now \in Seconds /\ log \in Logs /\ dir \in Directories /\ todo = <<>>
      /\ program = "server" /\ points # NoCollection /\ map # NoCollection /\ after # "truncate"
      /\ points' = map /\ Seen(map) /\ dir.stamp \in Nat
      /\ lapses' = lapses \cup (IF SameSecond(ReadEntries(log)) THEN {"second"} ELSE {})
      /\ UNCHANGED <<now, dir, log, program, options, retention, todo, after, restore, kept, load, failures>>
      /\ dir.stamp <= now
  BY Typed, DataFacts DEF DirInv, Changed, Serving, files, saving, ProgramInv, ClockInv
<1>1. /\ PastSeen' /\ past' \in [Seconds -> Maps \cup {NoCollection}]
      /\ \A t \in Seconds : past'[t] = IF t >= now THEN map ELSE past[t]
  BY <1>0, NowSeen
<1>2. TypeOK'
  BY <1>0, <1>1 DEF TypeOK
<1>3. ClockInv'
  BY <1>0, KeepsClock DEF DirInv
<1>4. ProgramInv'
  BY <1>0 DEF DirInv, ProgramInv
<1>5. SaveInv' /\ FilesInv'
  BY <1>0, KeepsSave, KeepsFiles DEF DirInv
<1>6. LogInv'
  <2>1. ReadEntries(log)' = ReadEntries(log)
    BY <1>0, NextFiles
  <2> QED
    BY <1>0, <2>1 DEF DirInv, LogInv
<1>7. GivesBack'
  BY <1>0, KeepsPromise DEF DirInv
<1>8. SavedInv'
  BY <1>0 DEF SavedInv
<1>9. ASSUME "second" \notin lapses'
      PROVE  /\ "second" \notin lapses
             /\ \A t \in RestorePoints(dir, log) : t # 0 => t \in Seconds /\ t < now /\ past'[t] = past[t]
  <2>1. ~SameSecond(ReadEntries(log)) /\ "second" \notin lapses
    BY <1>0, <1>9
  <2>2. ASSUME NEW t \in RestorePoints(dir, log), t # 0
        PROVE  t \in Nat /\ t <= now /\ t # now
    <3>1. CASE t = dir.stamp
      BY <1>0, <2>1, <3>1 DEF SameSecond
    <3>2. ASSUME NEW i \in DOMAIN ReadEntries(log), t = ReadEntries(log)[i].ts
          PROVE  t \in Nat /\ t <= now /\ t # now
      <4>1. i \in 1..Len(log.entries) /\ ReadEntries(log)[i] = log.entries[i] /\ ReadEntries(log)[i] \in LogEntry
        BY <1>0, ReadType
      <4>2. t # now
        BY <2>1, <3>2 DEF SameSecond
      <4> QED
        BY <3>2, <4>1, <4>2 DEF DirInv, ClockInv, LogEntry
    <3> QED
      BY <3>1, <3>2 DEF RestorePoints
  <2>3. \A t \in RestorePoints(dir, log) : t # 0 => t \in Seconds /\ t < now
    BY <1>0, <2>2, DataDirectoryAssumption DEF Seconds
  <2> QED
    BY <1>0, <1>1, <2>1, <2>3
<1>10. PastSaved'
  <2> SUFFICES ASSUME after = "restored", dir.config # NoFile, "emptied" \notin lapses', "second" \notin lapses'
               PROVE  dir.stamp # 0 /\ Loaded(dir) = past'[dir.stamp]
    BY <1>0, NextFiles DEF PastSaved
  <2>1. "emptied" \notin lapses /\ "second" \notin lapses
    BY <1>0
  <2>2. dir.stamp # 0 /\ Loaded(dir) = past[dir.stamp]
    BY <1>0, <2>1 DEF DirInv, PastSaved
  <2>3. dir.stamp \in RestorePoints(dir, log)
    BY DEF RestorePoints
  <2> QED
    BY <1>9, <2>2, <2>3
<1>11. PastKept'
  <2> SUFFICES ASSUME lapses' = {}, dir.config # NoFile
               PROVE  /\ \A t \in RestorePoints(dir, log) : t >= dir.stamp /\ t # 0 =>
                            RecoveredTo(dir, log, t) = past'[t]
                      /\ RecoveredTo(dir, log, now) = Recovered(dir, log)
    BY <1>0, NextFiles DEF PastKept
  <2>1. lapses = {}
    BY <1>0
  <2> QED
    BY <1>0, <1>9, <2>1 DEF DirInv, PastKept
<1> QED
  BY <1>1, <1>2, <1>3, <1>4, <1>5, <1>6, <1>7, <1>8, <1>10, <1>11 DEF DirInv

(* A save is cut off, or the program ends.                                 *)
LEMMA CutKeeps ==
    ASSUME DirInv, program # "none", todo' = <<>>, after' = Idle, lapses' = CutLapses,
           UNCHANGED <<now, dir, log, options, past, load>>, failures' \in Nat,
           \/ /\ program' = "none" /\ points' = NoCollection /\ retention' = NoLimit /\ restore' = <<>>
              /\ kept' = IF Saving /\ Loads(dir) THEN Recovered(dir, log) ELSE kept
           \/ /\ program = "server"
              /\ UNCHANGED <<program, points, retention, restore>>
              /\ kept' = IF Loads(dir) THEN Recovered(dir, log) ELSE kept
    PROVE  DirInv'
<1>0. /\ TypeOK /\ now \in Nat /\ log \in Logs /\ dir \in Directories
      /\ lapses \subseteq lapses' /\ lapses' \subseteq Spared \cup {"half", "second"}
      /\ ("undone" \notin lapses' => after # "restored")
      /\ ("half" \notin lapses' => todo = <<>> \/ ~Stamped)
      /\ (BetweenFileAndSum /\ ~Loads(dir) => "torn" \in lapses')
      /\ Recovered(dir, log) \in Maps \cup {NoCollection}
      /\ NoLimit \in Days
  <2>1. TypeOK /\ lapses \subseteq Spared \cup {"half", "second"} /\ todo \in Seq(Writes)
    BY DEF DirInv, TypeOK
  <2>2. ("half" \notin lapses' => todo = <<>> \/ ~Stamped)
    BY <2>1 DEF CutLapses, Stamped
  <2>3. lapses \subseteq lapses' /\ lapses' \subseteq Spared \cup {"half", "second"}
    BY <2>1 DEF CutLapses, Spared
  <2>4. /\ ("undone" \notin lapses' => after # "restored")
        /\ (BetweenFileAndSum /\ ~Loads(dir) => "torn" \in lapses')
    BY DEF CutLapses, BetweenFileAndSum
  <2> QED
    BY <2>1, <2>2, <2>3, <2>4, Typed, RecoveredType DEF Days
<1>1. kept' = kept \/ (Loads(dir) /\ kept' = Recovered(dir, log))
  OBVIOUS
<1>2. TypeOK'
  BY <1>0, <1>1 DEF TypeOK
<1>3. ClockInv'
  BY <1>0, KeepsClock DEF DirInv
<1>4. ProgramInv'
  <2>1. (Loads(dir)' <=> Loads(dir))
    BY NextFiles
  <2> QED
    BY <2>1, DataDirectoryAssumption DEF DirInv, ProgramInv
<1>5. SaveInv' /\ FilesInv'
  BY <1>0, KeepsSave, KeepsFiles DEF DirInv
<1>6. LogInv'
  <2>1. program' # "engine"
    OBVIOUS
  <2> QED
    BY <1>0, <2>1 DEF DirInv, LogInv
<1>7. GivesBack'
  <2>1. /\ Recovered(dir, log)' = Recovered(dir, log)
        /\ Loads(dir) => dir.config # NoFile
    BY NextFiles DEF Recovered, Loads
  <2>2. dir.config = NoFile => kept' = NoCollection
    BY <1>1, <2>1 DEF DirInv, GivesBack
  <2>3. ASSUME lapses' \cap Spared = {}, dir.config # NoFile
        PROVE  \A id \in Ids : Recovered(dir, log)[id] = Promised'[id]
    <3>1. "undone" \notin lapses' /\ "torn" \notin lapses' /\ "emptied" \notin lapses' /\ lapses \cap Spared = {}
      BY <1>0, <2>3 DEF Spared
    <3>2. Loads(dir)
      BY <1>0, <2>3, <3>1 DEF DirInv, FilesInv, Loads
    <3>3. CASE kept' = Recovered(dir, log)
      <4>1. Recovered(dir, log) # NoCollection
        BY <1>0, <2>3, RecoveredType, DataFacts
      <4> QED
        BY <3>3, <4>1 DEF Promised
    <3>4. CASE kept' = kept /\ ~Saving
      <4>1. todo = <<>> /\ Promised' = Promised
        BY <3>4 DEF Saving, Promised
      <4> QED
        BY <1>0, <2>3, <3>1, <4>1 DEF DirInv, GivesBack
    <3> QED
      BY <3>2, <3>3, <3>4
  <2> QED
    BY <2>1, <2>2, <2>3 DEF GivesBack
<1>8. SavedInv' /\ PastSaved'
  BY DataDirectoryAssumption DEF SavedInv, PastSaved
<1>9. PastSeen'
  <2>1. CASE points' = NoCollection
    BY <2>1 DEF PastSeen
  <2>2. CASE program = "server" /\ UNCHANGED <<program, points>>
    <3>1. Watched' => Watched
      BY <1>0, <2>2, NextFiles, DataDirectoryAssumption DEF Watched
    <3> QED
      BY <1>0, <2>2, <3>1, KeepsSeen DEF DirInv
  <2> QED
    BY <2>1, <2>2
<1>10. PastKept'
  <2>1. lapses' = {} => lapses = {} /\ (todo = <<>> \/ (~Stamped /\ after # "restored"))
    BY <1>0
  <2> QED
    BY <2>1, KeepsPast DEF DirInv
<1> QED
  BY <1>2, <1>3, <1>4, <1>5, <1>6, <1>7, <1>8, <1>9, <1>10 DEF DirInv
-----------------------------------------------------------------------------
(* Steps on the log *)

LEMMA TruncateKeeps ==
    ASSUME DirInv, Truncate
    PROVE  DirInv'
<1>0. /\ TypeOK /\ now \in Nat /\ log \in Logs /\ dir \in Directories /\ todo = <<>> /\ after = "truncate"
      /\ log' = TruncatedLog(options.compress) /\ after' = Idle /\ lapses' = lapses \cap {"emptied"}
      /\ UNCHANGED <<now, dir, program, options, points, retention, todo, restore, past, kept, load, failures>>
      /\ program = "engine" /\ points # NoCollection /\ dir.config # NoFile /\ kept = points
      /\ options.compress \in BOOLEAN /\ dir.stamp \in Nat
  BY Typed DEF DirInv, Truncate, ProgramInv, bounds
<1>1. log' \in Logs /\ log'.entries = <<>> /\ ReadEntries(log') = <<>> /\ Len(log'.entries) = 0
  BY <1>0, Truncated
<1>2. TypeOK'
  BY <1>0, <1>1 DEF TypeOK
<1>3. ClockInv'
  BY <1>0, <1>1, KeepsClock DEF DirInv
<1>4. ProgramInv'
  BY <1>0, DataDirectoryAssumption DEF DirInv, ProgramInv
<1>5. SaveInv' /\ FilesInv'
  <2>1. "torn" \notin lapses
    BY <1>0 DEF DirInv, SavedInv
  <2> QED
    BY <1>0, <2>1, KeepsSave, KeepsFiles DEF DirInv
<1>6. LogInv'
  BY <1>1, EmptyLogInv
<1>7. /\ Recovered(dir, log)' = Loaded(dir)
      /\ \A t : RecoveredTo(dir, log, t)' = Loaded(dir)
      /\ RecoveredTo(dir, log, now)' = Loaded(dir)
      /\ RestorePoints(dir, log)' = {dir.stamp}
  <2>1. Recovered(dir, log') = Loaded(dir)
    BY <1>0, <1>1, LoadedType, ReplayEmpty DEF Recovered
  <2>2. \A t : RecoveredTo(dir, log', t) = Loaded(dir)
    BY <1>0, <1>1, NoneNeeded
  <2>3. RestorePoints(dir, log') = {dir.stamp}
    BY <1>1 DEF RestorePoints
  <2> QED
    BY <1>0, <2>1, <2>2, <2>3, NextFiles
<1>8. "emptied" \notin lapses' => /\ Loaded(dir) = points
                                  /\ dir.stamp # 0 /\ Loaded(dir) = past[dir.stamp]
  BY <1>0 DEF DirInv, SavedInv, PastSaved
<1>9. GivesBack'
  BY <1>0, <1>7, <1>8 DEF GivesBack, Promised, Spared
<1>10. SavedInv' /\ PastSaved'
  BY <1>0, DataDirectoryAssumption DEF SavedInv, PastSaved
<1>11. PastSeen'
  BY <1>0, KeepsSeen DEF DirInv, Watched
<1>12. PastKept'
  BY <1>0, <1>7, <1>8 DEF PastKept
<1> QED
  BY <1>2, <1>3, <1>4, <1>5, <1>6, <1>9, <1>10, <1>11, <1>12 DEF DirInv

LEMMA RestoreTruncatesKeeps ==
    ASSUME DirInv, RestoreTruncates
    PROVE  DirInv'
<1>0. /\ TypeOK /\ now \in Nat /\ log \in Logs /\ dir \in Directories /\ todo = <<>> /\ after = "restored"
      /\ log' = TruncatedLog(options.compress) /\ after' = Idle
      /\ UNCHANGED <<now, dir, program, options, points, retention, todo, restore, past, load, failures>>
      /\ program = "server" /\ options.compress \in BOOLEAN /\ dir.stamp \in Nat
      /\ dir.config = NoFile => kept' = kept /\ lapses' = lapses
      /\ dir.config # NoFile => /\ kept' = Recovered(dir, log')
                                /\ lapses' = lapses \ {"mixed", "undone", "compacted", "encoding"}
  BY Typed DEF DirInv, RestoreTruncates, ProgramInv, bounds
<1>1. log' \in Logs /\ log'.entries = <<>> /\ ReadEntries(log') = <<>> /\ Len(log'.entries) = 0
  BY <1>0, Truncated
<1>2. /\ \A t : RecoveredTo(dir, log, t)' = Loaded(dir)
      /\ RecoveredTo(dir, log, now)' = Loaded(dir)
      /\ RestorePoints(dir, log)' = {dir.stamp}
      /\ Recovered(dir, log)' = Recovered(dir, log')
      /\ dir.config # NoFile => Recovered(dir, log') = Loaded(dir)
      /\ Loaded(dir) \in Maps
  <2>1. dir.config # NoFile => Recovered(dir, log') = Loaded(dir)
    BY <1>0, <1>1, LoadedType, ReplayEmpty DEF Recovered
  <2>2. \A t : RecoveredTo(dir, log', t) = Loaded(dir)
    BY <1>0, <1>1, NoneNeeded
  <2>3. RestorePoints(dir, log') = {dir.stamp}
    BY <1>1 DEF RestorePoints
  <2> QED
    BY <1>0, <2>1, <2>2, <2>3, NextFiles, LoadedType
<1>3. TypeOK'
  BY <1>0, <1>1, <1>2 DEF TypeOK
<1>4. ClockInv'
  BY <1>0, <1>1, KeepsClock DEF DirInv
<1>5. ProgramInv'
  BY <1>0, DataDirectoryAssumption DEF DirInv, ProgramInv, Loads, Intact, Chosen
<1>6. SaveInv' /\ FilesInv'
  BY <1>0, KeepsSave, KeepsFiles DEF DirInv
<1>7. LogInv'
  BY <1>1, EmptyLogInv
<1>8. GivesBack'
  <2>1. dir.config = NoFile => kept' = NoCollection
    BY <1>0 DEF DirInv, GivesBack
  <2>2. dir.config # NoFile => Promised' = Recovered(dir, log)'
    BY <1>0, <1>2, DataFacts DEF Promised
  <2> QED
    BY <1>0, <2>1, <2>2 DEF GivesBack
<1>9. SavedInv' /\ PastSaved'
  BY <1>0, DataDirectoryAssumption DEF SavedInv, PastSaved
<1>10. PastSeen'
  BY <1>0, KeepsSeen DEF DirInv, Watched
<1>11. PastKept'
  <2> SUFFICES ASSUME lapses' = {}, dir.config # NoFile
               PROVE  dir.stamp # 0 /\ Loaded(dir) = past[dir.stamp]
    BY <1>0, <1>2 DEF PastKept
  <2>1. "emptied" \notin lapses /\ "second" \notin lapses
    BY <1>0
  <2> QED
    BY <1>0, <2>1 DEF DirInv, PastSaved
<1> QED
  BY <1>3, <1>4, <1>5, <1>6, <1>7, <1>8, <1>9, <1>10, <1>11 DEF DirInv

LEMMA DropKeeps ==
    ASSUME DirInv, GrpcDeleteCollection
    PROVE  DirInv'
<1>0. /\ TypeOK /\ now \in Nat /\ log \in Logs /\ dir \in Directories /\ todo = <<>>
      /\ program = "server" /\ after # "truncate"
      /\ points' = NoCollection /\ retention' = NoLimit /\ dir' = NoDirectory /\ log' = NoLog
      /\ kept' = NoCollection /\ Seen(NoCollection) /\ lapses' = {}
      /\ UNCHANGED <<now, program, options, todo, after, restore, load, failures>>
      /\ NoLimit \in Days
  BY Typed DEF DirInv, GrpcDeleteCollection, Serving, saving, ProgramInv, Days
<1>1. /\ dir' \in Directories /\ dir'.config = NoFile /\ dir'.stamp = 0
      /\ log' \in Logs /\ log'.entries = <<>> /\ Len(log'.entries) = 0
  BY <1>0, EmptyDirectory, NoLogFacts
<1>2. PastSeen' /\ past' \in [Seconds -> Maps \cup {NoCollection}]
  BY <1>0, NowSeen
<1>3. TypeOK'
  BY <1>0, <1>1, <1>2 DEF TypeOK
<1>4. ClockInv'
  BY <1>0, <1>1, KeepsClock DEF DirInv
<1>5. ProgramInv'
  BY <1>0, <1>1 DEF DirInv, ProgramInv, Loads
<1>6. SaveInv' /\ FilesInv'
  <2>1. /\ \A p \in Places : dir'.at[p] = NoFiles /\ Intact(dir'.at[p])
        /\ \A p \in Places, f \in Formats : dir'.at[p][f] = NoFile /\ dir'.at[p].bin = NoFile
    BY <1>0, EmptyDirectory, EmptyFiles DEF Formats
  <2>2. \A p \in Places : Intact(dir.at[p])'
    BY <2>1 DEF Intact, Chosen
  <2>3. EmptyMap # NoFile
    BY DataFacts
  <2>4. SaveInv'
    BY <1>0, KeepsSave DEF DirInv
  <2>5. Root \in Places /\ Namespaces \subseteq Places
    BY PlaceFacts
  <2>6. \A p \in Namespaces, f \in Formats : dir'.at[p][f] # EmptyMap
    BY <2>1, <2>3, <2>5
  <2>7. (dir.config = NoFile => dir = NoDirectory)'
    BY <1>0
  <2>8. \A p \in Places : dir'.at[p].bin = NoFile
    BY <1>0, EmptyDirectory DEF NoFiles
  <2> QED
    BY <2>1, <2>2, <2>4, <2>5, <2>6, <2>7, <2>8 DEF FilesInv
<1>7. LogInv'
  BY <1>1, EmptyLogInv
<1>8. GivesBack' /\ SavedInv' /\ PastSaved' /\ PastKept'
  BY <1>0, <1>1 DEF GivesBack, SavedInv, PastSaved, PastKept
<1> QED
  BY <1>2, <1>3, <1>4, <1>5, <1>6, <1>7, <1>8 DEF DirInv

LEMMA RetentionKeeps ==
    ASSUME DirInv, RetentionCycle
    PROVE  DirInv'
<1>0. /\ TypeOK /\ now \in Nat /\ log \in Logs /\ dir \in Directories
      /\ program = "server" /\ after # "truncate" /\ log' # log
      /\ lapses' = lapses \cup {"compacted"}
      /\ UNCHANGED <<now, dir, program, options, points, retention, todo, after, restore, past, kept, load, failures>>
      /\ options.compress \in BOOLEAN /\ dir.stamp \in Nat
  BY Typed DEF DirInv, RetentionCycle, Serving, saving, ProgramInv, bounds
<1>1. PICK cutoff : log' = Compacted(log, cutoff, options.compress)
  BY DEF RetentionCycle
<1>2. /\ log' \in Logs
      /\ \A i \in 1..Len(log'.entries) : log'.entries[i].z = log'.magic
      /\ \A i \in 1..Len(log'.entries) : \E j \in 1..Len(log.entries) : log'.entries[i].ts = log.entries[j].ts
      /\ ReadEntries(log) # <<>>
  <2>1. ReadEntries(log) # <<>>
    <3>1. ReadEntries(log) = <<>> => Compacted(log, cutoff, options.compress) = log
      BY DEF Compacted
    <3> QED
      BY <1>0, <1>1, <3>1
  <2>2. PICK c : c = Compacted(log, cutoff, options.compress)
    OBVIOUS
  <2>3. /\ c \in Logs
        /\ c # log => \A i \in 1..Len(c.entries) : c.entries[i].z = c.magic
        /\ \A i \in 1..Len(c.entries) : \E j \in 1..Len(log.entries) : c.entries[i].ts = log.entries[j].ts
    BY <1>0, <2>2, CompactedType
  <2> QED
    BY <1>0, <1>1, <2>1, <2>2, <2>3
<1>3. TypeOK'
  BY <1>0, <1>2 DEF TypeOK, Spared
<1>4. ClockInv'
  <2>1. ClockInv /\ now' \in Nat /\ now' >= now /\ dir'.stamp = dir.stamp
    BY <1>0 DEF DirInv
  <2>2. \A i \in 1..Len(log'.entries) : \E j \in 1..Len(log.entries) : log'.entries[i].ts = log.entries[j].ts
    BY <1>2
  <2> QED
    BY <1>0, <2>1, <2>2, KeepsClock
<1>5. ProgramInv'
  BY <1>0 DEF DirInv, ProgramInv, Loads, Intact, Chosen
<1>6. SaveInv' /\ FilesInv'
  BY <1>0, KeepsSave, KeepsFiles DEF DirInv
<1>7. LogInv'
  BY <1>0, <1>2 DEF DirInv, LogInv
<1>8. GivesBack' /\ SavedInv' /\ PastKept'
  BY <1>0 DEF DirInv, GivesBack, SavedInv, PastKept, Spared
<1>9. Watched' => Watched
  BY <1>0 DEF Watched
<1>10. PastSeen'
  BY <1>0, <1>9, KeepsSeen DEF DirInv
<1>11. PastSaved'
  <2>1. ASSUME todo # <<>>, Stamped
        PROVE  /\ \A i \in 1..Len(log'.entries) : log'.entries[i].ts <= dir.stamp
               /\ Watched' => past[dir.stamp] = points
    BY <1>2, <1>9, <2>1 DEF DirInv, PastSaved
  <2>2. (Stamped' <=> Stamped) /\ Loaded(dir)' = Loaded(dir)
    BY <1>0, NextFiles DEF Stamped
  <2> QED
    BY <1>0, <2>1, <2>2 DEF DirInv, PastSaved
<1> QED
  BY <1>3, <1>4, <1>5, <1>6, <1>7, <1>8, <1>10, <1>11 DEF DirInv

-----------------------------------------------------------------------------
(* Starts *)

LEMMA StartFacts ==
    ASSUME DirInv, NEW new \in load.options, MayStart(new)
    PROVE  /\ TypeOK /\ now \in Nat /\ now \in Seconds /\ log \in Logs /\ dir \in Directories
           /\ dir.stamp \in Nat /\ dir.stamp <= now
           /\ program = "none" /\ points = NoCollection /\ todo = <<>> /\ after = Idle /\ restore = <<>>
           /\ options' = new /\ new \in Switches /\ new.compress \in BOOLEAN
           /\ new.isolated = options.isolated /\ (options.binary => new.binary)
           /\ Loaded(dir) \in Maps /\ NoCollection \notin Maps
           /\ Loads(dir) => dir.config # NoFile /\ dir.config \in Days
  <1>1. TypeOK /\ ClockInv /\ ProgramInv
    BY DEF DirInv
  <1>2. Loads(dir) => dir.config # NoFile /\ dir.config \in Days
    BY <1>1, Typed DEF Loads, Directories
  <1>3. /\ program = "none" /\ options' = new
        /\ new.isolated = options.isolated /\ (options.binary => new.binary)
    BY DEF MayStart
  <1>4. new \in Switches /\ new.compress \in BOOLEAN
    BY <1>1, Typed DEF Switches
  <1> QED
    BY <1>1, <1>2, <1>3, <1>4, Typed, LoadedType, DataFacts DEF ProgramInv, ClockInv

(* Restore points are not later than now.                                  *)
LEMMA PointsOfTime ==
    ASSUME TypeOK, ClockInv, NEW t \in RestorePoints(dir, log)
    PROVE  t \in Nat /\ t <= now /\ (t # 0 => t \in Seconds)
<1>1. now \in Nat /\ now \in Seconds /\ log \in Logs /\ dir.stamp \in Nat /\ dir.stamp <= now
  BY Typed DEF ClockInv
<1>2. \A i \in DOMAIN ReadEntries(log) : ReadEntries(log)[i].ts \in Nat /\ ReadEntries(log)[i].ts <= now
  <2>1. /\ DOMAIN ReadEntries(log) = 1..Len(ReadEntries(log))
        /\ \A i \in 1..Len(ReadEntries(log)) :
              /\ i \in 1..Len(log.entries) /\ ReadEntries(log)[i] = log.entries[i]
              /\ ReadEntries(log)[i] \in LogEntry
    BY <1>1, ReadType
  <2> QED
    BY <2>1 DEF ClockInv, LogEntry
<1>3. t \in Nat /\ t <= now
  BY <1>1, <1>2 DEF RestorePoints
<1>4. \A x \in Nat : x # 0 /\ x <= now => x \in Seconds
  BY <1>1, DataDirectoryAssumption DEF Seconds
<1> QED
  BY <1>3, <1>4

LEMMA StartServerKeeps ==
    ASSUME DirInv, NEW new \in load.options, StartServer(new)
    PROVE  DirInv'
<1>0. /\ TypeOK /\ now \in Nat /\ now \in Seconds /\ log \in Logs /\ dir \in Directories
      /\ dir.stamp \in Nat /\ dir.stamp <= now
      /\ program = "none" /\ points = NoCollection /\ todo = <<>> /\ after = Idle /\ restore = <<>>
      /\ options' = new /\ new \in Switches /\ new.compress \in BOOLEAN
      /\ new.isolated = options.isolated /\ (options.binary => new.binary)
      /\ Loaded(dir) \in Maps /\ NoCollection \notin Maps
      /\ Loads(dir) => dir.config # NoFile /\ dir.config \in Days
  BY StartFacts DEF StartServer
<1>1. /\ program' = "server"
      /\ UNCHANGED <<now, dir, log, todo, after, restore, kept, lapses, load, failures>>
      /\ Loads(dir) => points' = Loaded(dir) /\ retention' = dir.config
      /\ Loads(dir) /\ ReadEntries(log) = <<>> => Seen(Loaded(dir))
      /\ Loads(dir) /\ ReadEntries(log) # <<>> => past' = past
      /\ ~Loads(dir) => UNCHANGED <<points, retention, past>>
  BY DEF StartServer, files, saving
<1>2. /\ PastSeen' /\ past' \in [Seconds -> Maps \cup {NoCollection}]
      /\ past' # past => Seen(Loaded(dir)) /\ ReadEntries(log) = <<>>
  <2>1. CASE Loads(dir) /\ ReadEntries(log) = <<>>
    BY <1>0, <1>1, <2>1, NowSeen
  <2>2. CASE Loads(dir) /\ ReadEntries(log) # <<>>
    <3>1. ~Watched'
      BY <1>0, <1>1, <2>2, NextFiles, DataDirectoryAssumption DEF Watched
    <3> QED
      BY <1>0, <1>1, <2>2, <3>1 DEF PastSeen, TypeOK
  <2>3. CASE ~Loads(dir)
    BY <1>0, <1>1, <2>3 DEF PastSeen, TypeOK
  <2> QED
    BY <2>1, <2>2, <2>3
<1>3. TypeOK'
  BY <1>0, <1>1, <1>2 DEF TypeOK
<1>4. ClockInv'
  BY <1>0, <1>1, KeepsClock DEF DirInv
<1>5. ProgramInv'
  BY <1>0, <1>1, NextFiles, DataDirectoryAssumption DEF ProgramInv
<1>6. SaveInv' /\ FilesInv'
  BY <1>0, <1>1, KeepsSave, KeepsFiles DEF DirInv
<1>7. LogInv'
  BY <1>0, <1>1 DEF DirInv, LogInv
<1>8. GivesBack'
  BY <1>0, <1>1, KeepsPromise DEF DirInv
<1>9. SavedInv' /\ PastSaved'
  BY <1>0, <1>1, DataDirectoryAssumption DEF SavedInv, PastSaved
<1>10. PastKept'
  <2> SUFFICES ASSUME lapses = {}, dir.config # NoFile, Seen(Loaded(dir)), ReadEntries(log) = <<>>
               PROVE  PastKept'
    <3>1. CASE lapses # {} \/ dir.config = NoFile
      BY <1>1, <3>1 DEF PastKept
    <3>2. CASE past' = past
      BY <1>0, <1>1, <3>2, KeepsPast DEF DirInv
    <3> QED
      BY <1>2, <3>1, <3>2
  <2>1. /\ \A t \in RestorePoints(dir, log) : t >= dir.stamp /\ t # 0 => RecoveredTo(dir, log, t) = past[t]
        /\ RecoveredTo(dir, log, now) = Recovered(dir, log)
    BY <1>0 DEF DirInv, PastKept
  <2>2. \A t : RecoveredTo(dir, log, t) = Loaded(dir)
    BY <1>0, NoneNeeded
  <2>3. \A t \in RestorePoints(dir, log) : t \in Nat /\ t <= now /\ (t # 0 => t \in Seconds)
    BY <1>0, PointsOfTime DEF DirInv
  <2>4. \A t \in RestorePoints(dir, log) : t >= dir.stamp /\ t # 0 => RecoveredTo(dir, log, t) = past'[t]
    BY <1>0, <2>1, <2>2, <2>3 DEF Seen
  <2> QED
    BY <1>1, <2>1, <2>4, NextFiles DEF PastKept
<1> QED
  BY <1>2, <1>3, <1>4, <1>5, <1>6, <1>7, <1>8, <1>9, <1>10 DEF DirInv

LEMMA StartEngineKeeps ==
    ASSUME DirInv, NEW new \in load.options, StartEngine(new)
    PROVE  DirInv'
<1>0. /\ TypeOK /\ now \in Nat /\ now \in Seconds /\ log \in Logs /\ dir \in Directories
      /\ dir.stamp \in Nat /\ dir.stamp <= now
      /\ program = "none" /\ points = NoCollection /\ todo = <<>> /\ after = Idle /\ restore = <<>>
      /\ options' = new /\ new \in Switches /\ new.compress \in BOOLEAN
      /\ new.isolated = options.isolated /\ (options.binary => new.binary)
      /\ Loaded(dir) \in Maps /\ NoCollection \notin Maps
      /\ Loads(dir) => dir.config # NoFile /\ dir.config \in Days
  BY StartFacts DEF StartEngine
<1>1. program' = "engine" /\ UNCHANGED <<now, dir, restore, lapses, load, failures>>
  BY DEF StartEngine
<1>2. FilesInv'
  BY <1>0, <1>1, KeepsFiles DEF DirInv
<1>3. CASE ~Loads(dir)
  <2>1. UNCHANGED <<points, kept, past, retention, log, todo, after>>
    BY <1>3 DEF StartEngine, saving
  <2>2. TypeOK' /\ PastSeen'
    BY <1>0, <1>1, <2>1 DEF TypeOK, PastSeen
  <2>3. ClockInv'
    BY <1>0, <1>1, <2>1, KeepsClock DEF DirInv
  <2>4. ProgramInv'
    BY <1>0, <1>1, <1>3, <2>1, NextFiles, DataDirectoryAssumption DEF ProgramInv
  <2>5. SaveInv'
    BY <1>0, <2>1, KeepsSave DEF DirInv
  <2>6. LogInv'
    BY <1>0, <1>1, <2>1 DEF DirInv, LogInv
  <2>7. GivesBack'
    BY <1>0, <1>1, <2>1, KeepsPromise DEF DirInv
  <2>8. SavedInv' /\ PastSaved'
    BY <1>0, <2>1, DataDirectoryAssumption DEF SavedInv, PastSaved
  <2>9. PastKept'
    BY <1>0, <1>1, <2>1, KeepsPast DEF DirInv
  <2> QED
    BY <1>2, <2>2, <2>3, <2>4, <2>5, <2>6, <2>7, <2>8, <2>9 DEF DirInv
<1>4. CASE Loads(dir)
  <2> DEFINE map == Recovered(dir, log)
  <2>1. /\ points' = map /\ kept' = map /\ Seen(map) /\ retention' = dir.config
        /\ log' = OpenLog(log, new.compress)
    BY <1>4 DEF StartEngine
  <2>2. map \in Maps /\ map = Replay(Loaded(dir), ReadEntries(log)) /\ map # NoCollection
    BY <1>0, <1>4, RecoveredType
  <2>3. /\ log' \in Logs /\ log'.entries = log.entries /\ ReadEntries(log') = ReadEntries(log)
        /\ log'.magic = log.magic \/ log.entries = <<>>
    BY <1>0, <2>1, Opened
  <2>4. /\ todo' \in Seq(Writes) /\ SaveInv' /\ (todo' # <<>> => ~Stamped')
        /\ \/ todo' = <<>> /\ after' = Idle
           \/ todo' # <<>> /\ after' = "truncate"
    <3>1. CASE Len(ReadEntries(log)) = 0
      <4>1. UNCHANGED <<todo, after>>
        BY <1>4, <3>1 DEF StartEngine, saving
      <4>2. SaveInv'
        BY <1>0, <4>1, KeepsSave DEF DirInv
      <4> QED
        BY <1>0, <4>1, <4>2 DEF TypeOK
    <3>2. CASE Len(ReadEntries(log)) # 0
      <4>1. PICK order \in Orders(map, new.isolated) :
               todo' = SaveWrites(map, dir.config, new, order) /\ after' = "truncate"
        BY <1>4, <3>2 DEF StartEngine
      <4> HIDE DEF map
      <4> QED
        BY <1>0, <1>4, <2>1, <2>2, <4>1, Begun
    <3> QED
      BY <3>1, <3>2
  <2> HIDE DEF map
  <2>5. PastSeen' /\ past' \in [Seconds -> Maps \cup {NoCollection}]
    BY <1>0, <1>1, <2>1, <2>2, NowSeen
  <2>6. TypeOK'
    BY <1>0, <1>1, <1>4, <2>1, <2>2, <2>3, <2>4, <2>5 DEF TypeOK
  <2>7. ClockInv'
    BY <1>0, <1>1, <2>3, KeepsClock DEF DirInv
  <2>8. ProgramInv'
    BY <1>0, <1>1, <1>4, <2>1, <2>2, <2>4, DataDirectoryAssumption DEF ProgramInv
  <2>9. Recovered(dir, log)' = map /\ Loaded(dir)' = Loaded(dir)
    <3>1. Recovered(dir, log') = map
      BY <1>0, <1>4, <2>2, <2>3, RecoveredType
    <3> QED
      BY <1>1, <3>1, NextFiles
  <2>10. LogInv'
    <3>1. "encoding" \notin lapses' => \A i \in 1..Len(log'.entries) : log'.entries[i].z = log'.magic
      <4>1. log.entries = <<>> => Len(log'.entries) = 0
        BY <2>3
      <4> QED
        BY <1>1, <2>3, <4>1 DEF DirInv, LogInv
    <3>2. \A id \in Ids : points'[id] = Replay(Loaded(dir), ReadEntries(log))'[id]
      BY <2>1, <2>2, <2>3, <2>9 DEF Replay
    <3> QED
      BY <1>1, <2>4, <3>1, <3>2, DataDirectoryAssumption DEF LogInv
  <2>11. GivesBack'
    BY <1>0, <1>1, <1>4, <2>1, <2>2, <2>9 DEF GivesBack, Promised
  <2>12. SavedInv' /\ PastSaved'
    BY <2>4, DataDirectoryAssumption DEF SavedInv, PastSaved
  <2>13. PastKept'
    <3> SUFFICES ASSUME lapses = {}
                 PROVE  PastKept'
      BY <1>1 DEF PastKept
    <3>1. /\ \A t \in RestorePoints(dir, log) : t >= dir.stamp /\ t # 0 => RecoveredTo(dir, log, t) = past[t]
          /\ RecoveredTo(dir, log, now) = map
      BY <1>0, <1>4 DEF DirInv, PastKept, map
    <3>2. \A t \in RestorePoints(dir, log) : t \in Nat /\ t <= now /\ (t # 0 => t \in Seconds)
      BY <1>0, PointsOfTime DEF DirInv
    <3>3. \A t \in RestorePoints(dir, log) : t >= dir.stamp /\ t # 0 => RecoveredTo(dir, log, t) = past'[t]
      BY <1>0, <2>1, <3>1, <3>2 DEF Seen
    <3>4. /\ \A t : RecoveredTo(dir, log, t)' = RecoveredTo(dir, log, t)
          /\ RecoveredTo(dir, log, now)' = RecoveredTo(dir, log, now)
          /\ RestorePoints(dir, log)' = RestorePoints(dir, log)
      <4>1. \A t : RecoveredTo(dir, log', t) = RecoveredTo(dir, log, t)
        BY <2>3, RecoveredToSame
      <4>2. RestorePoints(dir, log') = RestorePoints(dir, log)
        BY <2>3 DEF RestorePoints
      <4> QED
        BY <1>1, <4>1, <4>2, NextFiles
    <3> QED
      BY <1>1, <2>9, <3>1, <3>3, <3>4 DEF PastKept
  <2> QED
    BY <1>2, <2>4, <2>5, <2>6, <2>7, <2>8, <2>10, <2>11, <2>12, <2>13 DEF DirInv
<1> QED
  BY <1>3, <1>4

-----------------------------------------------------------------------------
(* Writes of the engine *)

(* One more entry, readable when no entry is of the other encoding.        *)
LEMMA Appended ==
    ASSUME NEW l \in Logs, NEW id \in Ids, NEW val \in PointOrNone, NEW time \in Nat,
           NEW compress \in BOOLEAN, NEW e, e = [ts |-> time, id |-> id, val |-> val, z |-> compress],
           NEW k, k = AppendTo(l, id, val, time, compress)
    PROVE  /\ e \in LogEntry /\ k \in Logs
           /\ k.entries = Append(l.entries, e) /\ k.magic = l.magic
           /\ \A i \in 1..Len(k.entries) :
                 k.entries[i] = e \/ (i \in 1..Len(l.entries) /\ k.entries[i] = l.entries[i])
           /\ compress = l.magic /\ (\A i \in 1..Len(l.entries) : l.entries[i].z = l.magic) =>
                 /\ \A i \in 1..Len(k.entries) : k.entries[i].z = k.magic
                 /\ ReadEntries(k) = Append(ReadEntries(l), e)
<1>1. e \in LogEntry
  BY DEF LogEntry
<1>2. l.entries \in Seq(LogEntry) /\ Len(l.entries) \in Nat /\ l.magic \in BOOLEAN
  BY DEF Logs
<1>3. k.entries = Append(l.entries, e) /\ k.magic = l.magic /\ k = [magic |-> k.magic, entries |-> k.entries]
  BY DEF AppendTo, Logs
<1>4. k.entries \in Seq(LogEntry) /\ Len(k.entries) = Len(l.entries) + 1
  BY <1>1, <1>2, <1>3
<1>5. k \in Logs
  BY <1>2, <1>3, <1>4 DEF Logs
<1>6. \A i \in 1..Len(k.entries) :
         k.entries[i] = e \/ (i \in 1..Len(l.entries) /\ k.entries[i] = l.entries[i])
  BY <1>1, <1>2, <1>3, <1>4
<1>7. ASSUME compress = l.magic, \A i \in 1..Len(l.entries) : l.entries[i].z = l.magic
      PROVE  /\ \A i \in 1..Len(k.entries) : k.entries[i].z = k.magic
             /\ ReadEntries(k) = Append(ReadEntries(l), e)
  <2>1. \A i \in 1..Len(k.entries) : k.entries[i].z = k.magic
    BY <1>3, <1>6, <1>7
  <2> QED
    BY <1>3, <1>5, <1>7, <2>1, ReadAll
<1> QED
  BY <1>1, <1>3, <1>5, <1>6, <1>7

LEMMA OneMore ==
    ASSUME NEW base \in Maps, NEW id \in Ids, NEW val \in PointOrNone
    PROVE  /\ Replay(base, <<[id |-> id, val |-> val]>>) \in Maps
           /\ \A x \in Ids : Replay(base, <<[id |-> id, val |-> val]>>)[x] =
                 IF x = id /\ val \notin Refused THEN val ELSE base[x]
<1>1. PICK map : map = Replay(base, <<[id |-> id, val |-> val]>>)
  OBVIOUS
<1>2. map = [x \in Ids |-> IF x = id /\ val \notin Refused THEN val ELSE base[x]]
  BY <1>1, ReplayOne
<1>3. \A x \in Ids : (IF x = id /\ val \notin Refused THEN val ELSE base[x]) \in PointOrNone
  BY DataFacts
<1>4. map \in Maps
  BY <1>2, <1>3 DEF Maps
<1>5. ASSUME NEW x \in Ids
      PROVE  map[x] = IF x = id /\ val \notin Refused THEN val ELSE base[x]
  BY <1>2, SMT
<1> QED
  BY <1>1, <1>4, <1>5

LEMMA EngineWriteKeeps ==
    ASSUME DirInv, NEW id \in Ids, NEW val \in PointOrNone, EngineWrite(id, val)
    PROVE  DirInv'
<1> DEFINE map == Replay(points, <<[id |-> id, val |-> val]>>)
           e == [ts |-> now, id |-> id, val |-> val, z |-> options.compress]
<1>0. /\ TypeOK /\ now \in Nat /\ now >= 1 /\ now \in Seconds /\ log \in Logs /\ dir \in Directories
      /\ dir.stamp \in Nat /\ dir.stamp <= now /\ retention \in Days /\ options \in Switches
      /\ program = "engine" /\ points \in Maps /\ points # NoCollection /\ todo = <<>> /\ after = Idle
      /\ dir.config # NoFile /\ kept = points /\ options.compress \in BOOLEAN
      /\ lapses \subseteq Spared \cup {"half", "second"}
  <2>1. /\ program = "engine" /\ points # NoCollection /\ todo = <<>> /\ after = Idle
    BY DEF EngineWrite, Saving
  <2>2. dir.config # NoFile /\ kept = points
    BY <2>1, DataDirectoryAssumption DEF DirInv, ProgramInv
  <2>3. TypeOK /\ dir.stamp <= now /\ lapses \subseteq Spared \cup {"half", "second"}
    BY DEF DirInv, ClockInv, TypeOK
  <2> QED
    BY <2>1, <2>2, <2>3, Typed
<1>1. /\ UNCHANGED <<now, dir, program, options, retention, restore, load, failures>>
      /\ points' = map /\ kept' = map /\ Seen(map)
      /\ log' = AppendTo(log, id, val, now, options.compress)
      /\ lapses' = (IF SnapshotDue(val) THEN SavingLapses ELSE lapses)
                   \cup (IF now = dir.stamp THEN {"second"} ELSE {})
                   \cup (IF options.compress # log.magic THEN {"encoding"} ELSE {})
  BY DEF EngineWrite
<1>2. /\ map \in Maps /\ map # NoCollection
      /\ \A x \in Ids : map[x] = IF x = id /\ val \notin Refused THEN val ELSE points[x]
  BY <1>0, OneMore, DataFacts
<1>3. /\ todo' \in Seq(Writes) /\ SaveInv' /\ (todo' # <<>> => ~Stamped')
      /\ \/ todo' = <<>> /\ after' = Idle
         \/ todo' # <<>> /\ after' = "truncate"
  <2>1. CASE SnapshotDue(val)
    <3>1. PICK order \in Orders(map, options.isolated) :
             todo' = SaveWrites(map, retention, options, order) /\ after' = "truncate"
      BY <2>1, Orderings DEF EngineWrite
    <3> HIDE DEF map
    <3> QED
      BY <1>0, <1>1, <1>2, <3>1, Begun
  <2>2. CASE ~SnapshotDue(val)
    <3>1. UNCHANGED <<todo, after>>
      BY <2>2 DEF EngineWrite, saving
    <3>2. SaveInv'
      BY <1>0, <3>1, KeepsSave DEF DirInv
    <3> QED
      BY <1>0, <3>1, <3>2 DEF TypeOK
  <2> QED
    BY <2>1, <2>2
<1>4. /\ lapses \subseteq lapses' /\ lapses' \subseteq Spared \cup {"half", "second"}
      /\ "mixed" \in lapses' => "mixed" \in lapses
      /\ "second" \notin lapses' => now # dir.stamp
      /\ "encoding" \notin lapses' => options.compress = log.magic
  <2>1. SavingLapses = lapses
    BY <1>0 DEF SavingLapses
  <2> QED
    BY <1>0, <1>1, <2>1 DEF Spared
<1>5. /\ e \in LogEntry /\ log' \in Logs
      /\ \A i \in 1..Len(log'.entries) :
            log'.entries[i] = e \/ (i \in 1..Len(log.entries) /\ log'.entries[i] = log.entries[i])
      /\ options.compress = log.magic /\ (\A i \in 1..Len(log.entries) : log.entries[i].z = log.magic) =>
            /\ \A i \in 1..Len(log'.entries) : log'.entries[i].z = log'.magic
            /\ ReadEntries(log') = Append(ReadEntries(log), e)
  BY <1>0, <1>1, Appended
<1>6. ASSUME "encoding" \notin lapses'
      PROVE  /\ \A i \in 1..Len(log'.entries) : log'.entries[i].z = log'.magic
             /\ ReadEntries(log') = Append(ReadEntries(log), e)
  <2>1. options.compress = log.magic /\ \A i \in 1..Len(log.entries) : log.entries[i].z = log.magic
    BY <1>4, <1>6 DEF DirInv, LogInv
  <2> QED
    BY <1>5, <2>1
<1>7. e.id = id /\ e.val = val /\ e.ts = now
  OBVIOUS
<1> HIDE DEF map, e
<1>8. PastSeen' /\ past' \in [Seconds -> Maps \cup {NoCollection}]
  BY <1>0, <1>1, <1>2, NowSeen
<1>9. TypeOK'
  BY <1>0, <1>1, <1>2, <1>3, <1>4, <1>5, <1>8 DEF TypeOK
<1>10. ClockInv'
  <2>1. ClockInv /\ now' \in Nat /\ now' >= now /\ dir'.stamp = dir.stamp
    BY <1>0, <1>1 DEF DirInv
  <2>2. \A i \in 1..Len(log'.entries) :
           log'.entries[i].ts = now \/ \E j \in 1..Len(log.entries) : log'.entries[i].ts = log.entries[j].ts
    BY <1>5, <1>7
  <2> QED
    BY <1>0, <2>1, <2>2, KeepsClock
<1>11. ProgramInv'
  BY <1>0, <1>1, <1>2, <1>3, DataDirectoryAssumption DEF DirInv, ProgramInv
<1>12. FilesInv'
  BY <1>0, <1>1, <1>4, KeepsFiles DEF DirInv
<1>13. ReadEntries(log) \in Seq(LogEntry) /\ Loaded(dir) \in Maps
  BY <1>0, ReadType, LoadedType
<1>14. ASSUME "encoding" \notin lapses', NEW x \in Ids
       PROVE  Replay(Loaded(dir), ReadEntries(log'))[x] =
                 IF x = id /\ val \notin Refused THEN val ELSE Replay(Loaded(dir), ReadEntries(log))[x]
  <2>1. ReadEntries(log') = Append(ReadEntries(log), e)
    BY <1>6, <1>14
  <2>2. Replay(Loaded(dir), Append(ReadEntries(log), e))[x] =
           IF e.id = x /\ e.val \notin Refused THEN e.val ELSE Replay(Loaded(dir), ReadEntries(log))[x]
    BY <1>5, <1>13, ReplayAppended
  <2> QED
    BY <1>7, <2>1, <2>2
<1>15. LogInv'
  <2>1. ASSUME "mixed" \notin lapses', "encoding" \notin lapses', NEW x \in Ids, Decides(x)'
        PROVE  points'[x] = Replay(Loaded(dir), ReadEntries(log))'[x]
    <3>1. Replay(Loaded(dir), ReadEntries(log))' = Replay(Loaded(dir), ReadEntries(log'))
      BY <1>1, NextFiles DEF Replay
    <3>2. CASE x = id /\ val \notin Refused
      BY <1>1, <1>2, <1>14, <2>1, <3>1, <3>2
    <3>3. CASE ~(x = id /\ val \notin Refused)
      <4>1. Decides(x)
        <5>1. Hits(ReadEntries(log'), Len(ReadEntries(log')), x) # {}
          BY <2>1, NextFiles DEF Decides
        <5>2. ReadEntries(log') = Append(ReadEntries(log), e)
          BY <1>6, <2>1
        <5>3. Hits(Append(ReadEntries(log), e), Len(Append(ReadEntries(log), e)), x) =
                 Hits(ReadEntries(log), Len(ReadEntries(log)), x)
                 \cup (IF e.id = x /\ e.val \notin Refused THEN {Len(ReadEntries(log)) + 1} ELSE {})
          BY <1>5, <1>13, HitsAppended
        <5> QED
          BY <1>7, <3>3, <5>1, <5>2, <5>3 DEF Decides
      <4>2. points[x] = Replay(Loaded(dir), ReadEntries(log))[x]
        BY <1>0, <1>4, <2>1, <4>1 DEF DirInv, LogInv
      <4> QED
        BY <1>1, <1>2, <1>14, <2>1, <3>1, <3>3, <4>2
    <3> QED
      BY <3>2, <3>3
  <2>2. (todo # <<>> /\ after # "truncate" => FALSE)'
    BY <1>3
  <2> QED
    BY <1>6, <2>1, <2>2 DEF LogInv
<1>16. ASSUME lapses' \cap Spared = {}, NEW x \in Ids
       PROVE  Recovered(dir, log)[x] = points[x] /\ Recovered(dir, log')[x] = map[x]
  <2>1. lapses \cap Spared = {} /\ after # "restored" /\ "encoding" \notin lapses'
    BY <1>0, <1>4, <1>16, DataDirectoryAssumption DEF Spared
  <2>2. Recovered(dir, log)[x] = Promised[x] /\ Promised = points
    BY <1>0, <2>1 DEF DirInv, GivesBack, Promised
  <2>3. /\ Recovered(dir, log) = Replay(Loaded(dir), ReadEntries(log))
        /\ Recovered(dir, log') = Replay(Loaded(dir), ReadEntries(log'))
    BY <1>0, <1>5, RecoveredType
  <2> QED
    BY <1>2, <1>14, <2>1, <2>2, <2>3
<1>17. GivesBack'
  <2>1. (dir.config = NoFile)' <=> FALSE
    BY <1>0, <1>1
  <2>2. Promised' = map
    BY <1>1, <1>2 DEF Promised
  <2>3. Recovered(dir, log)' = Recovered(dir, log')
    BY <1>1, NextFiles
  <2> QED
    BY <1>16, <2>1, <2>2, <2>3 DEF GivesBack
<1>18. SavedInv' /\ PastSaved'
  BY <1>3, DataDirectoryAssumption DEF SavedInv, PastSaved
<1>19. PastKept'
  <2> SUFFICES ASSUME lapses' = {}
               PROVE  /\ \A t \in RestorePoints(dir, log') :
                            t >= dir.stamp /\ t # 0 => RecoveredTo(dir, log', t) = past'[t]
                      /\ RecoveredTo(dir, log', now) = Recovered(dir, log')
    BY <1>1, NextFiles DEF PastKept
  <2>1. /\ lapses = {} /\ "encoding" \notin lapses' /\ now # dir.stamp /\ lapses' \cap Spared = {}
        /\ \A t \in RestorePoints(dir, log) : t >= dir.stamp /\ t # 0 => RecoveredTo(dir, log, t) = past[t]
        /\ RecoveredTo(dir, log, now) = Recovered(dir, log)
    BY <1>0, <1>4 DEF DirInv, PastKept
  <2>2. RestorePoints(dir, log') = RestorePoints(dir, log) \cup {now}
    BY <1>5, <1>6, <1>7, <1>13, <2>1 DEF RestorePoints
  <2>3. ASSUME NEW t, NEW x \in Ids
        PROVE  RecoveredTo(dir, log', t)[x] = IF x = id /\ val \notin Refused /\ Needed(dir, e, t)
                                              THEN val ELSE RecoveredTo(dir, log, t)[x]
    BY <1>0, <1>5, <1>6, <1>7, <2>1, RecoveredToAppended
  <2>4. \A t : RecoveredTo(dir, log', t) \in Maps /\ RecoveredTo(dir, log, t) \in Maps
    BY <1>0, <1>5, RecoveredToType
  <2>5. RecoveredTo(dir, log', now) = map
    <3>1. Needed(dir, e, now)
      BY <1>0, <1>7, <2>1 DEF Needed
    <3>2. \A x \in Ids : RecoveredTo(dir, log', now)[x] = map[x]
      BY <1>2, <1>16, <2>1, <2>3, <3>1
    <3> QED
      BY <1>2, <2>4, <3>2, MapsEqual
  <2>6. Recovered(dir, log') = map
    <3>1. Recovered(dir, log') \in Maps
      BY <1>0, <1>5, RecoveredType
    <3> QED
      BY <1>2, <1>16, <2>1, <3>1, MapsEqual
  <2>7. ASSUME NEW t \in RestorePoints(dir, log), t >= dir.stamp, t # 0, t # now
        PROVE  RecoveredTo(dir, log', t) = past'[t]
    <3>1. t \in Nat /\ t < now /\ t \in Seconds
      <4>1. t \in Nat /\ t <= now /\ (t # 0 => t \in Seconds)
        BY <1>0, PointsOfTime DEF DirInv
      <4> QED
        BY <1>0, <2>7, <4>1
    <3>2. ~Needed(dir, e, t)
      BY <1>0, <1>7, <3>1 DEF Needed
    <3>3. \A x \in Ids : RecoveredTo(dir, log', t)[x] = RecoveredTo(dir, log, t)[x]
      BY <2>3, <3>2
    <3>4. RecoveredTo(dir, log', t) = RecoveredTo(dir, log, t)
      BY <2>4, <3>3, MapsEqual
    <3>5. past'[t] = past[t]
      BY <1>0, <1>1, <3>1 DEF Seen
    <3> QED
      BY <2>1, <2>7, <3>4, <3>5
  <2>8. past'[now] = map
    BY <1>0, <1>1 DEF Seen
  <2> QED
    BY <2>2, <2>5, <2>6, <2>7, <2>8
<1> QED
  BY <1>3, <1>8, <1>9, <1>10, <1>11, <1>12, <1>15, <1>17, <1>18, <1>19 DEF DirInv

-----------------------------------------------------------------------------
(* Every step, and the first state *)

LEMMA DirSteps ==
    ASSUME DirInv, DirNext
    PROVE  DirInv'
<1>0. /\ TypeOK /\ now \in Nat /\ now \in Seconds /\ log \in Logs /\ dir \in Directories /\ failures \in Nat
      /\ now <= load.seconds /\ options.compress \in BOOLEAN
  BY Typed DEF DirInv, TypeOK
<1>1. CASE Tick
  <2>1. now' \in Seconds /\ now' <= load.seconds /\ now' >= now
    <3>1. load.seconds \in 1..LastSecond
      BY <1>0, DataDirectoryAssumption DEF TypeOK
    <3> QED
      BY <1>0, <1>1, <3>1, DataDirectoryAssumption DEF Tick, Seconds
  <2> QED
    BY <1>0, <1>1, <2>1, StillKeeps DEF Tick, files, saving, ghosts, bounds
<1>2. CASE WriteFile
  BY <1>2, WriteKeeps
<1>3. CASE WriteFails
  BY <1>0, <1>3, CutKeeps DEF WriteFails, files
<1>4. CASE Stop
  BY <1>0, <1>4, CutKeeps DEF Stop, files, bounds
<1>5. CASE \E new \in load.options : StartEngine(new) \/ StartServer(new)
  BY <1>5, StartEngineKeeps, StartServerKeeps
<1>6. CASE \E days \in Retentions : PatchRetention(days)
  <2>1. PICK days \in Retentions : PatchRetention(days)
    BY <1>6
  <2> QED
    BY <2>1, BeginKeeps DEF PatchRetention, Serving, files, Days
<1>7. CASE \E id \in Ids, val \in PointOrNone : EngineWrite(id, val)
  BY <1>7, EngineWriteKeeps
<1>8. CASE \E id \in Ids, val \in Vals : GrpcUpsert(id, val) \/ StreamUpsert(id, val) \/ McpUpsert(id, val)
  <2>1. PICK id \in Ids, val \in Vals : GrpcUpsert(id, val) \/ StreamUpsert(id, val) \/ McpUpsert(id, val)
    BY <1>8
  <2>2. PICK x \in Ids : points # NoCollection /\ Changed(Replay(points, <<[id |-> x, val |-> val]>>))
    BY <2>1 DEF GrpcUpsert, StreamUpsert, McpUpsert
  <2>3. points \in Maps /\ val \in PointOrNone
    BY <1>0, <2>2, Typed DEF PointOrNone
  <2>4. Replay(points, <<[id |-> x, val |-> val]>>) \in Maps
    BY <2>3, OneMore
  <2> QED
    BY <2>2, <2>4, ChangeKeeps
<1>9. CASE \E id \in Ids : GrpcDelete(id)
  <2>1. PICK id \in Ids : points # NoCollection /\ Changed([points EXCEPT ![id] = None])
    BY <1>9 DEF GrpcDelete
  <2>2. [points EXCEPT ![id] = None] \in Maps
    BY <1>0, <2>1, Typed, DataFacts DEF Maps
  <2> QED
    BY <2>1, <2>2, ChangeKeeps
<1>10. CASE EngineCreate
  BY <1>10, CreateKeeps DEF EngineCreate
<1>11. CASE Truncate
  BY <1>11, TruncateKeeps
<1>12. CASE Save
  <2>1. retention \in Days
    BY <1>0, Typed
  <2> QED
    BY <1>12, <2>1, BeginKeeps DEF Save, Serving, files, bounds
<1>13. CASE GrpcCreate
  BY <1>13, CreateKeeps DEF GrpcCreate, ServerCall, files
<1>14. CASE GrpcDeleteCollection
  BY <1>14, DropKeeps
<1>15. CASE RetentionCycle
  BY <1>15, RetentionKeeps
<1>16. CASE \E target \in 0..now : RestoreToTimestamp(target)
  <2>1. PICK target \in 0..now : RestoreRead(target)
    BY <1>16 DEF RestoreToTimestamp
  <2>2. RecoveredTo(dir, log, target) \in Maps /\ dir.config \in Days
    BY <1>0, <2>1, RecoveredToType DEF RestoreRead, Loads, Directories
  <2> QED
    BY <1>0, <2>1, <2>2, StillKeeps DEF RestoreRead, Serving, files, saving, ghosts
<1>17. CASE RestoreSwap
  BY <1>17, SwapKeeps
<1>18. CASE RestoreAborts
  BY <1>0, <1>18, StillKeeps DEF RestoreAborts, files, saving, ghosts, bounds
<1>19. CASE RestoreTruncates
  BY <1>19, RestoreTruncatesKeeps
<1> QED
  BY <1>1, <1>2, <1>3, <1>4, <1>5, <1>6, <1>7, <1>8, <1>9, <1>10, <1>11, <1>12, <1>13, <1>14,
     <1>15, <1>16, <1>17, <1>18, <1>19 DEF DirNext

LEMMA DirStill ==
    ASSUME DirInv, UNCHANGED dirVars
    PROVE  DirInv'
<1>1. TypeOK /\ now \in Nat /\ now \in Seconds /\ failures \in Nat /\ now <= load.seconds
  BY Typed DEF DirInv, TypeOK
<1> QED
  BY <1>1, StillKeeps DEF dirVars, files, saving, ghosts, bounds

LEMMA Started ==
    ASSUME DirInit
    PROVE  DirInv
<1> DEFINE first == [NoDirectory EXCEPT !.config = NoLimit, !.at[Root].jsonl = EmptyMap,
                                        !.at[Root].sum = <<"jsonl", EmptyMap>>]
<1>1. /\ now = 1 /\ log = NoLog /\ load \in Workloads /\ options \in load.options
      /\ dir = NoDirectory \/ dir = first
      /\ program = "none" /\ points = NoCollection /\ retention = NoLimit
      /\ todo = <<>> /\ after = Idle /\ restore = <<>>
      /\ kept = Recovered(dir, log) /\ past = [t \in Seconds |-> kept] /\ lapses = {} /\ failures = 0
  BY DEF DirInit
<1>2. /\ now \in Seconds /\ now <= load.seconds /\ NoLimit \in Days
      /\ options \in Switches
  BY <1>1, DataDirectoryAssumption DEF Seconds, Days, Switches
<1>3. /\ log \in Logs /\ log.entries = <<>> /\ ReadEntries(log) = <<>>
      /\ Len(log.entries) = 0 /\ Len(ReadEntries(log)) = 0
  BY <1>1, NoLogFacts
<1>4. /\ dir \in Directories /\ dir.stamp = 0
      /\ \A p \in Places : p # Root => dir.at[p] = NoFiles
      /\ \A p \in Places : Intact(dir.at[p]) /\ dir.at[p].bin = NoFile
      /\ \A f \in Formats : dir.at[Root][f] \in {NoFile, EmptyMap}
      /\ dir.config = NoFile => dir = NoDirectory
  <2>1. CASE dir = NoDirectory
    BY <2>1, EmptyDirectory, EmptyFiles, PlaceFacts DEF NoFiles
  <2>2. CASE dir = first
    <3>1. /\ NoDirectory \in Directories /\ NoDirectory.config = NoFile /\ NoDirectory.stamp = 0
          /\ \A p \in Places : NoDirectory.at[p] = NoFiles
          /\ Root \in Places /\ EmptyMap \in Maps /\ NoLimit # NoFile
      BY <1>2, EmptyDirectory, PlaceFacts, DataFacts
    <3>2. /\ dir = [config |-> NoLimit, stamp |-> 0, at |-> dir.at]
          /\ dir.at = [NoDirectory.at EXCEPT ![Root] =
                          [bin |-> NoFile, jsonl |-> EmptyMap, sum |-> <<"jsonl", EmptyMap>>]]
      <4>1. /\ NoDirectory = [config |-> NoFile, stamp |-> 0, at |-> NoDirectory.at]
            /\ NoDirectory.at = [p \in Places |-> NoFiles]
        BY DEF NoDirectory
      <4>0. PICK zero : zero = [NoDirectory EXCEPT !.config = NoLimit]
        OBVIOUS
      <4>2. PICK one : one = [zero EXCEPT !.at[Root].jsonl = EmptyMap]
        OBVIOUS
      <4>9. zero = [config |-> NoLimit, stamp |-> 0, at |-> zero.at] /\ zero.at = NoDirectory.at
        BY <4>0, <4>1
      <4>3. /\ one = [config |-> NoLimit, stamp |-> 0, at |-> one.at]
            /\ one.at = [NoDirectory.at EXCEPT ![Root] = [NoDirectory.at[Root] EXCEPT !.jsonl = EmptyMap]]
        BY <4>2, <4>9
      <4>4. [NoDirectory.at[Root] EXCEPT !.jsonl = EmptyMap] = [bin |-> NoFile, jsonl |-> EmptyMap, sum |-> NoFile]
        BY <3>1, <4>1 DEF NoFiles
      <4>5. one.at[Root] = [bin |-> NoFile, jsonl |-> EmptyMap, sum |-> NoFile]
        BY <3>1, <4>1, <4>3, <4>4
      <4>6. dir = [one EXCEPT !.at[Root].sum = <<"jsonl", EmptyMap>>]
        BY <2>2, <4>0, <4>2
      <4>7. /\ dir = [config |-> NoLimit, stamp |-> 0, at |-> dir.at]
            /\ dir.at = [one.at EXCEPT ![Root] = [one.at[Root] EXCEPT !.sum = <<"jsonl", EmptyMap>>]]
        BY <4>3, <4>6
      <4>8. [one.at[Root] EXCEPT !.sum = <<"jsonl", EmptyMap>>]
               = [bin |-> NoFile, jsonl |-> EmptyMap, sum |-> <<"jsonl", EmptyMap>>]
        BY <4>5
      <4> QED
        BY <4>1, <4>3, <4>7, <4>8
    <3>3. [bin |-> NoFile, jsonl |-> EmptyMap, sum |-> <<"jsonl", EmptyMap>>] \in PointFiles
      BY <3>1 DEF PointFiles, Formats
    <3>4. dir.at \in [Places -> PointFiles]
      BY <3>1, <3>2, <3>3 DEF Directories
    <3>5. dir \in Directories
      BY <1>2, <3>2, <3>4 DEF Directories
    <3>6. /\ dir.at[Root] = [bin |-> NoFile, jsonl |-> EmptyMap, sum |-> <<"jsonl", EmptyMap>>]
          /\ \A p \in Places : p # Root => dir.at[p] = NoFiles
      BY <3>1, <3>2 DEF Directories
    <3>7. Intact(dir.at[Root]) /\ dir.at[Root].bin = NoFile
      BY <3>6 DEF Intact, Chosen, Format
    <3>8. Intact(NoFiles) /\ NoFiles.bin = NoFile
      BY EmptyFiles DEF NoFiles
    <3>9. \A f \in Formats : dir.at[Root][f] \in {NoFile, EmptyMap}
      BY <3>6 DEF Formats
    <3> QED
      BY <3>1, <3>2, <3>5, <3>6, <3>7, <3>8, <3>9
  <2> QED
    BY <1>1, <2>1, <2>2
<1>5. /\ kept \in Maps \cup {NoCollection} /\ (dir.config = NoFile => kept = NoCollection)
      /\ dir.config # NoFile => kept \in Maps
      /\ dir.config # NoFile => Recovered(dir, log) = Loaded(dir)
      /\ \A t : RecoveredTo(dir, log, t) = Loaded(dir)
      /\ RestorePoints(dir, log) = {0}
  <2>1. kept \in Maps \cup {NoCollection} /\ (dir.config = NoFile => kept = NoCollection)
    BY <1>1, <1>3, <1>4, RecoveredType DEF Recovered
  <2>2. dir.config # NoFile => kept \in Maps /\ Recovered(dir, log) = Loaded(dir)
    BY <1>1, <1>3, <1>4, RecoveredType, LoadedType, ReplayEmpty DEF Recovered
  <2>3. \A t : RecoveredTo(dir, log, t) = Loaded(dir)
    BY <1>3, <1>4, NoneNeeded
  <2>4. RestorePoints(dir, log) = {0}
    BY <1>3, <1>4 DEF RestorePoints
  <2> QED
    BY <2>1, <2>2, <2>3, <2>4
<1> HIDE DEF first
<1>6. TypeOK
  <2>1. past \in [Seconds -> Maps \cup {NoCollection}]
    BY <1>1, <1>5
  <2> QED
    BY <1>1, <1>2, <1>3, <1>4, <1>5, <2>1 DEF TypeOK
<1>7. ClockInv
  BY <1>1, <1>3, <1>4 DEF ClockInv
<1>8. ProgramInv
  BY <1>1, DataDirectoryAssumption DEF ProgramInv
<1>9. SaveInv /\ SavedInv /\ PastSeen /\ PastSaved
  BY <1>1, DataDirectoryAssumption DEF SaveInv, SavedInv, PastSeen, PastSaved
<1>10. FilesInv
  <2>1. /\ \A p \in Namespaces : dir.at[p] = NoFiles
        /\ \A p \in Namespaces, f \in Formats : dir.at[p][f] = NoFile
    BY <1>4, PlaceFacts, EmptyFiles
  <2>2. EmptyMap # NoFile /\ \A id \in Ids : EmptyMap[id] = None
    BY DataFacts
  <2> QED
    BY <1>4, <2>1, <2>2 DEF FilesInv
<1>11. LogInv
  BY <1>1, <1>3 DEF LogInv
<1>12. GivesBack
  BY <1>1, <1>5, DataFacts DEF GivesBack, Promised
<1>13. PastKept
  BY <1>5 DEF PastKept
<1> QED
  BY <1>6, <1>7, <1>8, <1>9, <1>10, <1>11, <1>12, <1>13 DEF DirInv

LEMMA DirInvariant ==
    ASSUME DirInv, [Next]_vars
    PROVE  DirInv'
<1>1. CASE BackupToS3
  <2>1. TypeOK /\ retention \in Days
    BY Typed DEF DirInv
  <2> QED
    BY <1>1, <2>1, BeginKeeps DEF BackupToS3, ServerCall, Serving, files
<1>2. CASE ListFiles \/ FinishTar \/ TarFails \/ \E entry \in FileKinds \X Places : AddToTar(entry)
  <2>1. UNCHANGED dirVars
    <3>1. (\E entry \in FileKinds \X Places : AddToTar(entry)) => UNCHANGED dirVars
      BY Zenon DEF AddToTar
    <3>2. ListFiles \/ FinishTar \/ TarFails => UNCHANGED dirVars
      BY Zenon DEF ListFiles, FinishTar, TarFails
    <3> QED
      BY <1>2, <3>1, <3>2
  <2> QED
    BY <2>1, DirStill
<1>3. CASE DirNext
  BY <1>3, DirSteps
<1>4. CASE ReplicateCollection \/ ApplyWalEntry \/ UNCHANGED vars
  BY <1>4, DirStill DEF ReplicateCollection, ApplyWalEntry, vars
<1>5. CASE \E id \in Ids, val \in PointOrNone : GrpcWriteToReplica(id, val)
  <2>1. TypeOK /\ now \in Nat /\ now \in Seconds /\ failures \in Nat /\ now <= load.seconds
    BY Typed DEF DirInv, TypeOK
  <2>2. UNCHANGED <<now, files, program, options, points, retention, saving, restore, ghosts, load, failures>>
    BY <1>5 DEF GrpcWriteToReplica
  <2> QED
    BY <2>1, <2>2, StillKeeps DEF files, saving, ghosts
<1> QED
  BY <1>1, <1>2, <1>3, <1>4, <1>5 DEF Next, BackupNext, FileKinds

(* The invariant holds of every directory that the programs can leave.     *)
THEOREM DirectoryInvariant == Spec => []DirInv
<1>1. Init => DirInv
  BY Started DEF Init
<1>2. DirInv /\ [Next]_vars => DirInv'
  BY DirInvariant
<1> QED
  BY <1>1, <1>2, PTL DEF Spec

(* Whatever is started on the directory after a kill, at any step, finds   *)
(* what it must give back: lib.rs, storage.rs and wal.rs of core with the  *)
(* handlers of the server (Recoverable).                                   *)
THEOREM DirectoryIsRecoverable == Spec => []Recoverable
<1>1. ASSUME DirInv PROVE Recoverable
  <2> SUFFICES ASSUME lapses \cap Spared = {}, ~BetweenFileAndSum, after # "restored"
               PROVE  IF dir.config = NoFile THEN kept = NoCollection
                      ELSE /\ Loads(dir)
                           /\ \A id \in Ids :
                                 \/ Recovered(dir, log)[id] = Promised[id]
                                 \/ todo # <<>> /\ Recovered(dir, log)[id] = points[id]
    BY DEF Recoverable, Promised
  <2>1. "torn" \notin lapses /\ "emptied" \notin lapses
    BY DEF Spared
  <2>2. \A p \in Places : Intact(dir.at[p])
    BY <1>1, <2>1 DEF DirInv, FilesInv
  <2> QED
    BY <1>1, <2>2 DEF DirInv, GivesBack, Loads
<1> QED
  BY <1>1, DirectoryInvariant, PTL

(* Of a restore to each restore point that is offered comes what clients   *)
(* saw then (recover_collection_to_timestamp, list_restore_points).        *)
THEOREM RestorePointsRestore == Spec => []RestoresPast
<1>1. ASSUME DirInv PROVE RestoresPast
  BY <1>1 DEF DirInv, PastKept, RestoresPast, GetRestorePoints
<1> QED
  BY <1>1, DirectoryInvariant, PTL

-----------------------------------------------------------------------------
(* Backups: what the files hold, and what a copy of them does *)

LEMMA Here ==
    ASSUME TypeOK, FilesInv, NEW id \in Ids
    PROVE  Loaded(dir)[id] = PointsIn(dir.at[PlaceOf(id)])[id]
<1>1. dir \in Directories /\ options \in Switches
  BY Typed
<1>2. /\ ~options.isolated => \A p \in Namespaces : dir.at[p] = NoFiles
      /\ options.isolated => \A x \in Ids, f \in Formats :
            x[1] # Root /\ dir.at[Root][f] # NoFile => dir.at[Root][f][x] = None
  BY DEF FilesInv
<1>3. Loaded(dir)[id] = PointsIn(dir.at[IF options.isolated THEN id[1] ELSE Root])[id]
  BY <1>1, <1>2, LoadedHere
<1> QED
  BY <1>3 DEF PlaceOf

LEMMA HeldPoints ==
    ASSUME NEW held \in PointFiles, NEW b \in BOOLEAN, ~b => held.bin = NoFile
    PROVE  /\ held[Format(b)] # NoFile => PointsIn(held) = held[Format(b)]
           /\ held[Format(b)] = NoFile /\ (b => held.jsonl = NoFile) => PointsIn(held) = EmptyMap
           /\ PointsIn(held) = EmptyMap /\ (\A f \in Formats : held[f] # EmptyMap) =>
                 held.bin = NoFile /\ held.jsonl = NoFile
<1>1. held[Format(b)] # NoFile => PointsIn(held) = held[Format(b)]
  BY DEF PointsIn, Chosen, Format
<1>2. held[Format(b)] = NoFile /\ (b => held.jsonl = NoFile) => PointsIn(held) = EmptyMap
  BY DEF PointsIn, Chosen, Format
<1>3. PointsIn(held) = EmptyMap /\ (\A f \in Formats : held[f] # EmptyMap) =>
         held.bin = NoFile /\ held.jsonl = NoFile
  BY DEF PointsIn, Chosen, Format, Formats
<1> QED
  BY <1>1, <1>2, <1>3

LEMMA ArchiveFacts ==
    ASSUME ArchiveOK
    PROVE  /\ archive \in Archives /\ archive.copy \in Directories
           /\ \A p \in Places : archive.copy.at[p] \in PointFiles
           /\ archive.stage \in {"none", "save", "saved", "read", "done"}
           /\ archive.listed \subseteq FileKinds \X Places /\ archive.read \subseteq FileKinds \X Places
           /\ \A id \in Ids : archive.values[id] \subseteq PointOrNone
<1>1. archive.copy \in Directories
  BY DEF ArchiveOK, Archives
<1>2. \A p \in Places : archive.copy.at[p] \in PointFiles
  BY <1>1, LoadedType
<1> QED
  BY <1>1, <1>2 DEF ArchiveOK, Archives

(* A step of a server that goes on.                                        *)
LEMMA ServerSteps ==
    ASSUME DirInv, DirNext, program = "server", program' # "none"
    PROVE  /\ program' = "server" /\ options' = options
           /\ \/ WriteFile
              \/ /\ dir' = dir /\ ("emptied" \in lapses => "emptied" \in lapses')
                 /\ points' = NoCollection \/ points # NoCollection \/ points' = EmptyMap
                 /\ todo # <<>> /\ todo' = <<>> => failures' # failures
                 /\ todo = <<>> /\ "torn" \notin lapses => "torn" \notin lapses'
              \/ dir' = NoDirectory /\ points' = NoCollection /\ todo = <<>> /\ "torn" \notin lapses'
<1>0. /\ failures \in Nat /\ lapses \subseteq Spared \cup {"half", "second"}
      /\ after # "truncate"
  BY DEF DirInv, TypeOK, ProgramInv
<1>1. lapses \subseteq SavingLapses /\ SavingLapses \subseteq lapses \cup {"mixed"}
  BY <1>0, SavingLapsesFacts
<1>2. CASE WriteFile
  BY <1>2 DEF WriteFile
<1>3. CASE Tick \/ RestoreAborts \/ \E target \in 0..now : RestoreToTimestamp(target)
  BY <1>3 DEF Tick, RestoreAborts, RestoreToTimestamp, RestoreRead, files, saving, ghosts
<1>4. CASE WriteFails
  BY <1>0, <1>4 DEF WriteFails, CutLapses, files
<1>5. CASE Stop \/ (\E new \in load.options : StartEngine(new) \/ StartServer(new))
  BY <1>5 DEF Stop, StartEngine, StartServer, MayStart
<1>6. CASE EngineCreate \/ Truncate \/ \E id \in Ids, val \in PointOrNone : EngineWrite(id, val)
  BY <1>0, <1>6 DEF EngineCreate, Truncate, EngineWrite
<1>7. CASE (\E days \in Retentions : PatchRetention(days)) \/ Save \/ GrpcCreate \/ RestoreSwap
  <2>1. /\ program' = program /\ options' = options /\ dir' = dir /\ todo = <<>> /\ lapses' = SavingLapses
        /\ points # NoCollection \/ points' = EmptyMap
    BY <1>7 DEF PatchRetention, Save, GrpcCreate, RestoreSwap, Saving, Serving, files
  <2> QED
    BY <1>1, <2>1
<1>8. CASE \/ \E id \in Ids, val \in Vals : GrpcUpsert(id, val) \/ StreamUpsert(id, val) \/ McpUpsert(id, val)
           \/ \E id \in Ids : GrpcDelete(id)
  <2>1. \E map : Changed(map)
    BY <1>8 DEF GrpcUpsert, StreamUpsert, McpUpsert, GrpcDelete
  <2>2. /\ program' = program /\ options' = options /\ dir' = dir /\ todo = <<>>
        /\ points # NoCollection /\ lapses \subseteq lapses' /\ lapses' \subseteq lapses \cup {"second"}
    BY <2>1 DEF Changed, Serving, files
  <2> QED
    BY <2>2
<1>9. CASE GrpcDeleteCollection
  BY <1>9 DEF GrpcDeleteCollection
<1>10. CASE RetentionCycle
  BY <1>10 DEF RetentionCycle, Serving, saving
<1>11. CASE RestoreTruncates
  BY <1>11 DEF RestoreTruncates
<1> QED
  BY <1>2, <1>3, <1>4, <1>5, <1>6, <1>7, <1>8, <1>9, <1>10, <1>11 DEF DirNext

(* What it makes of a backup at work.                                      *)
GoesOn ==
    /\ archive.stage \in {"save", "saved", "read"} /\ program' # "none" /\ program = "server"
    /\ archive.stage = "save" => failures' = failures
    /\ archive'.stage = IF archive.stage = "save" /\ todo' = <<>> THEN "saved" ELSE archive.stage
    /\ archive'.listed = archive.listed /\ archive'.read = archive.read
    /\ archive'.copy = archive.copy
    /\ archive'.calm <=> archive.calm /\ todo' = <<>>
    /\ archive'.stale <=> archive.stale \/ "emptied" \in lapses'
    /\ \A id \in Ids : archive'.values[id] =
          archive.values[id] \cup (IF points' = NoCollection THEN {} ELSE {points'[id]})
    /\ archive' = [stage |-> archive'.stage, listed |-> archive.listed, read |-> archive.read,
                   copy |-> archive.copy, calm |-> archive'.calm, stale |-> archive'.stale,
                   values |-> archive'.values]
    /\ archive'.calm \in BOOLEAN /\ archive'.stale \in BOOLEAN
    /\ archive'.values = [id \in Ids |-> archive'.values[id]]

LEMMA MeanwhileWhat ==
    ASSUME ArchiveOK, archive' = Meanwhile(archive)
    PROVE  \/ archive.stage \in {"none", "done"} /\ archive' = archive
           \/ archive' = NoArchive
           \/ GoesOn
<1>0. archive \in Archives /\ (archive.stage \notin {"none", "done"} => program = "server")
  BY DEF ArchiveOK
<1>1. CASE archive.stage \in {"none", "done"}
  BY <1>1 DEF Meanwhile
<1>2. CASE archive.stage \notin {"none", "done"} /\ (program' = "none" \/ (archive.stage = "save" /\ failures' # failures))
  BY <1>2 DEF Meanwhile
<1>3. CASE archive.stage \notin {"none", "done"} /\ ~(program' = "none" \/ (archive.stage = "save" /\ failures' # failures))
  <2>1. archive' = [archive EXCEPT !.stage = IF @ = "save" /\ todo' = <<>> THEN "saved" ELSE @,
                      !.calm = @ /\ todo' = <<>>,
                      !.stale = @ \/ "emptied" \in lapses',
                      !.values = [id \in Ids |-> @[id] \cup (IF points' = NoCollection THEN {} ELSE {points'[id]})]]
    BY <1>3 DEF Meanwhile
  <2>2. archive' = [stage |-> IF archive.stage = "save" /\ todo' = <<>> THEN "saved" ELSE archive.stage,
                    listed |-> archive.listed, read |-> archive.read, copy |-> archive.copy,
                    calm |-> archive.calm /\ todo' = <<>>,
                    stale |-> archive.stale \/ "emptied" \in lapses',
                    values |-> [id \in Ids |-> archive.values[id]
                                   \cup (IF points' = NoCollection THEN {} ELSE {points'[id]})]]
    BY <1>0, <2>1 DEF Archives
  <2>3. /\ archive.stage \in {"save", "saved", "read"} /\ program' # "none" /\ program = "server"
        /\ archive.stage = "save" => failures' = failures
    BY <1>0, <1>3 DEF Archives
  <2>4. /\ archive'.stage = IF archive.stage = "save" /\ todo' = <<>> THEN "saved" ELSE archive.stage
        /\ archive'.listed = archive.listed /\ archive'.read = archive.read
        /\ archive'.copy = archive.copy
    BY <2>2
  <2>5. archive'.calm = (archive.calm /\ todo' = <<>>) /\ archive'.stale = (archive.stale \/ "emptied" \in lapses')
    BY <2>2
  <2>6. archive'.values = [id \in Ids |-> archive.values[id]
                              \cup (IF points' = NoCollection THEN {} ELSE {points'[id]})]
    BY <2>2
  <2>7. /\ archive'.calm <=> archive.calm /\ todo' = <<>>
        /\ archive'.stale <=> archive.stale \/ "emptied" \in lapses'
        /\ archive'.calm \in BOOLEAN /\ archive'.stale \in BOOLEAN
    BY <2>5
  <2>8. /\ \A id \in Ids : archive'.values[id] =
              archive.values[id] \cup (IF points' = NoCollection THEN {} ELSE {points'[id]})
        /\ archive'.values = [id \in Ids |-> archive'.values[id]]
    BY <2>6
  <2>9. archive' = [stage |-> archive'.stage, listed |-> archive.listed, read |-> archive.read,
                    copy |-> archive.copy, calm |-> archive'.calm, stale |-> archive'.stale,
                    values |-> archive'.values]
    BY <2>2, <2>4, <2>5, <2>6
  <2> QED
    BY <2>3, <2>4, <2>7, <2>8, <2>9 DEF GoesOn
<1> QED
  BY <1>1, <1>2, <1>3

LEMMA SameOptions ==
    ASSUME options' = options
    PROVE  Own' = Own /\ \A id \in Ids : PlaceOf(id)' = PlaceOf(id)
BY DEF Own, PlaceOf

LEMMA NextCopy ==
    /\ (Loads(archive.copy)' <=> Loads(archive'.copy)) /\ Loaded(archive.copy)' = Loaded(archive'.copy)
    /\ EntriesOf(dir)' = EntriesOf(dir')
BY DEF Loads, Loaded, Intact, Chosen, PointsIn, EntriesOf

LEMMA EndOfSave ==
    ASSUME TypeOK, ProgramInv, SaveInv, FilesInv, WriteFile, todo' = <<>>, "emptied" \notin lapses',
           NEW p \in Places, dir'.at[p][Own] = NoFile
    PROVE  dir'.at[p].bin = NoFile /\ dir'.at[p].jsonl = NoFile
<1>1. /\ options' = options /\ points' = points /\ lapses' = SavedLapses(dir')
      /\ options.binary \in BOOLEAN /\ options.isolated \in BOOLEAN
      /\ points \in Maps /\ dir' \in Directories /\ dir'.at[p] \in PointFiles
  <2>1. todo # <<>>
    BY DEF WriteFile
  <2>2. points \in Maps
    BY <2>1 DEF ProgramInv, TypeOK
  <2> QED
    BY <2>2, Typed, WritePut DEF WriteFile
<1>2. ~Holds(p)
  <2>1. Holds(p) => Fresh(p)'
    <3>1. ~Ahead(p)'
      BY DEF Ahead
    <3> QED
      BY <3>1, WriteKeepsSave
  <2>2. Part(p)' \in Maps /\ Own' = Own
    BY <1>1, PartFacts, SameOptions DEF Part
  <2> QED
    BY <2>1, <2>2, DataFacts DEF Fresh
<1>3. p \in Namespaces
  BY <1>2, PlaceFacts DEF Holds
<1>4. FilesInv'
  BY WriteKeepsFiles
<1>5. CASE ~options.isolated
  BY <1>1, <1>3, <1>4, <1>5 DEF FilesInv, NoFiles
<1>6. CASE options.isolated
  <2>1. PartOf(points, p, TRUE) = EmptyMap
    BY <1>2, <1>6 DEF Holds, Part
  <2>2. PointsIn(dir'.at[p]) = EmptyMap
    <3>1. ~(options.isolated /\ \E n \in Namespaces : PartOf(points, n, TRUE) = EmptyMap
                                                     /\ PointsIn(dir'.at[n]) # EmptyMap)
      BY <1>1 DEF SavedLapses
    <3> QED
      BY <1>3, <1>6, <2>1, <3>1
  <2>3. (~options.binary => dir'.at[p].bin = NoFile) /\ \A f \in Formats : dir'.at[p][f] # EmptyMap
    BY <1>1, <1>3, <1>4 DEF FilesInv
  <2> QED
    BY <1>1, <2>2, <2>3, HeldPoints
<1> QED
  BY <1>5, <1>6

LEMMA ValuesKept ==
    ASSUME DirInv, DirInv', ArchiveOK, ValuesInv, DirNext, GoesOn
    PROVE  ValuesInv'
<1>0. /\ program' = "server" /\ options' = options /\ TypeOK /\ ProgramInv /\ SaveInv /\ FilesInv
      /\ Own' = Own
      /\ archive.stage = "save" => todo # <<>>
      /\ \A id \in Ids : archive.values[id] \subseteq archive'.values[id]
      /\ \A id \in Ids : points' # NoCollection => points'[id] \in archive'.values[id]
      /\ Archived' => Archived \/ (archive.stage = "save" /\ todo' = <<>>)
  <2>1. program' = "server" /\ options' = options
    BY ServerSteps DEF GoesOn
  <2> QED
    BY <2>1, SameOptions DEF GoesOn, DirInv, ArchiveOK, Archived
<1>1. \/ WriteFile
      \/ /\ dir' = dir /\ ("emptied" \in lapses => "emptied" \in lapses')
         /\ points' = NoCollection \/ points # NoCollection \/ points' = EmptyMap
         /\ Archived' => Archived
      \/ dir' = NoDirectory /\ points' = NoCollection
  BY <1>0, ServerSteps DEF GoesOn
<1>2. WriteFile => /\ dir'.config # NoFile /\ points # NoCollection /\ points' = points
                   /\ \A id \in Ids : points[id] \in archive'.values[id]
  BY <1>0, WriteKeepsSave DEF WriteFile, ProgramInv
<1>3. ASSUME Archived', points' # NoCollection, dir'.config = NoFile, NEW id \in Ids
      PROVE  None \in archive'.values[id]
  <2>1. dir' = dir /\ Archived /\ (points # NoCollection \/ points' = EmptyMap)
    BY <1>1, <1>2, <1>3
  <2>2. CASE points' = EmptyMap
    BY <1>0, <1>3, <2>2, DataFacts
  <2>3. CASE points # NoCollection
    BY <1>0, <1>3, <2>1, <2>3 DEF ValuesInv
  <2> QED
    BY <2>1, <2>2, <2>3
<1>4. ASSUME Archived', dir'.config # NoFile, "emptied" \notin lapses'
      PROVE  /\ \A p \in Places : dir'.at[p][Own] = NoFile => dir'.at[p].bin = NoFile /\ dir'.at[p].jsonl = NoFile
             /\ \A id \in Ids : Loaded(dir')[id] \in archive'.values[id]
  <2>1. CASE WriteFile /\ todo' = <<>>
    <3>1. Loaded(dir') = points
      BY <1>0, <1>4, <2>1, Saved
    <3> QED
      BY <1>0, <1>2, <1>4, <2>1, <3>1, EndOfSave
  <2>2. CASE WriteFile /\ todo' # <<>>
    <3>1. Archived /\ "emptied" \notin lapses
      BY <1>0, <1>4, <2>2, LapsesOfSaved
    <3>2. /\ Head(todo) \in Writes
          /\ Head(todo).file \in Formats => Head(todo).file = Own /\ Head(todo).data \in Maps
      <4>1. 1 \in 1..Len(todo) /\ Head(todo) = todo[1]
        BY <1>0, <2>2, TailFacts DEF WriteFile
      <4> QED
        BY <1>0, <2>2, <4>1, DueWrite, WriteType
    <3>3. /\ Head(todo).file \in {"config", "stamp"} => dir'.at = dir.at
          /\ \A p \in Places, f \in Formats \cup {"sum"} :
                dir'.at[p][f] = IF Head(todo).place = p /\ Head(todo).file = f THEN Head(todo).data
                                ELSE dir.at[p][f]
      BY <1>0, <2>2, WritePut
    <3>4. CASE dir.config # NoFile
      <4>1. ASSUME NEW p \in Places, dir'.at[p][Own] = NoFile
            PROVE  dir'.at[p].bin = NoFile /\ dir'.at[p].jsonl = NoFile
        <5>1. Own \in Formats
          BY <1>0, Typed
        <5>2. ~(Head(todo).place = p /\ Head(todo).file \in Formats)
          BY <3>2, <3>3, <4>1, <5>1, DataFacts
        <5>3. \A f \in Formats : dir'.at[p][f] = dir.at[p][f]
          BY <3>3, <5>2
        <5>4. dir.at[p].bin = NoFile /\ dir.at[p].jsonl = NoFile
          BY <3>1, <3>4, <4>1, <5>1, <5>3 DEF ValuesInv
        <5> QED
          BY <5>3, <5>4 DEF Formats
      <4>2. ASSUME NEW id \in Ids
            PROVE  Loaded(dir')[id] \in archive'.values[id]
        <5>1. Loaded(dir)[id] \in archive.values[id]
          BY <3>1, <3>4 DEF ValuesInv
        <5> QED
          BY <1>0, <1>2, <2>2, <5>1, Written
      <4> QED
        BY <4>1, <4>2
    <3>5. CASE dir.config = NoFile
      <4>1. dir = NoDirectory /\ Head(todo).file = "config"
        BY <1>0, <2>2, <3>5, WriteKeepsSave DEF FilesInv
      <4>2. \A p \in Places : dir'.at[p] = NoFiles
        BY <3>3, <4>1, EmptyDirectory
      <4>3. ASSUME NEW id \in Ids
            PROVE  Loaded(dir')[id] \in archive'.values[id]
        <5>1. Loaded(dir)[id] = None
          <6>1. id[1] \in Places /\ Root \in Places
            BY PlaceFacts
          <6> QED
            BY <4>1, <6>1, EmptyDirectory, EmptyFiles, DataFacts DEF Loaded
        <5>2. None \in archive.values[id]
          BY <1>2, <2>2, <3>1, <3>5 DEF ValuesInv
        <5> QED
          BY <1>0, <1>2, <2>2, <5>1, <5>2, Written
      <4> QED
        BY <4>2, <4>3 DEF NoFiles
    <3> QED
      BY <3>4, <3>5
  <2>3. CASE ~WriteFile
    <3>1. dir' = dir /\ "emptied" \notin lapses /\ Archived
      BY <1>1, <1>4, <2>3, EmptyDirectory
    <3> QED
      BY <1>0, <1>4, <3>1 DEF ValuesInv
  <2> QED
    BY <2>1, <2>2, <2>3
<1> QED
  BY <1>0, <1>3, <1>4, NextFiles DEF ValuesInv

LEMMA CopyKept ==
    ASSUME DirInv, DirInv', ArchiveOK, ValuesInv, CopyInv, DirNext, GoesOn
    PROVE  CopyInv'
<1> SUFFICES ASSUME archive'.stage = "read", ~archive'.stale
             PROVE  CopyInv'
  BY DEF CopyInv
<1>0. /\ program' = "server" /\ options' = options /\ TypeOK /\ ProgramInv /\ SaveInv /\ FilesInv
      /\ Own' = Own
      /\ \A id \in Ids : PlaceOf(id)' = PlaceOf(id)
      /\ \A id \in Ids : archive.values[id] \subseteq archive'.values[id]
      /\ archive.stage = "read" /\ ~archive.stale /\ "emptied" \notin lapses'
      /\ archive'.listed = archive.listed /\ archive'.read = archive.read /\ archive'.copy = archive.copy
  <2>1. program' = "server" /\ options' = options
    BY ServerSteps DEF GoesOn
  <2> QED
    BY <2>1, SameOptions DEF GoesOn, DirInv
<1>1. WriteFile \/ dir' = dir \/ dir' = NoDirectory
  BY ServerSteps DEF GoesOn
<1>2. ASSUME NEW p \in Places, options.binary, dir'.at[p].jsonl # NoFile
      PROVE  dir.at[p].jsonl # NoFile
  <2>1. CASE WriteFile
    <3>1. 1 \in 1..Len(todo) /\ Head(todo) = todo[1]
      BY <1>0, <2>1, TailFacts DEF WriteFile
    <3>2. Head(todo).file # "jsonl"
      BY <1>0, <1>2, <3>1, DueWrite DEF Own, Format, Formats
    <3>3. dir'.at[p]["jsonl"] = dir.at[p]["jsonl"]
      BY <1>0, <2>1, <3>2, WritePut DEF Formats
    <3> QED
      BY <1>2, <3>3
  <2>2. CASE dir' = NoDirectory
    BY <1>2, <2>2, EmptyDirectory DEF NoFiles
  <2> QED
    BY <1>1, <1>2, <2>1, <2>2
<1>3. ASSUME dir'.config # NoFile, dir.config = NoFile, NEW id \in Ids
      PROVE  None \in archive.values[id]
  <2>1. points # NoCollection
    BY <1>0, <1>1, <1>3, EmptyDirectory DEF WriteFile, ProgramInv
  <2> QED
    BY <1>0, <1>3, <2>1 DEF ValuesInv, Archived
<1>4. ASSUME dir'.config # NoFile \/ archive.copy.config # NoFile, NEW id \in Ids,
             <<Own, PlaceOf(id)>> \notin archive.listed
      PROVE  None \in archive'.values[id]
  BY <1>0, <1>3, <1>4 DEF CopyInv
<1>5. ASSUME NEW id \in Ids, <<Own, PlaceOf(id)>> \in archive.read
      PROVE  /\ archive.copy.at[PlaceOf(id)][Own] # NoFile
             /\ archive.copy.at[PlaceOf(id)][Own][id] \in archive'.values[id]
  BY <1>0, <1>5 DEF CopyInv
<1>6. /\ archive.copy.config # NoFile => <<"config", Root>> \in archive.read
      /\ \A p \in Places, f \in Formats \cup {"sum"} :
            archive.copy.at[p][f] # NoFile => <<f, p>> \in archive.read
      /\ \A p \in Places : options.binary /\ (dir'.at[p].jsonl # NoFile \/ <<"jsonl", p>> \in archive.read) =>
            <<"bin", p>> \in archive.listed
      /\ ~options.binary => \A p \in Places : archive.copy.at[p].bin = NoFile
      /\ ~options.isolated => \A p \in Namespaces, f \in Formats : archive.copy.at[p][f] = NoFile
      /\ options.isolated => \A id \in Ids, f \in Formats :
            id[1] # Root /\ archive.copy.at[Root][f] # NoFile => archive.copy.at[Root][f][id] = None
  BY <1>0, <1>2 DEF CopyInv
<1> QED
  BY <1>0, <1>4, <1>5, <1>6 DEF CopyInv

LEMMA CalmKept ==
    ASSUME DirInv, ArchiveOK, CalmInv, DirNext, GoesOn
    PROVE  CalmInv'
<1> SUFFICES ASSUME archive'.stage = "read", archive'.calm, ~archive'.stale
             PROVE  CalmInv'
  BY DEF CalmInv
<1>0. /\ archive.stage = "read" /\ archive.calm /\ ~archive.stale /\ todo' = <<>>
      /\ archive'.listed = archive.listed /\ archive'.read = archive.read /\ archive'.copy = archive.copy
      /\ todo = <<>> /\ "torn" \notin lapses
  BY DEF GoesOn, CalmInv
<1>1. /\ dir' = dir \/ dir'.config = NoFile
      /\ "torn" \notin lapses'
  <2>1. ~WriteFile
    BY <1>0 DEF WriteFile
  <2> QED
    BY <1>0, <2>1, ServerSteps, EmptyDirectory DEF GoesOn
<1>2. (Loads(archive.copy)' <=> Loads(archive.copy)) /\ EntriesOf(dir)' = EntriesOf(dir')
  BY <1>0, NextCopy
<1>3. archive.listed \subseteq archive.read /\ archive.listed # {} => Loads(archive.copy)
  BY <1>0 DEF CalmInv
<1>4. ASSUME dir' = dir, dir.config # NoFile
      PROVE  /\ archive.read \subseteq archive.listed /\ archive.listed = EntriesOf(dir')
             /\ <<"config", Root>> \in archive.read => archive.copy.config = dir'.config
             /\ \A p \in Places, f \in Formats \cup {"sum"} :
                   <<f, p>> \in archive.read => archive.copy.at[p][f] = dir'.at[p][f]
  BY <1>0, <1>4 DEF CalmInv
<1> QED
  BY <1>0, <1>1, <1>2, <1>3, <1>4 DEF CalmInv

LEMMA NothingArchived ==
    /\ archive = NoArchive => ArchiveInv
    /\ archive' = NoArchive => ArchiveInv'
<1>1. /\ NoArchive \in Archives /\ NoArchive.stage = "none" /\ NoArchive.read = {} /\ NoArchive.copy = NoDirectory
  BY EmptyDirectory DEF NoArchive, Archives
<1>2. archive = NoArchive => ArchiveInv
  BY <1>1 DEF ArchiveInv, ArchiveOK, ValuesInv, CopyInv, CalmInv, BackupRestores, Archived
<1>3. archive' = NoArchive => ArchiveInv'
  BY <1>1 DEF ArchiveInv, ArchiveOK, ValuesInv, CopyInv, CalmInv, BackupRestores, Archived
<1> QED
  BY <1>2, <1>3

LEMMA MeanwhileKeeps ==
    ASSUME DirInv, DirInv', ArchiveInv, DirNext, archive' = Meanwhile(archive)
    PROVE  ArchiveInv'
<1>1. ArchiveOK /\ ValuesInv /\ CopyInv /\ CalmInv /\ BackupRestores
  BY DEF ArchiveInv
<1>2. CASE archive.stage \in {"none", "done"} /\ archive' = archive
  <2>1. ArchiveOK' /\ ValuesInv' /\ CopyInv' /\ CalmInv'
    BY <1>1, <1>2 DEF ArchiveOK, ValuesInv, CopyInv, CalmInv, Archived
  <2>2. BackupRestores'
    BY <1>1, <1>2, NextCopy DEF BackupRestores
  <2> QED
    BY <2>1, <2>2 DEF ArchiveInv
<1>3. CASE archive' = NoArchive
  BY <1>3, NothingArchived
<1>4. CASE GoesOn
  <2>1. archive' \in Archives
    <3>1. archive' = [stage |-> archive'.stage, listed |-> archive.listed, read |-> archive.read,
                      copy |-> archive.copy, calm |-> archive'.calm, stale |-> archive'.stale,
                      values |-> archive'.values]
      BY <1>4 DEF GoesOn
    <3>2. /\ archive'.stage \in {"save", "saved", "read"} /\ archive'.calm \in BOOLEAN /\ archive'.stale \in BOOLEAN
          /\ archive.listed \subseteq FileKinds \X Places /\ archive.read \subseteq FileKinds \X Places
          /\ archive.copy \in Directories
      BY <1>1, <1>4, ArchiveFacts DEF GoesOn
    <3>3. archive'.values \in [Ids -> SUBSET PointOrNone]
      <4>1. ASSUME NEW id \in Ids PROVE archive'.values[id] \subseteq PointOrNone
        <5>1. archive.values[id] \subseteq PointOrNone
          BY <1>1, ArchiveFacts
        <5>2. points' # NoCollection => points'[id] \in PointOrNone
          BY DataFacts DEF DirInv, TypeOK
        <5> QED
          BY <1>4, <5>1, <5>2 DEF GoesOn
      <4> QED
        BY <1>4, <4>1 DEF GoesOn
    <3> QED
      BY <3>1, <3>2, <3>3 DEF Archives
  <2>2. ArchiveOK'
    <3>1. program' = "server"
      BY <1>4, ServerSteps DEF GoesOn
    <3> QED
      BY <1>1, <1>4, <2>1, <3>1 DEF ArchiveOK, GoesOn
  <2>3. BackupRestores'
    BY <1>4 DEF BackupRestores, GoesOn
  <2> QED
    BY <1>1, <1>4, <2>2, <2>3, ValuesKept, CopyKept, CalmKept DEF ArchiveInv
<1> QED
  BY <1>1, <1>2, <1>3, <1>4, MeanwhileWhat

-----------------------------------------------------------------------------
(* The steps of a backup *)

LEMMA EntryFacts ==
    ASSUME dir \in Directories
    PROVE  /\ EntriesOf(dir) \subseteq FileKinds \X Places
           /\ \A p \in Places, f \in Formats \cup {"sum"} : <<f, p>> \in EntriesOf(dir) <=> dir.at[p][f] # NoFile
           /\ <<"config", Root>> \in EntriesOf(dir) <=> dir.config # NoFile
           /\ \A p \in Places : \A f \in {"config", "stamp"} : <<f, p>> \in EntriesOf(dir) => p = Root
           /\ dir = NoDirectory => EntriesOf(dir) = {}
<1> DEFINE above == {<<file, Root>> : file \in {f \in {"config", "stamp"} : dir[f] # NoDirectory[f]}}
           below == {entry \in {"bin", "jsonl", "sum"} \X Places : dir.at[entry[2]][entry[1]] # NoFile}
<1>1. EntriesOf(dir) = above \cup below
  BY DEF EntriesOf
<1>2. Root \in Places
  BY PlaceFacts
<1>3. above \subseteq FileKinds \X Places /\ below \subseteq FileKinds \X Places
  BY <1>2 DEF FileKinds
<1>4. ASSUME NEW p \in Places, NEW f \in Formats \cup {"sum"}
      PROVE  /\ <<f, p>> \notin above
             /\ <<f, p>> \in below <=> dir.at[p][f] # NoFile
  BY DEF Formats
<1>5. ASSUME NEW p \in Places, NEW f \in {"config", "stamp"}
      PROVE  /\ <<f, p>> \in above => p = Root
             /\ <<f, p>> \notin below
  OBVIOUS
<1>6. <<"config", Root>> \in above <=> dir.config # NoFile
  BY DEF NoDirectory
<1>7. ASSUME dir = NoDirectory PROVE above = {} /\ below = {}
  <2>1. above = {}
    BY <1>7
  <2>2. below = {}
    BY <1>7, EmptyDirectory, EmptyFiles DEF Formats
  <2> QED
    BY <2>1, <2>2
<1> HIDE DEF above, below
<1> QED
  BY <1>1, <1>2, <1>3, <1>4, <1>5, <1>6, <1>7

LEMMA CopiedWhat ==
    ASSUME TypeOK, NEW c \in Directories, NEW entry \in FileKinds \X Places, NEW d, d = Copied(c, entry)
    PROVE  /\ d \in Directories
           /\ d.config = IF entry[1] = "config" THEN dir.config ELSE c.config
           /\ \A p \in Places, f \in Formats \cup {"sum"} :
                 d.at[p][f] = IF entry = <<f, p>> THEN dir.at[p][f] ELSE c.at[p][f]
<1>0. /\ dir \in Directories /\ entry[1] \in FileKinds /\ entry[2] \in Places /\ entry = <<entry[1], entry[2]>>
  BY Typed
<1>1. CASE entry[1] = "config"
  <2>1. d = [c EXCEPT !.config = dir.config]
    BY <1>1 DEF Copied
  <2> QED
    BY <1>0, <1>1, <2>1 DEF Directories, Formats
<1>2. CASE entry[1] = "stamp"
  <2>1. d = [c EXCEPT !.stamp = dir.stamp]
    BY <1>2 DEF Copied
  <2> QED
    BY <1>0, <1>2, <2>1 DEF Directories, Formats
<1>3. CASE entry[1] \in Formats \cup {"sum"}
  <2>1. d = [c EXCEPT !.at[entry[2]][entry[1]] = dir.at[entry[2]][entry[1]]]
    <3>1. entry[1] # "config" /\ entry[1] # "stamp"
      BY <1>3 DEF Formats
    <3> QED
      BY <3>1 DEF Copied
  <2>2. c.at \in [Places -> PointFiles] /\ dir.at[entry[2]] \in PointFiles
    BY <1>0 DEF Directories
  <2>3. [c.at[entry[2]] EXCEPT ![entry[1]] = dir.at[entry[2]][entry[1]]] \in PointFiles
    BY <1>0, <1>3, <2>2 DEF PointFiles, Formats
  <2>4. d.at = [c.at EXCEPT ![entry[2]] = [c.at[entry[2]] EXCEPT ![entry[1]] = dir.at[entry[2]][entry[1]]]]
    <3>1. c.at \in [Places -> PointFiles] /\ DOMAIN c = {"config", "stamp", "at"}
      BY DEF Directories
    <3> QED
      BY <2>1, <3>1
  <2>5. d.at \in [Places -> PointFiles]
    BY <2>2, <2>3, <2>4
  <2>6. d \in Directories /\ d.config = c.config
    BY <2>1, <2>5 DEF Directories
  <2>7. \A p \in Places : entry[2] # p => d.at[p] = c.at[p]
    BY <2>2, <2>4
  <2>8. d.at[entry[2]] = [c.at[entry[2]] EXCEPT ![entry[1]] = dir.at[entry[2]][entry[1]]]
    BY <1>0, <2>2, <2>4
  <2>9. \A f \in Formats \cup {"sum"} :
           d.at[entry[2]][f] = IF entry[1] = f THEN dir.at[entry[2]][f] ELSE c.at[entry[2]][f]
    BY <1>0, <2>2, <2>8 DEF PointFiles, Formats
  <2> QED
    BY <1>0, <1>3, <2>6, <2>7, <2>9 DEF Formats
<1> QED
  BY <1>0, <1>1, <1>2, <1>3 DEF FileKinds, Formats

(* What a step of the archive leaves alone.                                *)
LEMMA DirStays ==
    ASSUME UNCHANGED dirVars
    PROVE  /\ UNCHANGED <<dir, lapses, program, options, points, todo>> /\ Own' = Own
           /\ \A id \in Ids : PlaceOf(id)' = PlaceOf(id)
           /\ Loaded(dir)' = Loaded(dir) /\ EntriesOf(dir)' = EntriesOf(dir)
<1>1. UNCHANGED <<dir, lapses, program, options, points, todo>>
  BY DEF dirVars, files, saving, ghosts
<1> QED
  BY <1>1, SameOptions, NextFiles, NextCopy

LEMMA ListFilesKeeps ==
    ASSUME DirInv, ArchiveInv, ListFiles
    PROVE  ArchiveInv'
<1>0. /\ TypeOK /\ FilesInv /\ ArchiveOK /\ ValuesInv /\ archive \in Archives /\ archive.stage = "saved"
      /\ archive.read = {} /\ archive.copy = NoDirectory /\ dir \in Directories
      /\ program = "server" /\ options.binary \in BOOLEAN /\ Own \in Formats
      /\ UNCHANGED <<dir, lapses, program, options, points, todo>> /\ Own' = Own
      /\ \A id \in Ids : PlaceOf(id)' = PlaceOf(id)
      /\ Loaded(dir)' = Loaded(dir) /\ EntriesOf(dir)' = EntriesOf(dir)
  <2>1. UNCHANGED dirVars /\ archive.stage = "saved"
    BY DEF ListFiles
  <2> QED
    BY <2>1, DirStays, Typed DEF DirInv, ArchiveInv, ArchiveOK
<1>1. /\ EntriesOf(dir) \subseteq FileKinds \X Places
      /\ \A p \in Places, f \in Formats \cup {"sum"} : <<f, p>> \in EntriesOf(dir) <=> dir.at[p][f] # NoFile
  BY <1>0, EntryFacts
<1>2. /\ archive' \in Archives /\ archive'.stage = "read" /\ archive'.listed = EntriesOf(dir)
      /\ archive'.read = {} /\ archive'.copy = NoDirectory /\ archive'.values = archive.values
      /\ archive'.calm => todo = <<>> /\ "torn" \notin lapses
      /\ archive'.stale <=> "emptied" \in lapses
  <2>1. archive' = [archive EXCEPT !.stage = "read", !.listed = EntriesOf(dir),
                                !.calm = (todo = <<>> /\ "torn" \notin lapses),
                                !.stale = ("emptied" \in lapses)]
    BY DEF ListFiles
  <2>2. archive' = [stage |-> "read", listed |-> EntriesOf(dir), read |-> archive.read, copy |-> archive.copy,
                    calm |-> (todo = <<>> /\ "torn" \notin lapses), stale |-> ("emptied" \in lapses),
                    values |-> archive.values]
    BY <1>0, <2>1 DEF Archives
  <2>3. archive'.calm = (todo = <<>> /\ "torn" \notin lapses) /\ archive'.stale = ("emptied" \in lapses)
    BY <2>2
  <2>4. archive' \in Archives
    BY <1>0, <1>1, <2>2 DEF Archives
  <2> QED
    BY <1>0, <2>2, <2>3, <2>4
<1>3. ArchiveOK'
  BY <1>0, <1>2 DEF ArchiveOK
<1>4. ValuesInv'
  BY <1>0, <1>2 DEF ValuesInv, Archived
<1>5. ASSUME NEW p \in Places, "emptied" \notin lapses, dir.at[p][Own] = NoFile
      PROVE  dir.at[p].bin = NoFile /\ dir.at[p].jsonl = NoFile
  <2>1. CASE dir.config = NoFile
    BY <1>0, <2>1, EmptyDirectory DEF FilesInv, NoFiles
  <2>2. CASE dir.config # NoFile
    BY <1>0, <1>5, <2>2 DEF ValuesInv, Archived
  <2> QED
    BY <2>1, <2>2
<1>6. CopyInv'
  <2> SUFFICES ASSUME "emptied" \notin lapses
               PROVE  CopyInv'
    BY <1>0, <1>2 DEF CopyInv
  <2>1. /\ archive'.copy.config = NoFile
        /\ \A p \in Places, f \in Formats \cup {"sum"} : archive'.copy.at[p][f] = NoFile
        /\ \A p \in Places : archive'.copy.at[p].bin = NoFile
        /\ Namespaces \subseteq Places /\ Root \in Places
    BY <1>2, EmptyDirectory, EmptyFiles, PlaceFacts DEF NoFiles
  <2>2. ASSUME NEW p \in Places, options.binary, dir.at[p].jsonl # NoFile
        PROVE  <<"bin", p>> \in EntriesOf(dir)
    <3>1. Own = "bin" /\ "bin" \in Formats
      BY <2>2 DEF Own, Format, Formats
    <3> QED
      BY <1>1, <1>5, <2>2, <3>1
  <2>3. ASSUME dir.config # NoFile, NEW id \in Ids, <<Own, PlaceOf(id)>> \notin EntriesOf(dir)
        PROVE  None \in archive.values[id]
    <3>1. PlaceOf(id) \in Places /\ dir.at[PlaceOf(id)] \in PointFiles
      BY <1>0, PlaceOfFacts, LoadedType
    <3>2. dir.at[PlaceOf(id)][Own] = NoFile
      BY <1>0, <1>1, <2>3, <3>1
    <3>3. dir.at[PlaceOf(id)].bin = NoFile /\ dir.at[PlaceOf(id)].jsonl = NoFile
      BY <1>5, <3>1, <3>2
    <3>4. PointsIn(dir.at[PlaceOf(id)]) = EmptyMap
      BY <1>0, <3>1, <3>2, <3>3, HeldPoints DEF Own
    <3>5. Loaded(dir)[id] = None
      BY <1>0, <3>4, Here, DataFacts
    <3> QED
      BY <1>0, <2>3, <3>5 DEF ValuesInv, Archived
  <2> QED
    BY <1>0, <1>2, <2>1, <2>2, <2>3 DEF CopyInv
<1>7. CalmInv'
  BY <1>0, <1>2 DEF CalmInv
<1>8. BackupRestores'
  BY <1>2 DEF BackupRestores
<1> QED
  BY <1>3, <1>4, <1>6, <1>7, <1>8 DEF ArchiveInv

LEMMA AddToTarKeeps ==
    ASSUME DirInv, ArchiveInv, NEW entry \in FileKinds \X Places, AddToTar(entry)
    PROVE  ArchiveInv'
<1>0. /\ TypeOK /\ FilesInv /\ ArchiveOK /\ ValuesInv /\ CopyInv /\ CalmInv
      /\ archive \in Archives /\ archive.stage = "read"
      /\ dir \in Directories /\ archive.copy \in Directories /\ entry \in EntriesOf(dir)
      /\ program = "server" /\ options.binary \in BOOLEAN /\ options.isolated \in BOOLEAN /\ Own \in Formats
      /\ UNCHANGED <<dir, lapses, program, options, points, todo>> /\ Own' = Own
      /\ \A id \in Ids : PlaceOf(id)' = PlaceOf(id)
      /\ Loaded(dir)' = Loaded(dir) /\ EntriesOf(dir)' = EntriesOf(dir)
  <2>1. UNCHANGED dirVars /\ archive.stage = "read" /\ entry \in EntriesOf(dir)
    BY DEF AddToTar
  <2> QED
    BY <2>1, DirStays, Typed, ArchiveFacts DEF DirInv, ArchiveInv, ArchiveOK
<1>1. /\ \A p \in Places, f \in Formats \cup {"sum"} : <<f, p>> \in EntriesOf(dir) <=> dir.at[p][f] # NoFile
      /\ <<"config", Root>> \in EntriesOf(dir) <=> dir.config # NoFile
      /\ \A p \in Places : \A f \in {"config", "stamp"} : <<f, p>> \in EntriesOf(dir) => p = Root
      /\ dir # NoDirectory /\ dir.config # NoFile
  BY <1>0, EntryFacts DEF FilesInv
<1> DEFINE copy == Copied(archive.copy, entry)
<1>2. /\ copy \in Directories
      /\ copy.config = IF entry[1] = "config" THEN dir.config ELSE archive.copy.config
      /\ \A p \in Places, f \in Formats \cup {"sum"} :
            copy.at[p][f] = IF entry = <<f, p>> THEN dir.at[p][f] ELSE archive.copy.at[p][f]
  BY <1>0, CopiedWhat
<1>3. /\ archive' \in Archives /\ archive'.stage = "read" /\ archive'.listed = archive.listed
      /\ archive'.read = archive.read \cup {entry} /\ archive'.copy = copy
      /\ archive'.values = archive.values
      /\ archive'.calm <=> archive.calm
      /\ archive'.stale <=> archive.stale
  <2>1. archive' = [archive EXCEPT !.read = archive.read \cup {entry}, !.copy = copy]
    BY DEF AddToTar
  <2> HIDE DEF copy
  <2>2. archive' = [stage |-> archive.stage, listed |-> archive.listed, read |-> archive.read \cup {entry},
                    copy |-> copy, calm |-> archive.calm, stale |-> archive.stale, values |-> archive.values]
    BY <1>0, <2>1 DEF Archives
  <2>3. archive' \in Archives
    BY <1>0, <1>2, <2>2 DEF Archives
  <2>4. archive'.calm = archive.calm /\ archive'.stale = archive.stale
    BY <2>2
  <2> QED
    BY <1>0, <2>2, <2>3, <2>4
<1> HIDE DEF copy
<1>4. ArchiveOK'
  BY <1>0, <1>3 DEF ArchiveOK
<1>5. ValuesInv'
  BY <1>0, <1>3 DEF ValuesInv, Archived
<1>6. BackupRestores'
  BY <1>3 DEF BackupRestores
<1>7. ASSUME ~archive.stale
      PROVE  "emptied" \notin lapses
  BY <1>0, <1>7 DEF CopyInv
<1>8. (entry[1] = "config" => entry = <<"config", Root>>) /\ Namespaces \subseteq Places /\ Root \in Places
  <2>1. entry[2] \in Places /\ entry = <<entry[1], entry[2]>>
    OBVIOUS
  <2>2. \A p \in Places : <<"config", p>> \in EntriesOf(dir) => p = Root
    BY <1>1
  <2> QED
    BY <1>0, <2>1, <2>2, PlaceFacts
<1>9. CopyInv'
  <2> SUFFICES ASSUME ~archive.stale
               PROVE  CopyInv'
    BY <1>3 DEF CopyInv
  <2>1. copy.config # NoFile => <<"config", Root>> \in archive'.read
    BY <1>0, <1>2, <1>3, <1>8 DEF CopyInv
  <2>2. \A p \in Places, f \in Formats \cup {"sum"} : copy.at[p][f] # NoFile => <<f, p>> \in archive'.read
    BY <1>0, <1>2, <1>3 DEF CopyInv
  <2>3. ASSUME NEW id \in Ids, <<Own, PlaceOf(id)>> \in archive'.read
        PROVE  copy.at[PlaceOf(id)][Own] # NoFile /\ copy.at[PlaceOf(id)][Own][id] \in archive.values[id]
    <3>1. PlaceOf(id) \in Places /\ dir.at[PlaceOf(id)] \in PointFiles
      BY <1>0, PlaceOfFacts, LoadedType
    <3>2. CASE entry = <<Own, PlaceOf(id)>>
      <4>1. copy.at[PlaceOf(id)][Own] = dir.at[PlaceOf(id)][Own] /\ dir.at[PlaceOf(id)][Own] # NoFile
        BY <1>0, <1>1, <1>2, <3>1, <3>2
      <4>2. PointsIn(dir.at[PlaceOf(id)]) = dir.at[PlaceOf(id)][Own]
        BY <1>0, <3>1, <4>1, HeldPoints DEF Own, FilesInv
      <4>3. Loaded(dir)[id] = PointsIn(dir.at[PlaceOf(id)])[id]
        BY <1>0, Here
      <4>4. Loaded(dir)[id] \in archive.values[id]
        BY <1>0, <1>1, <1>7 DEF ValuesInv, Archived
      <4> QED
        BY <4>1, <4>2, <4>3, <4>4
    <3>3. CASE entry # <<Own, PlaceOf(id)>>
      <4>1. <<Own, PlaceOf(id)>> \in archive.read
        BY <1>3, <2>3, <3>3
      <4>2. copy.at[PlaceOf(id)][Own] = archive.copy.at[PlaceOf(id)][Own]
        BY <1>0, <1>2, <3>1, <3>3
      <4> QED
        BY <1>0, <4>1, <4>2 DEF CopyInv
    <3> QED
      BY <3>2, <3>3
  <2>4. ASSUME NEW p \in Places, options.binary, dir.at[p].jsonl # NoFile \/ <<"jsonl", p>> \in archive'.read
        PROVE  <<"bin", p>> \in archive.listed
    <3>1. <<"jsonl", p>> = entry => dir.at[p].jsonl # NoFile
      <4>1. <<"jsonl", p>> \in EntriesOf(dir) <=> dir.at[p]["jsonl"] # NoFile
        BY <1>1 DEF Formats
      <4> QED
        BY <1>0, <4>1
    <3> QED
      BY <1>0, <1>3, <2>4, <3>1 DEF CopyInv
  <2>5. ASSUME NEW id \in Ids, <<Own, PlaceOf(id)>> \notin archive.listed
        PROVE  None \in archive.values[id]
    BY <1>0, <1>1, <2>5 DEF CopyInv
  <2>6. ASSUME ~options.binary, NEW p \in Places
        PROVE  copy.at[p].bin = NoFile
    <3>1. dir.at[p]["bin"] = NoFile /\ archive.copy.at[p]["bin"] = NoFile
      BY <1>0, <2>6 DEF FilesInv, CopyInv
    <3>2. copy.at[p]["bin"] = NoFile
      BY <1>2, <3>1 DEF Formats
    <3> QED
      BY <3>2
  <2>7. ASSUME ~options.isolated, NEW p \in Namespaces, NEW f \in Formats
        PROVE  copy.at[p][f] = NoFile
    BY <1>0, <1>2, <1>8, <2>7, EmptyFiles DEF FilesInv, CopyInv
  <2>8. ASSUME options.isolated, NEW id \in Ids, NEW f \in Formats, id[1] # Root, copy.at[Root][f] # NoFile
        PROVE  copy.at[Root][f][id] = None
    BY <1>0, <1>2, <1>8, <2>8 DEF FilesInv, CopyInv
  <2> QED
    BY <1>0, <1>3, <1>7, <2>1, <2>2, <2>3, <2>4, <2>5, <2>6, <2>7, <2>8 DEF CopyInv
<1>10. CalmInv'
  <2> SUFFICES ASSUME archive.calm, ~archive.stale
               PROVE  CalmInv'
    BY <1>3 DEF CalmInv
  <2>1. /\ todo = <<>> /\ "torn" \notin lapses /\ archive.read \subseteq archive.listed
        /\ archive.listed = EntriesOf(dir)
        /\ <<"config", Root>> \in archive.read => archive.copy.config = dir.config
        /\ \A p \in Places, f \in Formats \cup {"sum"} :
              <<f, p>> \in archive.read => archive.copy.at[p][f] = dir.at[p][f]
    BY <1>0, <1>1 DEF CalmInv
  <2>2. /\ archive'.read \subseteq archive.listed
        /\ <<"config", Root>> \in archive'.read => copy.config = dir.config
        /\ \A p \in Places, f \in Formats \cup {"sum"} :
              <<f, p>> \in archive'.read => copy.at[p][f] = dir.at[p][f]
    BY <1>0, <1>2, <1>3, <2>1
  <2>3. ASSUME archive.listed \subseteq archive'.read
        PROVE  Loads(copy)
    <3>1. copy.config # NoFile
      BY <1>1, <2>1, <2>2, <2>3
    <3>2. ASSUME NEW p \in Places
          PROVE  Intact(copy.at[p])
      <4>1. \A f \in Formats \cup {"sum"} : copy.at[p][f] = dir.at[p][f]
        <5>1. ASSUME NEW f \in Formats \cup {"sum"}, dir.at[p][f] = NoFile
              PROVE  copy.at[p][f] = NoFile
          <6>1. <<f, p>> \notin archive'.read
            BY <1>1, <2>1, <2>2, <5>1
          <6>2. entry # <<f, p>> /\ <<f, p>> \notin archive.read
            BY <1>3, <6>1
          <6> QED
            BY <1>0, <1>2, <6>2 DEF CopyInv
        <5>2. ASSUME NEW f \in Formats \cup {"sum"}, dir.at[p][f] # NoFile
              PROVE  copy.at[p][f] = dir.at[p][f]
          <6>1. <<f, p>> \in archive'.read
            BY <1>1, <2>1, <2>3, <5>2
          <6> QED
            BY <2>2, <6>1
        <5> QED
          BY <5>1, <5>2
      <4>2. copy.at[p] \in PointFiles /\ dir.at[p] \in PointFiles
        BY <1>0, <1>2, LoadedType
      <4>3. copy.at[p]["bin"] = dir.at[p]["bin"] /\ copy.at[p]["jsonl"] = dir.at[p]["jsonl"]
            /\ copy.at[p]["sum"] = dir.at[p]["sum"]
        BY <4>1 DEF Formats
      <4>4. copy.at[p] = dir.at[p]
        BY <4>2, <4>3, FilesType
      <4>5. Intact(dir.at[p])
        BY <1>0, <1>7, <2>1 DEF FilesInv, BetweenFileAndSum
      <4> QED
        BY <4>4, <4>5
    <3> QED
      BY <3>1, <3>2 DEF Loads
  <2>4. Loads(archive.copy)' <=> Loads(copy)
    BY <1>3, NextCopy
  <2> QED
    BY <1>0, <1>3, <2>1, <2>2, <2>3, <2>4 DEF CalmInv
<1> QED
  BY <1>4, <1>5, <1>6, <1>9, <1>10 DEF ArchiveInv

(* What an archive gives back when everything listed has been read.        *)
LEMMA FinishTarKeeps ==
    ASSUME DirInv, ArchiveInv, FinishTar
    PROVE  ArchiveInv'
<1>0. /\ TypeOK /\ ArchiveOK /\ CopyInv /\ CalmInv
      /\ archive \in Archives /\ archive.stage = "read" /\ archive.listed \subseteq archive.read
      /\ archive.copy \in Directories
      /\ program' = program /\ program = "server" /\ options \in Switches /\ options.binary \in BOOLEAN /\ Own \in Formats
  <2>1. UNCHANGED dirVars /\ archive.stage = "read" /\ archive.listed \subseteq archive.read
    BY DEF FinishTar
  <2> QED
    BY <2>1, DirStays, Typed, ArchiveFacts DEF DirInv, ArchiveInv, ArchiveOK
<1>1. /\ archive' \in Archives /\ archive'.stage = "done" /\ archive'.listed = archive.listed
      /\ archive'.copy = archive.copy /\ archive'.values = archive.values
      /\ archive'.calm <=> archive.calm
      /\ archive'.stale <=> archive.stale
  <2>1. archive' = [archive EXCEPT !.stage = "done"]
    BY DEF FinishTar
  <2>2. archive' = [stage |-> "done", listed |-> archive.listed, read |-> archive.read,
                    copy |-> archive.copy, calm |-> archive.calm, stale |-> archive.stale, values |-> archive.values]
    BY <1>0, <2>1 DEF Archives
  <2>3. archive'.calm = archive.calm /\ archive'.stale = archive.stale
    BY <2>2
  <2> QED
    BY <1>0, <2>2, <2>3 DEF Archives
<1>2. ArchiveOK' /\ ValuesInv' /\ CopyInv' /\ CalmInv'
  BY <1>0, <1>1 DEF ArchiveOK, ValuesInv, CopyInv, CalmInv, Archived
<1>3. ASSUME ~archive.stale, Loads(archive.copy), NEW id \in Ids
      PROVE  Loaded(archive.copy)[id] \in archive.values[id]
  <2>1. /\ ~options.isolated => \A p \in Namespaces, f \in Formats : archive.copy.at[p][f] = NoFile
        /\ options.isolated => \A f \in Formats :
              id[1] # Root /\ archive.copy.at[Root][f] # NoFile => archive.copy.at[Root][f][id] = None
        /\ options.isolated \in BOOLEAN
    BY <1>0, <1>3, Typed DEF CopyInv
  <2>2. Loaded(archive.copy)[id] = PointsIn(archive.copy.at[PlaceOf(id)])[id]
    BY <1>0, <2>1, LoadedAt DEF PlaceOf
  <2>3. PlaceOf(id) \in Places /\ archive.copy.at[PlaceOf(id)] \in PointFiles
    BY <1>0, PlaceOfFacts, LoadedType
  <2>4. ~options.binary => archive.copy.at[PlaceOf(id)].bin = NoFile
    BY <1>0, <1>3, <2>3 DEF CopyInv
  <2>5. CASE <<Own, PlaceOf(id)>> \in archive.read
    <3>1. /\ archive.copy.at[PlaceOf(id)][Own] # NoFile
          /\ archive.copy.at[PlaceOf(id)][Own][id] \in archive.values[id]
      BY <1>0, <1>3, <2>5 DEF CopyInv
    <3>2. PointsIn(archive.copy.at[PlaceOf(id)]) = archive.copy.at[PlaceOf(id)][Own]
      BY <1>0, <2>3, <2>4, <3>1, HeldPoints DEF Own
    <3> QED
      BY <2>2, <3>1, <3>2
  <2>6. CASE <<Own, PlaceOf(id)>> \notin archive.read
    <3>1. None \in archive.values[id]
      BY <1>0, <1>3, <2>6 DEF CopyInv, Loads
    <3>2. archive.copy.at[PlaceOf(id)][Own] = NoFile
      BY <1>0, <1>3, <2>3, <2>6 DEF CopyInv
    <3>3. options.binary => archive.copy.at[PlaceOf(id)].jsonl = NoFile
      <4>1. ASSUME options.binary
            PROVE  <<"jsonl", PlaceOf(id)>> \notin archive.read
        <5>1. Own = "bin"
          BY <4>1 DEF Own, Format
        <5> QED
          BY <1>0, <1>3, <2>3, <2>6, <4>1, <5>1 DEF CopyInv
      <4>2. archive.copy.at[PlaceOf(id)]["jsonl"] # NoFile => <<"jsonl", PlaceOf(id)>> \in archive.read
        BY <1>0, <1>3, <2>3 DEF CopyInv, Formats
      <4> QED
        BY <4>1, <4>2
    <3>4. PointsIn(archive.copy.at[PlaceOf(id)]) = EmptyMap
      BY <1>0, <2>3, <2>4, <3>2, <3>3, HeldPoints DEF Own
    <3> QED
      BY <2>2, <3>1, <3>4, DataFacts
  <2> QED
    BY <2>5, <2>6
<1>4. ASSUME archive.calm, ~archive.stale, archive.listed # {}
      PROVE  Loads(archive.copy)
  BY <1>0, <1>4 DEF CalmInv
<1>5. BackupRestores'
  BY <1>1, <1>3, <1>4, NextCopy DEF BackupRestores
<1> QED
  BY <1>2, <1>5 DEF ArchiveInv

LEMMA BackupKeeps ==
    ASSUME DirInv, ArchiveInv, BackupToS3
    PROVE  ArchiveInv'
<1>0. /\ TypeOK /\ ArchiveOK /\ archive \in Archives /\ archive.stage = "none" /\ archive.read = {}
      /\ archive.copy = NoDirectory /\ points \in Maps /\ program = "server" /\ program' = program
      /\ points' = points /\ options' = options /\ retention' = retention /\ retention \in Days
      /\ options \in Switches
  <2>1. archive.stage = "none" /\ program = "server" /\ points # NoCollection
        /\ UNCHANGED <<program, points, options, retention>>
    BY DEF BackupToS3, ServerCall, Serving
  <2> QED
    BY <2>1, Typed DEF DirInv, ArchiveInv, ArchiveOK
<1>1. /\ archive' \in Archives /\ archive'.stage = "save" /\ archive'.read = {} /\ archive'.copy = NoDirectory
      /\ \A id \in Ids : archive'.values[id] = {points[id]}
  <2>1. archive' = [archive EXCEPT !.stage = "save", !.values = [id \in Ids |-> {points[id]}]]
    BY DEF BackupToS3
  <2>2. archive' = [stage |-> "save", listed |-> archive.listed, read |-> archive.read, copy |-> archive.copy,
                    calm |-> archive.calm, stale |-> archive.stale, values |-> [id \in Ids |-> {points[id]}]]
    BY <1>0, <2>1 DEF Archives
  <2>3. [id \in Ids |-> {points[id]}] \in [Ids -> SUBSET PointOrNone]
    BY <1>0, DataFacts
  <2> QED
    BY <1>0, <2>2, <2>3 DEF Archives
<1>2. todo' # <<>>
  <2>1. PICK order \in Orders(points, options.isolated) :
           todo' = SaveWrites(points, retention, options, order) /\ after' = "clean"
    BY Orderings DEF BackupToS3
  <2> QED
    BY <1>0, <2>1, Begun
<1>3. ArchiveOK'
  BY <1>0, <1>1, <1>2 DEF ArchiveOK
<1>4. ValuesInv'
  BY <1>0, <1>1 DEF ValuesInv, Archived
<1>5. CopyInv' /\ CalmInv' /\ BackupRestores'
  BY <1>1 DEF CopyInv, CalmInv, BackupRestores
<1> QED
  BY <1>3, <1>4, <1>5 DEF ArchiveInv

(* Steps of the follower.                                                  *)
LEMMA ArchiveStill ==
    ASSUME DirInv, ArchiveInv, UNCHANGED <<archive, dir, lapses, program, options, points, todo>>
    PROVE  ArchiveInv'
<1>1. /\ Own' = Own /\ \A id \in Ids : PlaceOf(id)' = PlaceOf(id)
      /\ Loaded(dir)' = Loaded(dir) /\ EntriesOf(dir)' = EntriesOf(dir)
      /\ (Loads(archive.copy)' <=> Loads(archive.copy)) /\ Loaded(archive.copy)' = Loaded(archive.copy)
  BY SameOptions, NextFiles, NextCopy
<1>2. ArchiveOK' /\ ValuesInv'
  BY <1>1 DEF ArchiveInv, ArchiveOK, ValuesInv, Archived
<1>3. CopyInv'
  BY <1>1 DEF ArchiveInv, CopyInv
<1>4. CalmInv' /\ BackupRestores'
  BY <1>1 DEF ArchiveInv, CalmInv, BackupRestores
<1> QED
  BY <1>2, <1>3, <1>4 DEF ArchiveInv

LEMMA Invariant ==
    ASSUME IInv, [Next]_vars
    PROVE  IInv'
<1>0. DirInv /\ ArchiveInv /\ DirInv'
  BY DirInvariant DEF IInv
<1>1. CASE BackupToS3
  BY <1>0, <1>1, BackupKeeps DEF IInv
<1>2. CASE ListFiles
  BY <1>0, <1>2, ListFilesKeeps DEF IInv
<1>3. CASE FinishTar
  BY <1>0, <1>3, FinishTarKeeps DEF IInv
<1>4. CASE TarFails
  BY <1>0, <1>4, NothingArchived DEF IInv, TarFails
<1>5. CASE \E entry \in FileKinds \X Places : AddToTar(entry)
  BY <1>0, <1>5, AddToTarKeeps DEF IInv
<1>6. CASE DirNext /\ archive' = Meanwhile(archive)
  BY <1>0, <1>6, MeanwhileKeeps DEF IInv
<1>7. CASE \/ ReplicateCollection \/ ApplyWalEntry \/ UNCHANGED vars
           \/ \E id \in Ids, val \in PointOrNone : GrpcWriteToReplica(id, val)
  <2>1. UNCHANGED <<archive, dir, lapses, program, options, points, todo>>
    BY <1>7 DEF ReplicateCollection, ApplyWalEntry, GrpcWriteToReplica, vars, dirVars, files, saving, ghosts
  <2> QED
    BY <1>0, <2>1, ArchiveStill DEF IInv
<1> QED
  BY <1>1, <1>2, <1>3, <1>4, <1>5, <1>6, <1>7 DEF Next, BackupNext, FileKinds

(* Point-in-time recovery and backups give back what there was: the        *)
(* restore points of list_restore_points and the archives of backup_to_s3  *)
(* (Restores).                                                             *)
THEOREM BackupsRestore == Spec => []Restores
<1>1. Init => IInv
  BY Started, NothingArchived DEF Init, IInv
<1>2. IInv /\ [Next]_vars => IInv'
  BY Invariant
<1>3. IInv => Restores
  BY DEF IInv, DirInv, ArchiveInv, PastKept, Restores, RestoresPast, GetRestorePoints
<1> QED
  BY <1>1, <1>2, <1>3, PTL DEF Spec

=============================================================================
