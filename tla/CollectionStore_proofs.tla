----------------------- MODULE CollectionStore_proofs ------------------------
(***************************************************************************)
(* Proofs about CollectionStore, for any set of points, any batch and log  *)
(* sizes and any thresholds.                                               *)
(***************************************************************************)
EXTENDS CollectionStoreInv, Integers, WellFoundedInduction, SequenceTheorems, TLAPS

-----------------------------------------------------------------------------
(* Natural numbers *)

(* A nonempty set of natural numbers has a least element.                  *)
LEMMA LeastNatural ==
    ASSUME NEW T \in SUBSET Nat, T # {}
    PROVE  \E x \in T : \A y \in T : x <= y
<1>1. \E x \in T : \A y \in T : ~(<<y, x>> \in OpToRel(<, Nat))
  BY NatLessThanWellFounded, WFMin
<1>2. \A x, y \in T : ~(<<y, x>> \in OpToRel(<, Nat)) => ~(y < x)
  BY DEF OpToRel
<1>3. \A x, y \in T : ~(y < x) => x <= y
  OBVIOUS
<1> QED
  BY <1>1, <1>2, <1>3

-----------------------------------------------------------------------------
(* Facts about replaying a log *)

(* A nonempty set of positions has a last element. *)
LEMMA LastExists ==
    ASSUME NEW n \in Nat, NEW S \in SUBSET (1..n), S # {}
    PROVE  /\ Last(S) \in S
           /\ \A j \in S : j <= Last(S)
<1> DEFINE T == {t \in Nat : n - t \in S}
<1>1. PICK i \in S : TRUE
    OBVIOUS
<1>2. n - i \in T
    BY <1>1
<1>3. PICK x \in T : \A y \in T : x <= y
    <2> HIDE DEF T
    <2>1. T \subseteq Nat
        BY DEF T
    <2> QED BY <1>2, <2>1, LeastNatural
<1>4. ASSUME NEW j \in S PROVE j <= n - x
    <2>1. n - j \in T
        OBVIOUS
    <2>2. x <= n - j
        BY <1>3, <2>1
    <2>3. QED
        BY <2>2
<1>5. n - x \in S
    BY <1>3
<1>6. QED
    BY <1>4, <1>5 DEF Last

(* The last position that changes an id is one of the positions that do. *)
LEMMA LastHit ==
    ASSUME NEW log \in Seq(Entry), NEW n \in 0..Len(log), NEW id,
           Hits(log, n, id) # {}
    PROVE  /\ Last(Hits(log, n, id)) \in 1..n
           /\ Last(Hits(log, n, id)) \in Hits(log, n, id)
           /\ \A j \in Hits(log, n, id) : j <= Last(Hits(log, n, id))
           /\ log[Last(Hits(log, n, id))] \in Entry
<1>1. n \in Nat /\ Hits(log, n, id) \in SUBSET (1..n)
    BY DEF Hits
<1>2. /\ Last(Hits(log, n, id)) \in Hits(log, n, id)
      /\ \A j \in Hits(log, n, id) : j <= Last(Hits(log, n, id))
    BY <1>1, LastExists
<1>3. Last(Hits(log, n, id)) \in 1..Len(log)
    BY <1>1, <1>2
<1>4. log[Last(Hits(log, n, id))] \in Entry
    BY <1>3, ElementOfSeq
<1>5. QED
    BY <1>1, <1>2, <1>4

(* Replaying over a map gives a map. *)
LEMMA OverlayType ==
    ASSUME NEW S, PointOrNone \subseteq S, NEW base \in [Ids -> S],
           NEW log \in Seq(Entry), NEW n \in 0..Len(log)
    PROVE  Overlay(base, log, n) \in [Ids -> S]
<1> SUFFICES ASSUME NEW id \in Ids, Hits(log, n, id) # {}
             PROVE  log[Last(Hits(log, n, id))].val \in S
    BY DEF Overlay
<1>1. log[Last(Hits(log, n, id))] \in Entry
    BY LastHit
<1>2. QED
    BY <1>1 DEF Entry

(* Entries of other ids do not change what replay gives an id. *)
LEMMA OtherEntries ==
    ASSUME NEW s \in Seq(Entry), NEW t \in Seq(Entry), NEW id \in Ids,
           \A i \in 1..Len(t) : t[i].id # id
    PROVE  /\ Hits(s \o t, Len(s \o t), id) = Hits(s, Len(s), id)
           /\ \A base : Overlay(base, s \o t, Len(s \o t))[id] = Overlay(base, s, Len(s))[id]
<1>1. /\ Len(s \o t) = Len(s) + Len(t)
      /\ Len(s) \in Nat /\ Len(t) \in Nat
      /\ \A i \in 1..Len(s) + Len(t) :
            (s \o t)[i] = IF i <= Len(s) THEN s[i] ELSE t[i - Len(s)]
    BY ConcatProperties, LenProperties
<1>2. \A i \in 1..Len(s) : (s \o t)[i] = s[i]
    BY <1>1
<1>3. ASSUME NEW i \in 1..Len(s) + Len(t), i > Len(s)
      PROVE  (s \o t)[i].id # id
    <2>1. i - Len(s) \in 1..Len(t)
        BY <1>1, <1>3
    <2>2. QED
        BY <1>1, <1>3, <2>1
<1>4. Hits(s \o t, Len(s \o t), id) = Hits(s, Len(s), id)
    <2>1. ASSUME NEW i \in Hits(s \o t, Len(s \o t), id)
          PROVE  i \in Hits(s, Len(s), id)
        <3>1. i \in 1..Len(s) + Len(t) /\ (s \o t)[i].id = id
            BY <1>1 DEF Hits
        <3>2. i \in 1..Len(s)
            BY <1>1, <1>3, <3>1
        <3>3. QED
            BY <1>2, <3>2 DEF Hits
    <2>2. ASSUME NEW i \in Hits(s, Len(s), id)
          PROVE  i \in Hits(s \o t, Len(s \o t), id)
        <3>1. i \in 1..Len(s) /\ i \in 1..Len(s) + Len(t)
            BY <1>1 DEF Hits
        <3>2. QED
            BY <1>1, <1>2, <3>1 DEF Hits
    <2>3. QED
        BY <2>1, <2>2
<1>5. ASSUME NEW i \in Hits(s, Len(s), id)
      PROVE  (s \o t)[i] = s[i]
    BY <1>2 DEF Hits
<1>6. Hits(s, Len(s), id) # {} => Last(Hits(s, Len(s), id)) \in Hits(s, Len(s), id)
    BY <1>1, LastHit
<1>7. QED
    BY <1>4, <1>5, <1>6 DEF Overlay

(* An id the last entries of a log write has their last value. *)
LEMMA TailDecides ==
    ASSUME NEW log \in Seq(Entry), NEW b \in Seq(Entry), NEW id \in Ids,
           Len(b) <= Len(log),
           \A i \in 1..Len(b) : log[Len(log) - Len(b) + i] = b[i],
           Hits(b, Len(b), id) # {}
    PROVE  /\ Hits(log, Len(log), id) # {}
           /\ log[Last(Hits(log, Len(log), id))] = b[Last(Hits(b, Len(b), id))]
<1> DEFINE k == Len(log) - Len(b)
           m == Last(Hits(b, Len(b), id))
           l == Last(Hits(log, Len(log), id))
<1>1. Len(log) \in Nat /\ Len(b) \in Nat /\ k \in Nat
    BY LenProperties
<1>2. /\ m \in 1..Len(b) /\ m \in Hits(b, Len(b), id)
      /\ \A j \in Hits(b, Len(b), id) : j <= m
    BY <1>1, LastHit
<1>3. k + m \in Hits(log, Len(log), id)
    <2>1. k + m \in 1..Len(log) /\ log[k + m] = b[m]
        BY <1>1, <1>2
    <2>2. QED
        BY <1>2, <2>1 DEF Hits
<1>4. l \in 1..Len(log) /\ l \in Hits(log, Len(log), id) /\ k + m <= l
    BY <1>1, <1>3, LastHit
<1>5. l - k \in 1..Len(b) /\ log[l] = b[l - k]
    <2>1. l - k \in 1..Len(b)
        BY <1>1, <1>2, <1>4
    <2>2. log[k + (l - k)] = b[l - k]
        BY <2>1
    <2>3. k + (l - k) = l
        BY <1>1, <1>4
    <2>4. QED
        BY <2>1, <2>2, <2>3
<1>6. l - k \in Hits(b, Len(b), id)
    BY <1>4, <1>5 DEF Hits
<1>7. l - k = m
    BY <1>1, <1>2, <1>4, <1>5, <1>6
<1>8. QED
    BY <1>3, <1>5, <1>7

-----------------------------------------------------------------------------
(* Types *)

TypeInv == TypeOK /\ (pc = "log" => logged < Len(batch))

LEMMA EntryOfBatch ==
    ASSUME TypeOK, NEW i \in 1..Len(batch)
    PROVE  batch[i] \in Entry
BY ElementOfSeq DEF TypeOK

LEMMA StableType == TypeOK => Stable \in Maps
<1> SUFFICES ASSUME TypeOK PROVE Stable \in Maps
    OBVIOUS
<1>1. EmptyMap \in Maps
    BY DEF EmptyMap, Maps, PointOrNone
<1>2. PointsOnDisk \in [Ids -> PointOrNone]
    BY <1>1 DEF PointsOnDisk, TypeOK, Maps
<1>3. wal \in Seq(Entry) /\ Len(wal) \in 0..Len(wal)
    BY LenProperties DEF TypeOK
<1>4. Overlay(PointsOnDisk, wal, Len(wal)) \in Maps
    BY <1>2, <1>3, OverlayType DEF Maps
<1>5. QED
    BY <1>1, <1>4 DEF Stable

(* What the log's variables have to be. *)
LogType == wal \in Seq(Entry) /\ skipped \in Nat /\ torn \in {"no"} \cup Tears

LEMMA WriteType ==
    ASSUME LogType, NEW s \in Seq(Entry), NEW tear \in {"no"} \cup Tears, Write(s, tear)
    PROVE  LogType'
<1>1. s # <<>> => Tail(s) \in Seq(Entry)
    BY HeadTailProperties
<1>2. ASSUME NEW t \in Seq(Entry) PROVE wal \o t \in Seq(Entry)
    BY ConcatProperties DEF LogType
<1>3. wal' \in Seq(Entry)
    BY <1>1, <1>2 DEF Write, LogType
<1>4. skipped' \in Nat
    BY DEF Write, LogType
<1>5. torn' \in {"no"} \cup Tears
    <2>1. torn' \in {tear, "line", torn, "bytes", "frame"}
        BY DEF Write
    <2>2. QED
        BY <2>1 DEF LogType, Tears
<1>6. QED
    BY <1>3, <1>4, <1>5 DEF LogType

(* Emptied, or left alone, the log keeps its type. *)
LEMMA SameLogType ==
    ASSUME LogType, EmptyLog \/ UNCHANGED logFile
    PROVE  LogType'
<1>1. CASE EmptyLog
    BY <1>1, EmptySeq DEF EmptyLog, LogType
<1>2. CASE UNCHANGED logFile
    BY <1>2 DEF LogType, logFile
<1>3. QED
    BY <1>1, <1>2

LEMMA FlushType ==
    ASSUME LogType, NEW s \in Seq(Entry), Flush(s)
    PROVE  LogType'
BY WriteType DEF Flush

(* The first entries of a sequence of entries. *)
LEMMA Prefix ==
    ASSUME NEW s \in Seq(Entry), NEW n \in 0..Len(s)
    PROVE  /\ SubSeq(s, 1, n) \in Seq(Entry) /\ Len(SubSeq(s, 1, n)) = n
           /\ \A i \in 1..n : SubSeq(s, 1, n)[i] = s[i]
<1>1. Len(s) \in Nat /\ n \in Int /\ \A i \in 1..n : s[i] \in Entry
    BY LenProperties, ElementOfSeq
<1>2. /\ SubSeq(s, 1, n) \in Seq(Entry)
      /\ Len(SubSeq(s, 1, n)) = IF 1 <= n THEN n - 1 + 1 ELSE 0
      /\ \A i \in 1..n - 1 + 1 : SubSeq(s, 1, n)[i] = s[1 + i - 1]
    BY <1>1, SubSeqProperties
<1>3. QED
    BY <1>1, <1>2

LEMMA PartType ==
    ASSUME LogType, NEW s \in Seq(Entry), PartWritten(s)
    PROVE  LogType'
<1>1. PICK n \in 0..Len(s) :
          \E tear \in {"no"} \cup (IF n < Len(s) THEN TornKinds ELSE {}) :
              Write(SubSeq(s, 1, n), tear)
    BY DEF PartWritten
<1>2. PICK tear \in {"no"} \cup Tears : Write(SubSeq(s, 1, n), tear)
    BY <1>1, CollectionStoreAssumption
<1>3. QED
    BY <1>2, Prefix, WriteType

(* A call's entries, of either kind. *)
LEMMA BatchType ==
    ASSUME NEW n \in Nat, NEW V, V \subseteq PointOrNone,
           NEW entries \in [1..n -> [id : Ids, val : V]]
    PROVE  entries \in Seq(Entry) /\ Len(entries) = n
<1>1. [id : Ids, val : V] \subseteq Entry
    BY DEF Entry
<1>2. entries \in [1..n -> Entry]
    BY <1>1
<1>3. QED
    BY <1>2, SeqDef, LenProperties

LEMMA BeginsBatch ==
    ASSUME BeginUpsert \/ BeginDelete
    PROVE  \E entries \in Seq(Entry) : Begin(entries)
<1> USE CollectionStoreAssumption
<1>1. CASE BeginUpsert
    <2>1. PICK n \in 0..MaxBatch :
              \E entries \in [1..n -> [id : Ids, val : Vals]] : Begin(entries)
        BY <1>1 DEF BeginUpsert
    <2>2. PICK entries \in [1..n -> [id : Ids, val : Vals]] : Begin(entries)
        BY <2>1
    <2>3. entries \in Seq(Entry)
        <3>1. n \in Nat /\ Vals \subseteq PointOrNone
            BY DEF PointOrNone
        <3>2. QED
            BY <3>1, BatchType
    <2>4. QED
        BY <2>2, <2>3
<1>2. CASE BeginDelete
    <2>1. PICK n \in 0..MaxBatch :
              \E entries \in [1..n -> [id : Ids, val : {None}]] : Begin(entries)
        BY <1>2 DEF BeginDelete
    <2>2. PICK entries \in [1..n -> [id : Ids, val : {None}]] : Begin(entries)
        BY <2>1
    <2>3. entries \in Seq(Entry)
        <3>1. n \in Nat /\ {None} \subseteq PointOrNone
            BY DEF PointOrNone
        <3>2. QED
            BY <3>1, BatchType
    <2>4. QED
        BY <2>2, <2>3
<1>3. QED
    BY <1>1, <1>2

LEMMA BeginType ==
    ASSUME TypeOK, NEW entries \in Seq(Entry), Begin(entries)
    PROVE  TypeInv'
<1>1. TypeOK'
    BY DEF TypeOK, Begin, memory, files, Steps, SaveSteps
<1>2. entries # <<>> => Len(entries) > 0
    BY EmptySeq
<1>3. QED
    BY <1>1, <1>2 DEF TypeInv, Begin

LEMMA StoppedType ==
    ASSUME TypeOK, Stopped
    PROVE  /\ pc' = "down" /\ open' = FALSE /\ mem' \in Maps /\ batch' \in Seq(Entry)
           /\ logged' \in Nat /\ ops' \in Nat /\ writer' = "missing"
           /\ stuck' \in Seq(Entry) /\ UNCHANGED <<why, acked>>
<1>1. EmptyMap \in Maps
    BY DEF EmptyMap, Maps, PointOrNone
<1>2. QED
    BY <1>1, EmptySeq DEF Stopped

(* Each variable keeps to its type, whatever the faults. *)
LEMMA AppliedType ==
    ASSUME TypeOK, NEW n \in 0..Len(batch)
    PROVE  Overlay(mem, batch, n) \in Maps
BY OverlayType DEF TypeOK, Maps

LEMMA AcceptedType ==
    ASSUME TypeOK, NEW n \in Accepted
    PROVE  n \in 0..Len(batch)
BY DEF Accepted

(* An entry about to be logged, behind what the BufWriter still holds. *)
LEMMA LoggingType ==
    ASSUME TypeOK, logged < Len(batch)
    PROVE  /\ batch[logged + 1] \in Entry
           /\ stuck \o <<batch[logged + 1]>> \in Seq(Entry)
<1>1. logged + 1 \in 1..Len(batch)
    BY LenProperties DEF TypeOK
<1>2. batch[logged + 1] \in Entry
    BY <1>1, EntryOfBatch
<1>3. <<batch[logged + 1]>> \in Seq(Entry)
    BY <1>2
<1>4. QED
    BY <1>2, <1>3, ConcatProperties DEF TypeOK

LEMMA InFlightType ==
    ASSUME TypeInv
    PROVE  InFlight \in Seq(Entry)
<1>1. CASE pc = "log" /\ writer = "open" /\ ops < Cap
    BY <1>1, LoggingType DEF InFlight, TypeInv
<1>2. CASE ~(pc = "log" /\ writer = "open" /\ ops < Cap)
    <2>1. stuck \in Seq(Entry) /\ InFlight = stuck \o <<>>
        BY <1>2 DEF InFlight, TypeInv, TypeOK
    <2>2. QED
        BY <2>1, ConcatEmptySeq
<1>3. QED
    BY <1>1, <1>2

LEMMA TypeBase ==
    /\ EmptyMap \in Maps /\ <<>> \in Seq(Entry)
    /\ EmptyMap \in [Ids -> PointOrNone \cup {Unknown}]
BY EmptySeq DEF EmptyMap, Maps, PointOrNone

LEMMA TypeInit == Init => TypeInv
<1>1. ASSUME Init PROVE TypeOK
    BY <1>1, TypeBase DEF Init, TypeOK
<1>2. QED
    BY <1>1 DEF Init, TypeInv

LEMMA TypeStep == TypeInv /\ [Next]_vars => TypeInv'
<1> USE CollectionStoreAssumption
<1> SUFFICES ASSUME TypeOK, pc = "log" => logged < Len(batch), [Next]_vars
             PROVE  TypeInv'
    BY DEF TypeInv
<1> USE DEF TypeInv
<1>1. CASE StartWithout
    BY <1>1 DEF StartWithout, TypeOK, memory, files, Steps
<1>2. CASE StartWith
    <2>1. LogCount \in Nat
        BY LenProperties DEF LogCount, TypeOK
    <2>2. QED
        BY <1>2, <2>1, StableType DEF StartWith, TypeOK, files, Steps, SaveSteps
<1>3. CASE Crash
    <2>1. LogType'
        BY <1>3, InFlightType, PartType DEF Crash, TypeOK, LogType
    <2>2. QED
        BY <1>3, <2>1, StoppedType DEF Crash, TypeOK, LogType, snapshot
<1>4. CASE CrashInDrop
    <2>1. LogType'
        BY <1>4, SameLogType DEF CrashInDrop, TypeOK, LogType
    <2>2. QED
        BY <1>4, <2>1, StoppedType DEF CrashInDrop, TypeOK, LogType
<1>5. CASE Shutdown
    <2>1. LogType'
        BY <1>5, PartType DEF Shutdown, TypeOK, LogType
    <2>2. QED
        BY <1>5, <2>1, StoppedType DEF Shutdown, TypeOK, LogType, snapshot
<1>6. CASE Create
    <2>1. LogCount \in Nat
        BY LenProperties DEF LogCount, TypeOK
    <2>2. QED
        BY TypeBase, <1>6, <2>1 DEF Create, TypeOK, files, Steps, SaveSteps
<1>7. CASE Delete
    BY <1>7 DEF Delete, TypeOK, memory, files, Steps
<1>8. CASE Removed
    BY TypeBase, <1>8 DEF Removed, EmptyLog, TypeOK, Steps
<1>9. CASE BeginUpsert \/ BeginDelete
    BY <1>9, BeginsBatch, BeginType
<1>10. CASE LogEntry
    <2>1. stuck \o <<batch[logged + 1]>> \in Seq(Entry)
        BY <1>10, LoggingType DEF LogEntry
    <2>2. LogType'
        BY <1>10, <2>1, FlushType DEF LogEntry, TypeOK, LogType
    <2>3. pc' = "log" => logged' < Len(batch')
        BY <1>10, LenProperties DEF LogEntry, TypeOK
    <2>4. QED
        BY TypeBase, <1>10, <2>2, <2>3 DEF LogEntry, TypeOK, LogType, snapshot, Steps
<1>11. CASE LogEntryFails
    <2>1. stuck \o <<batch[logged + 1]>> \in Seq(Entry)
        BY <1>11, LoggingType DEF LogEntryFails
    <2>2. stuck \in Seq(Entry) /\ LogType
        BY DEF TypeOK, LogType
    <2>3. LogType'
        <3>1. CASE UNCHANGED logFile
            BY <2>2, <3>1, SameLogType
        <3>2. CASE Flush(stuck) \/ Flush(stuck \o <<batch[logged + 1]>>)
            BY <2>1, <2>2, <3>2, FlushType
        <3>3. CASE \E tear \in TornKinds : Write(stuck, tear)
            <4>1. PICK tear \in {"no"} \cup Tears : Write(stuck, tear)
                BY <3>3
            <4>2. QED
                BY <2>2, <4>1, WriteType
        <3>4. QED
            BY <1>11, <3>1, <3>2, <3>3 DEF LogEntryFails
    <2>4. stuck' \in Seq(Entry)
        BY TypeBase, <1>11, <2>1, <2>2 DEF LogEntryFails
    <2>5. /\ EndCall
          /\ UNCHANGED <<why, open, mem, ops, writer, config, points, sum, acked>>
        BY <1>11 DEF LogEntryFails, snapshot
    <2>6. QED
        BY TypeBase, <2>3, <2>4, <2>5 DEF EndCall, TypeOK, LogType, Steps
<1>12. CASE LogEntryRefused
    BY TypeBase, <1>12 DEF LogEntryRefused, EndCall, TypeOK, memory, files, Steps
<1>13. CASE ApplyUpsert
    <2>1. PICK n \in Accepted :
              /\ mem' = Overlay(mem, batch, n)
              /\ IF n = Len(batch)
                 THEN NextAfterApply /\ UNCHANGED <<batch, logged>>
                 ELSE EndCall /\ UNCHANGED why
        BY <1>13 DEF ApplyUpsert
    <2>2. mem' \in Maps
        BY <2>1, AppliedType, AcceptedType
    <2>3. UNCHANGED <<open, ops, writer, stuck, files, acked>>
        BY <1>13 DEF ApplyUpsert
    <2>4. CASE n = Len(batch)
        <3>1. /\ pc' \in {"config", "done"} /\ why' \in {"op", why}
              /\ UNCHANGED <<batch, logged>>
            BY <2>1, <2>4 DEF NextAfterApply
        <3>2. QED
            BY <2>2, <2>3, <3>1 DEF TypeOK, files, Steps, SaveSteps
    <2>5. CASE n # Len(batch)
        <3>1. EndCall /\ UNCHANGED why
            BY <2>1, <2>5
        <3>2. QED
            BY TypeBase, <2>2, <2>3, <3>1 DEF EndCall, TypeOK, files, Steps
    <2>6. QED
        BY <2>4, <2>5
<1>14. CASE ApplyDelete
    <2>1. mem' \in Maps
        BY <1>14, AppliedType, LenProperties DEF ApplyDelete, TypeOK
    <2>2. QED
        BY <1>14, <2>1 DEF ApplyDelete, NextAfterApply, TypeOK, files, Steps, SaveSteps
<1>15. CASE Reply
    <2>1. acked' \in [Ids -> PointOrNone \cup {Unknown}]
        <3>1. /\ PointOrNone \subseteq PointOrNone \cup {Unknown}
              /\ Len(batch) \in 0..Len(batch)
            BY LenProperties DEF TypeOK
        <3>2. Overlay(acked, batch, Len(batch)) \in [Ids -> PointOrNone \cup {Unknown}]
            BY <3>1, OverlayType DEF TypeOK
        <3>3. QED
            BY <1>15, <3>2 DEF Reply
    <2>2. QED
        BY TypeBase, <1>15, <2>1 DEF Reply, EndCall, TypeOK, memory, files, Steps
<1>16. CASE SaveConfig
    BY <1>16 DEF SaveConfig, TypeOK, memory, logFile, Steps, SaveSteps
<1>17. CASE SavePoints
    BY <1>17 DEF SavePoints, TypeOK, memory, logFile, Steps, SaveSteps
<1>18. CASE SaveChecksum
    BY <1>18 DEF SaveChecksum, TypeOK, memory, logFile, Steps, SaveSteps
<1>19. CASE SaveIndex
    BY <1>19 DEF SaveIndex, TypeOK, memory, files, Steps, SaveSteps
<1>20. CASE Truncate
    BY TypeBase, <1>20 DEF Truncate, EmptyLog, TypeOK, snapshot, Steps, SaveSteps
<1>21. CASE SaveFails
    <2>1. LogType'
        <3>1. stuck \in Seq(Entry) /\ LogType
            BY DEF TypeOK, LogType
        <3>2. PartWritten(stuck) \/ EmptyLog \/ UNCHANGED logFile
            BY <1>21 DEF SaveFails
        <3>3. QED
            BY <3>1, <3>2, PartType, SameLogType
    <2>2. CASE why = "recover"
        BY <1>21, <2>1, <2>2, StoppedType DEF SaveFails, TypeOK, LogType, snapshot
    <2>3. CASE why # "recover"
        <3>1. /\ EndCall /\ UNCHANGED <<why, open, mem, ops, acked, config, points, sum>>
              /\ \/ writer' = "closed" /\ stuck' = <<>>
                 \/ UNCHANGED <<writer, stuck>>
            BY <1>21, <2>3 DEF SaveFails, snapshot
        <3>2. QED
            BY TypeBase, <2>1, <3>1 DEF EndCall, TypeOK, LogType, Steps
    <2>4. QED
        BY <2>2, <2>3
<1>22. CASE UNCHANGED vars
    BY <1>22 DEF vars, memory, files, TypeOK
<1>23. QED
    BY <1>1, <1>2, <1>3, <1>4, <1>5, <1>6, <1>7, <1>8, <1>9, <1>10, <1>11, <1>12,
       <1>13, <1>14, <1>15, <1>16, <1>17, <1>18, <1>19, <1>20, <1>21, <1>22
    DEF Next

(* Each variable keeps to its type, whatever the faults. *)
THEOREM TypeCorrect == Spec => []TypeOK
<1>1. TypeInv => TypeOK
    BY DEF TypeInv
<1>2. QED
    BY <1>1, TypeInit, TypeStep, PTL DEF Spec

-----------------------------------------------------------------------------
(***************************************************************************)
(* IInv is inductive under SafeFaults, one lemma for each action: what is  *)
(* acknowledged survives and stays visible, nothing is visible that is not *)
(* in the log, and CollectionStore implements DurableMap.                  *)
(***************************************************************************)

(* What the invariant says of the steps of an operation *)

(* Nothing is appended to a torn entry while the process lives. *)
SoundLog == torn = "line" => writer = "closed" /\ stuck = <<>>

LEMMA Context ==
    ASSUME IInv
    PROVE  /\ Len(wal) \in Nat /\ Len(batch) \in Nat /\ Len(stuck) \in Nat
           /\ logged \in Nat
           /\ pc \notin {"down", "idle"} => open
           /\ open /\ ~(pc = "config" /\ why = "create") => config
           /\ pc # "down" /\ ~Saving("recover") => SoundLog
           /\ pc = "log" /\ writer = "open" => torn = "no"
           /\ pc # "checksum" => sum # "stale"
           /\ mem \in Maps /\ PointsOnDisk \in Maps
<1>1. Len(wal) \in Nat /\ Len(batch) \in Nat /\ Len(stuck) \in Nat /\ logged \in Nat
    BY LenProperties DEF IInv, TypeOK
<1>2. mem \in Maps /\ PointsOnDisk \in Maps
    BY TypeBase DEF IInv, TypeOK, PointsOnDisk
<1>3. QED
    BY <1>1, <1>2 DEF IInv, ControlInv, FilesInv, SoundLog, Saving, SaveSteps

LEMMA EntryId ==
    ASSUME NEW s \in Seq(Entry), NEW i \in 1..Len(s)
    PROVE  s[i].id \in Ids
<1>1. s[i] \in Entry
    BY ElementOfSeq
<1>2. QED
    BY <1>1 DEF Entry

LEMMA NoHits == \A id : Hits(<<>>, Len(<<>>), id) = {} /\ Hits(<<>>, 0, id) = {}
<1>1. Len(<<>>) = 0
    BY EmptySeq
<1>2. QED
    BY <1>1 DEF Hits

(* Replaying an empty log changes nothing. *)
LEMMA EmptyOverlay ==
    ASSUME NEW base \in Maps
    PROVE  Overlay(base, <<>>, Len(<<>>)) = base
BY NoHits DEF Overlay, Maps

-----------------------------------------------------------------------------
(* Steps that leave a part of the state alone *)

(* Memory, files and acknowledgements as they are. *)
LEMMA SameData ==
    ASSUME IInv, UNCHANGED <<open, mem, config, points, wal, acked>>
    PROVE  AgreeInv' /\ AckedSurvives' /\ AckedVisible'
BY DEF IInv, AgreeInv, AckedSurvives, AckedVisible, Stable, PointsOnDisk

(* The call is over, or there is none. *)
LEMMA NoCall ==
    ASSUME wal' \in Seq(Entry), batch' = <<>>, logged' = 0,
           \A i \in 1..Len(stuck') : acked'[stuck'[i].id] = Unknown
    PROVE  WritesInv'
<1>1. Len(batch') = 0 /\ Len(wal') \in Nat
    BY EmptySeq, LenProperties
<1>2. \A id \in Ids : Hits(batch', Len(batch'), id) = {}
    BY NoHits
<1>3. /\ \A i \in 1..Len(batch') : acked'[batch'[i].id] = Unknown
      /\ \A i \in 1..logged' : wal'[Len(wal') - logged' + i] = batch'[i]
      /\ logged' <= Len(wal') /\ ~(logged' > 0)
    BY <1>1
<1>4. QED
    BY <1>2, <1>3 DEF WritesInv

(* The call in progress and what it wrote as they are. *)
LEMMA SameWrites ==
    ASSUME IInv,
           UNCHANGED <<mem, batch, logged, stuck, wal, acked>>,
           \A id \in Ids : Stable'[id] = Stable[id],
           pc' \in {"log", "apply"} => pc \in {"log", "apply"},
           pc' = "done" \/ Saving("op")' => pc = "done" \/ Saving("op")
    PROVE  WritesInv'
BY DEF IInv, WritesInv, Saving

-----------------------------------------------------------------------------
(* What reaches the log *)

(* Appended to a whole log, entries follow those it has, and leave it      *)
(* whole; so does nothing, appended to any log.                            *)
LEMMA Flushed ==
    ASSUME IInv, NEW s \in Seq(Entry), Flush(s), torn = "no" \/ s = <<>>
    PROVE  wal' = wal \o s /\ skipped' = 0 /\ torn' = torn
<1>1. wal \o <<>> = wal
    BY ConcatEmptySeq DEF IInv, TypeOK
<1>2. torn \in {"no", "line"} /\ skipped = 0
    BY DEF IInv, FilesInv
<1>3. QED
    BY <1>1, <1>2 DEF Flush, Write

(* A write cut short appends some of the entries, and may tear the log;    *)
(* if there is nothing to write it does neither.                           *)
LEMMA PartFollows ==
    ASSUME SafeFaults, IInv, NEW s \in Seq(Entry), PartWritten(s), torn = "no" \/ s = <<>>
    PROVE  /\ skipped' = 0 /\ torn' \in {"no", "line"}
           /\ s = <<>> => wal' = wal /\ torn' = torn
           /\ \E t \in Seq(Entry) :
                 /\ wal' = wal \o t
                 /\ \A i \in 1..Len(t) : \E j \in 1..Len(s) : t[i] = s[j]
<1>1. PICK n \in 0..Len(s) :
          \E tear \in {"no"} \cup (IF n < Len(s) THEN TornKinds ELSE {}) :
              Write(SubSeq(s, 1, n), tear)
    BY DEF PartWritten
<1>2. PICK tear \in {"no"} \cup (IF n < Len(s) THEN TornKinds ELSE {}) :
              Write(SubSeq(s, 1, n), tear)
    BY <1>1
<1> DEFINE t == SubSeq(s, 1, n)
<1>3. t \in Seq(Entry) /\ Len(t) = n /\ \A i \in 1..n : t[i] = s[i]
    BY Prefix
<1>4. Len(s) \in Nat /\ (s = <<>> => Len(s) = 0) /\ (Len(t) = 0 => t = <<>>)
    BY <1>3, LenProperties, EmptySeq
<1>5. tear \in {"no", "line"} /\ (s = <<>> => tear = "no" /\ t = <<>>)
    BY <1>2, <1>3, <1>4 DEF SafeFaults
<1>6. torn \in {"no", "line"} /\ skipped = 0 /\ wal \o <<>> = wal
    BY ConcatEmptySeq DEF IInv, FilesInv, TypeOK
<1>7. /\ wal' = wal \o t /\ skipped' = 0 /\ torn' \in {"no", "line"}
      /\ s = <<>> => wal' = wal /\ torn' = torn
    <2> HIDE DEF t
    <2>1. Write(t, tear)
        BY <1>2 DEF t
    <2>2. QED
        BY <1>5, <1>6, <2>1 DEF Write
<1>8. \A i \in 1..Len(t) : \E j \in 1..Len(s) : t[i] = s[j]
    BY <1>3, <1>4
<1>9. QED
    BY <1>3, <1>7, <1>8

(* Entries of unacknowledged writes, appended to the log, change the       *)
(* stable value of no acknowledged point.                                  *)
LEMMA AppendEntries ==
    ASSUME IInv, NEW s \in Seq(Entry), wal' = wal \o s,
           \A i \in 1..Len(s) : acked[s[i].id] = Unknown,
           UNCHANGED <<config, points>>
    PROVE  /\ \A id \in Ids : acked[id] # Unknown => Stable'[id] = Stable[id]
           /\ \A id \in Ids : Hits(wal', Len(wal'), id) = {} => Hits(wal, Len(wal), id) = {}
<1>1. wal' = wal \o s
    OBVIOUS
<1>2. wal \in Seq(Entry)
    BY DEF IInv, TypeOK
<1>3. ASSUME NEW id \in Ids, acked[id] # Unknown
      PROVE  Stable'[id] = Stable[id]
    <2>1. \A i \in 1..Len(s) : s[i].id # id
        BY <1>3
    <2>2. \A base : Overlay(base, wal \o s, Len(wal \o s))[id] = Overlay(base, wal, Len(wal))[id]
        BY <1>2, <2>1, OtherEntries
    <2>3. QED
        BY <1>1, <2>2 DEF Stable, PointsOnDisk
<1>4. ASSUME NEW id \in Ids, NEW i \in Hits(wal, Len(wal), id)
      PROVE  i \in Hits(wal', Len(wal'), id)
    <2>1. Len(wal') = Len(wal) + Len(s) /\ Len(wal) \in Nat /\ Len(s) \in Nat
        BY <1>1, <1>2, ConcatProperties, LenProperties
    <2>2. i \in 1..Len(wal) /\ wal'[i] = wal[i]
        BY <1>1, <1>2, ConcatProperties DEF Hits
    <2>3. QED
        BY <2>1, <2>2 DEF Hits
<1>5. QED
    BY <1>1, <1>3, <1>4

(* So after it the log, the files and the memory still agree. *)
LEMMA Appended ==
    ASSUME IInv, NEW s \in Seq(Entry), wal' = wal \o s,
           \A i \in 1..Len(s) : acked[s[i].id] = Unknown,
           UNCHANGED <<config, points, acked>>,
           open' => open /\ mem' = mem
    PROVE  AgreeInv' /\ AckedSurvives' /\ AckedVisible'
<1>1. AckedSurvives'
    BY AppendEntries DEF IInv, AckedSurvives
<1>2. AgreeInv'
    BY AppendEntries DEF IInv, AgreeInv, PointsOnDisk
<1>3. AckedVisible'
    BY DEF IInv, AckedVisible
<1>4. QED
    BY <1>1, <1>2, <1>3

-----------------------------------------------------------------------------
(* Starting and stopping *)

InvParts == ControlInv /\ FilesInv /\ WritesInv /\ AgreeInv /\ AckedSurvives /\ AckedVisible

LEMMA StartWithoutKeeps ==
    ASSUME SafeFaults, IInv, StartWithout, TypeOK'
    PROVE  InvParts'
<1>1. ~config
    BY DEF SafeFaults, IInv, FilesInv, StartWithout, Readable
<1>2. ControlInv' /\ FilesInv'
    BY <1>1 DEF IInv, ControlInv, FilesInv, StartWithout, Saving, SaveSteps, memory, files
<1>3. AgreeInv' /\ AckedSurvives' /\ AckedVisible'
    BY SameData DEF StartWithout, memory, files
<1>4. WritesInv'
    BY SameWrites DEF StartWithout, memory, files, Saving, SaveSteps, Stable, PointsOnDisk
<1>5. QED
    BY <1>2, <1>3, <1>4 DEF InvParts

LEMMA StartWithKeeps ==
    ASSUME SafeFaults, IInv, StartWith, TypeOK'
    PROVE  InvParts'
<1>1. /\ config /\ sum # "stale" /\ batch = <<>> /\ stuck = <<>>
      /\ logged = 0
    <2>1. config /\ sum # "stale" /\ batch = <<>> /\ stuck = <<>> /\ logged <= Len(batch)
        BY DEF IInv, ControlInv, StartWith, Readable
    <2>2. QED
        BY <2>1, Context, EmptySeq
<1>2. torn = "line" => LogCount > 0
    BY Context DEF LogCount, IInv, FilesInv
<1>3. ControlInv'
    <2>1. Len(batch') = 0 /\ logged' = 0
        BY <1>1, EmptySeq DEF StartWith
    <2>2. QED
        BY <1>1, <2>1 DEF ControlInv, StartWith, Saving, SaveSteps, files
<1>4. FilesInv'
    BY <1>1, <1>2 DEF IInv, FilesInv, StartWith, Saving, SaveSteps, files
<1>5. AckedSurvives' /\ AckedVisible'
    BY DEF IInv, AckedSurvives, AckedVisible, StartWith, files, Stable, PointsOnDisk
<1>6. AgreeInv'
    BY <1>1 DEF AgreeInv, StartWith, files, Stable, PointsOnDisk, Overlay
<1>7. WritesInv'
    <2>1. Len(stuck') = 0
        BY <1>1, EmptySeq DEF StartWith
    <2>2. QED
        BY <1>1, <2>1, NoCall DEF StartWith, TypeOK
<1>8. QED
    BY <1>3, <1>4, <1>5, <1>6, <1>7 DEF InvParts

(* Whatever ends the process: it remains to look at the files. *)
LEMMA StoppedKeeps ==
    ASSUME IInv, Stopped, TypeOK', AckedSurvives',
           ~config' => wal' = <<>> /\ torn' = "no" /\ points' = NoFile /\ acked' = EmptyMap,
           sum' # "stale", skipped' = 0, torn' \in {"no", "line"}
    PROVE  InvParts'
<1>1. Len(batch') = 0 /\ Len(stuck') = 0
    BY EmptySeq DEF Stopped
<1>2. ControlInv'
    BY <1>1 DEF ControlInv, Stopped, Saving, SaveSteps
<1>3. FilesInv'
    BY DEF FilesInv, Stopped, Saving, SaveSteps
<1>4. AgreeInv' /\ AckedVisible'
    BY DEF AgreeInv, AckedVisible, Stopped
<1>5. WritesInv'
    BY <1>1, NoCall DEF Stopped, TypeOK
<1>6. QED
    BY <1>2, <1>3, <1>4, <1>5 DEF InvParts

(* So it does with what was on its way to the log. *)
LEMMA StoppedWriting ==
    ASSUME SafeFaults, IInv, Stopped, TypeOK',
           NEW s \in Seq(Entry), PartWritten(s), torn = "no" \/ s = <<>>,
           \A i \in 1..Len(s) : acked[s[i].id] = Unknown, ~config => s = <<>>,
           UNCHANGED <<config, points, sum>>, sum # "stale"
    PROVE  InvParts'
<1>1. UNCHANGED acked
    BY DEF Stopped
<1>2. /\ skipped' = 0 /\ torn' \in {"no", "line"}
      /\ s = <<>> => wal' = wal /\ torn' = torn
    BY PartFollows
<1>3. PICK t \in Seq(Entry) :
          /\ wal' = wal \o t
          /\ \A i \in 1..Len(t) : \E j \in 1..Len(s) : t[i] = s[j]
    BY PartFollows
<1>4. \A i \in 1..Len(t) : acked[t[i].id] = Unknown
    BY <1>3
<1>5. AckedSurvives'
    BY <1>1, <1>3, <1>4, AppendEntries DEF IInv, AckedSurvives
<1>6. ~config' => wal' = <<>> /\ torn' = "no" /\ points' = NoFile /\ acked' = EmptyMap
    BY <1>1, <1>2 DEF IInv, FilesInv
<1>7. QED
    BY <1>2, <1>5, <1>6, StoppedKeeps

LEMMA ShutdownKeeps ==
    ASSUME SafeFaults, IInv, Shutdown, TypeOK'
    PROVE  InvParts'
<1>1. Stopped /\ PartWritten(stuck) /\ UNCHANGED <<config, points, sum>>
    BY DEF Shutdown, snapshot
<1>2. (torn = "no" \/ stuck = <<>>) /\ sum # "stale"
    BY DEF IInv, FilesInv, Shutdown
<1>3. stuck \in Seq(Entry) /\ \A i \in 1..Len(stuck) : acked[stuck[i].id] = Unknown
    BY DEF IInv, TypeOK, WritesInv
<1>4. ~config => stuck = <<>>
    BY DEF IInv, FilesInv, ControlInv, Shutdown
<1>5. QED
    BY <1>1, <1>2, <1>3, <1>4, StoppedWriting

-----------------------------------------------------------------------------
(* create_collection and delete_collection *)

LEMMA CreateKeeps ==
    ASSUME SafeFaults, IInv, Create, TypeOK'
    PROVE  InvParts'
<1>1. /\ wal = <<>> /\ skipped = 0 /\ torn = "no" /\ points = NoFile
      /\ batch = <<>> /\ stuck = <<>> /\ ~config /\ sum # "stale"
    BY DEF IInv, ControlInv, FilesInv, Create
<1>2. /\ pc' = "config" /\ why' = "create" /\ writer' = "open"
      /\ open' = TRUE /\ mem' = EmptyMap /\ acked' = EmptyMap
      /\ UNCHANGED <<stuck, batch, logged, config, points, sum, wal, skipped, torn>>
    BY <1>1 DEF Create, SafeFaults, files
<1>3. Len(batch) = 0 /\ Len(stuck) = 0 /\ logged = 0
    BY <1>1, Context, EmptySeq DEF IInv, ControlInv
<1>4. ControlInv'
    BY <1>1, <1>2, <1>3 DEF ControlInv, Saving, SaveSteps
<1>5. FilesInv'
    BY <1>1, <1>2 DEF FilesInv, Saving, SaveSteps, PointsOnDisk
<1>6. WritesInv'
    BY <1>1, <1>2, <1>3, NoCall DEF TypeOK
<1>7. AgreeInv' /\ AckedSurvives' /\ AckedVisible'
    BY <1>1, <1>2 DEF AgreeInv, AckedSurvives, AckedVisible, Stable, PointsOnDisk
<1>8. QED
    BY <1>4, <1>5, <1>6, <1>7 DEF InvParts

LEMMA DeleteKeeps ==
    ASSUME SafeFaults, IInv, Delete, TypeOK'
    PROVE  InvParts'
<1>1. /\ config /\ SoundLog /\ batch = <<>> /\ sum # "stale"
      /\ open /\ pc' = "drop"
      /\ UNCHANGED <<why, open, mem, ops, writer, stuck, batch, logged,
                     config, points, sum, wal, skipped, torn>>
    BY Context DEF IInv, ControlInv, Delete, Saving, SaveSteps, memory, files
<1>2. Len(batch) = 0 /\ logged = 0
    BY <1>1, Context, EmptySeq DEF IInv, ControlInv
<1>3. \A id \in Ids : acked'[id] = Unknown
    BY DEF Delete
<1>4. ControlInv' /\ FilesInv'
    BY <1>1, <1>2 DEF IInv, ControlInv, FilesInv, SoundLog, Saving, SaveSteps
<1>5. WritesInv'
    <2>1. \A i \in 1..Len(stuck') : stuck'[i].id \in Ids
        BY EntryId DEF TypeOK
    <2>2. QED
        BY <1>1, <1>2, <1>3, <2>1, NoCall DEF TypeOK
<1>6. AgreeInv' /\ AckedSurvives' /\ AckedVisible'
    BY <1>1, <1>3 DEF IInv, AgreeInv, AckedSurvives, AckedVisible, PointsOnDisk
<1>7. QED
    BY <1>4, <1>5, <1>6 DEF InvParts

LEMMA RemovedKeeps ==
    ASSUME SafeFaults, IInv, Removed, TypeOK'
    PROVE  InvParts'
<1>1. batch = <<>>
    BY DEF IInv, ControlInv, Removed
<1>2. Len(batch) = 0 /\ logged = 0
    BY <1>1, Context, EmptySeq DEF IInv, ControlInv
<1>3. ControlInv' /\ FilesInv'
    BY <1>1, <1>2 DEF ControlInv, FilesInv, Saving, SaveSteps, Removed, EmptyLog
<1>4. WritesInv'
    <2>1. Len(stuck') = 0
        BY EmptySeq DEF Removed
    <2>2. QED
        BY <1>1, <1>2, <2>1, NoCall DEF Removed, EmptyLog, TypeOK
<1>5. AgreeInv' /\ AckedSurvives' /\ AckedVisible'
    BY DEF AgreeInv, AckedSurvives, AckedVisible, Stable, Removed, EmptyLog
<1>6. QED
    BY <1>3, <1>4, <1>5 DEF InvParts

-----------------------------------------------------------------------------
(* upsert_points and delete_points: the log *)

LEMMA BeginKeeps ==
    ASSUME SafeFaults, IInv, NEW entries \in Seq(Entry), Begin(entries), TypeOK'
    PROVE  InvParts'
<1>1. /\ config /\ SoundLog /\ sum # "stale" /\ open
      /\ batch' = entries /\ logged' = 0
      /\ UNCHANGED <<why, open, mem, writer, stuck, config, points, sum, wal, skipped, torn>>
    BY Context DEF Begin, Saving, SaveSteps, memory, files
<1>2. \A id \in Ids : acked'[id] = IF \E i \in 1..Len(entries) : entries[i].id = id
                                   THEN Unknown ELSE acked[id]
    BY DEF Begin
<1>3. pc' = IF entries = <<>> THEN "apply" ELSE "log"
    BY DEF IInv, ControlInv, Begin
<1>4. Len(entries) \in Nat /\ (entries = <<>> <=> Len(entries) = 0)
    BY LenProperties, EmptySeq
<1>5. ControlInv' /\ FilesInv'
    BY <1>1, <1>3, <1>4 DEF IInv, ControlInv, FilesInv, SoundLog, Saving, SaveSteps
<1>6. WritesInv'
    <2>1. \A i \in 1..Len(batch') : acked'[batch'[i].id] = Unknown
        BY <1>1, <1>2, EntryId
    <2>2. \A i \in 1..Len(stuck') : acked'[stuck'[i].id] = Unknown
        <3>1. \A i \in 1..Len(stuck) : acked[stuck[i].id] = Unknown
            BY DEF IInv, WritesInv
        <3>2. \A i \in 1..Len(stuck) : stuck[i].id \in Ids
            BY EntryId DEF IInv, TypeOK
        <3>3. QED
            BY <1>1, <1>2, <3>1, <3>2
    <2>3. /\ logged' <= Len(wal')
          /\ \A i \in 1..logged' : wal'[Len(wal') - logged' + i] = batch'[i]
          /\ ~(logged' > 0)
        BY <1>1, Context
    <2>4. pc' # "done" /\ ~Saving("op")'
        BY <1>3 DEF Saving, SaveSteps
    <2>5. QED
        BY <2>1, <2>2, <2>3, <2>4 DEF WritesInv
<1>7. AgreeInv' /\ AckedSurvives' /\ AckedVisible'
    BY <1>1, <1>2 DEF IInv, AgreeInv, AckedSurvives, AckedVisible, Stable, PointsOnDisk
<1>8. QED
    BY <1>5, <1>6, <1>7 DEF InvParts

(* The entry about to be logged, behind those that are stuck. *)
LEMMA Logging ==
    ASSUME IInv, pc = "log"
    PROVE  LET s == stuck \o <<batch[logged + 1]>>
           IN  /\ writer = "open" => torn = "no"
               /\ SoundLog /\ config /\ open /\ sum # "stale"
               /\ s \in Seq(Entry)
               /\ Len(s) = Len(stuck) + 1 /\ s[Len(s)] = batch[logged + 1]
               /\ \A i \in 1..Len(s) : acked[s[i].id] = Unknown
<1> DEFINE e == batch[logged + 1]
           s == stuck \o <<e>>
<1>1. logged < Len(batch) /\ logged + 1 \in 1..Len(batch)
    BY Context DEF IInv, ControlInv
<1>2. TypeOK
    BY DEF IInv
<1>3. e \in Entry /\ s \in Seq(Entry)
    BY <1>1, <1>2, LoggingType
<1>4. /\ stuck \in Seq(Entry) /\ <<e>> \in Seq(Entry) /\ Len(<<e>>) = 1
      /\ Len(stuck) \in Nat /\ <<e>>[1] = e
    BY <1>2, <1>3, LenProperties DEF TypeOK
<1>5. /\ Len(s) = Len(stuck) + 1
      /\ \A i \in 1..Len(stuck) + 1 : s[i] = IF i <= Len(stuck) THEN stuck[i] ELSE e
    <2>1. /\ Len(s) = Len(stuck) + Len(<<e>>)
          /\ \A i \in 1..Len(stuck) + Len(<<e>>) :
                s[i] = IF i <= Len(stuck) THEN stuck[i] ELSE <<e>>[i - Len(stuck)]
        BY <1>4, ConcatProperties
    <2>2. \A i \in 1..Len(stuck) + 1 : ~(i <= Len(stuck)) => i - Len(stuck) = 1
        BY <1>4
    <2>3. QED
        BY <1>4, <2>1, <2>2
<1>6. /\ acked[e.id] = Unknown
      /\ \A i \in 1..Len(stuck) : acked[stuck[i].id] = Unknown
    BY <1>1 DEF IInv, WritesInv
<1>7. \A i \in 1..Len(s) : acked[s[i].id] = Unknown
    <2> HIDE DEF s, e
    <2> QED BY <1>4, <1>5, <1>6
<1>8. s[Len(s)] = e
    <2> HIDE DEF s, e
    <2> QED BY <1>4, <1>5
<1>9. /\ writer = "open" => torn = "no"
      /\ SoundLog /\ config /\ open /\ sum # "stale"
    BY Context DEF Saving, SaveSteps
<1>10. QED
    BY <1>3, <1>5, <1>7, <1>8, <1>9

LEMMA CrashKeeps ==
    ASSUME SafeFaults, IInv, Crash, TypeOK'
    PROVE  InvParts'
<1>1. Stopped /\ PartWritten(InFlight) /\ UNCHANGED <<config, points, sum>> /\ sum # "stale"
    BY DEF Crash, snapshot, SafeFaults, IInv, FilesInv
<1>2. CASE pc = "log" /\ writer = "open" /\ ops < Cap
    <2>1. InFlight = stuck \o <<batch[logged + 1]>>
        BY <1>2 DEF InFlight
    <2>2. QED
        BY <1>1, <1>2, <2>1, Logging, StoppedWriting
<1>3. CASE ~(pc = "log" /\ writer = "open" /\ ops < Cap)
    <2>1. stuck \in Seq(Entry) /\ \A i \in 1..Len(stuck) : acked[stuck[i].id] = Unknown
        BY DEF IInv, TypeOK, WritesInv
    <2>2. InFlight = stuck
        BY <1>3, <2>1, ConcatEmptySeq DEF InFlight
    <2>3. torn = "no" \/ stuck = <<>>
        BY DEF IInv, FilesInv
    <2>4. ~config => stuck = <<>>
        BY DEF IInv, FilesInv, ControlInv, Saving, SaveSteps
    <2>5. QED
        BY <1>1, <2>1, <2>2, <2>3, <2>4, StoppedWriting
<1>4. QED
    BY <1>2, <1>3

LEMMA LogEntryKeeps ==
    ASSUME SafeFaults, IInv, LogEntry, TypeOK'
    PROVE  InvParts'
<1> DEFINE e == batch[logged + 1]
           s == stuck \o <<e>>
<1>1. /\ torn = "no" /\ config /\ open /\ sum # "stale"
      /\ s \in Seq(Entry) /\ Len(s) = Len(stuck) + 1 /\ s[Len(s)] = e
      /\ \A i \in 1..Len(s) : acked[s[i].id] = Unknown
    BY Logging DEF LogEntry
<1>2. /\ Flush(s) /\ stuck' = <<>> /\ logged' = logged + 1
      /\ pc' = IF logged + 1 = Len(batch) THEN "apply" ELSE "log"
      /\ UNCHANGED <<why, open, mem, writer, batch, config, points, sum, acked>>
    BY DEF LogEntry, snapshot
<1>3. wal' = wal \o s /\ skipped' = 0 /\ torn' = "no"
    BY <1>1, <1>2, Flushed
<1>4. logged < Len(batch) /\ Len(batch) \in Nat /\ logged \in Nat
    BY Context DEF IInv, ControlInv, LogEntry
<1>5. ControlInv' /\ FilesInv'
    BY <1>1, <1>2, <1>3, <1>4 DEF IInv, ControlInv, FilesInv, Saving, SaveSteps
<1>6. AgreeInv' /\ AckedSurvives' /\ AckedVisible'
    BY <1>1, <1>2, <1>3, Appended
<1>7. WritesInv'
    <2>1. /\ Len(wal') = Len(wal) + Len(s) /\ Len(wal) \in Nat /\ Len(s) \in Nat
          /\ \A i \in 1..Len(wal) : wal'[i] = wal[i]
          /\ wal'[Len(wal')] = e
        <3>1. wal \in Seq(Entry) /\ Len(wal) \in Nat /\ Len(s) \in Nat /\ Len(s) > 0
            BY <1>1, Context DEF IInv, TypeOK
        <3>2. /\ Len(wal') = Len(wal) + Len(s)
              /\ \A i \in 1..Len(wal) + Len(s) :
                    wal'[i] = IF i <= Len(wal) THEN wal[i] ELSE s[i - Len(wal)]
            BY <1>1, <1>3, <3>1, ConcatProperties
        <3>3. Len(wal') - Len(wal) = Len(s)
            BY <3>1, <3>2
        <3>4. QED
            BY <1>1, <3>1, <3>2, <3>3
    <2>2. /\ logged <= Len(wal)
          /\ \A i \in 1..logged : wal[Len(wal) - logged + i] = batch[i]
          /\ logged > 0 => stuck = <<>>
        BY DEF IInv, WritesInv, LogEntry
    <2>3. logged' <= Len(wal')
        BY <1>1, <1>2, <2>1, <2>2, Context
    <2>4. ASSUME NEW i \in 1..logged'
          PROVE  wal'[Len(wal') - logged' + i] = batch'[i]
        <3>1. CASE i = logged + 1
            <4>1. Len(wal') - logged' + i = Len(wal')
                BY <1>2, <1>4, <2>1, <3>1
            <4>2. QED
                BY <1>2, <2>1, <3>1, <4>1
        <3>2. CASE i # logged + 1
            <4>1. i \in 1..logged /\ logged > 0
                BY <1>2, <1>4, <3>2
            <4>2. Len(wal') = Len(wal) + 1
                BY <1>1, <2>1, <2>2, <4>1, EmptySeq
            <4>3. Len(wal') - logged' + i = Len(wal) - logged + i
                BY <1>2, <1>4, <2>1, <4>1, <4>2
            <4>4. Len(wal) - logged + i \in 1..Len(wal)
                BY <1>4, <2>1, <2>2, <4>1
            <4>5. QED
                BY <1>2, <2>1, <2>2, <4>1, <4>3, <4>4
        <3>3. QED
            BY <3>1, <3>2
    <2>5. \A i \in 1..Len(batch') : acked'[batch'[i].id] = Unknown
        BY <1>2 DEF IInv, WritesInv
    <2>6. Len(stuck') = 0 /\ stuck' = <<>>
        BY <1>2, EmptySeq
    <2>7. pc' # "done" /\ ~Saving("op")'
        BY <1>2 DEF Saving, SaveSteps
    <2>8. \A i \in 1..Len(stuck') : acked'[stuck'[i].id] = Unknown
        BY <2>6
    <2>9. QED
        BY <2>3, <2>4, <2>5, <2>6, <2>7, <2>8 DEF WritesInv
<1>8. QED
    BY <1>5, <1>6, <1>7 DEF InvParts

(* A call that ends in an error before it reaches the memory. *)
LEMMA CallEnds ==
    ASSUME IInv, EndCall, open, config, sum # "stale",
           SoundLog', skipped' = 0, torn' \in {"no", "line"},
           writer' # "missing", UNCHANGED <<why, open, config, sum>>
    PROVE  ControlInv' /\ FilesInv'
<1>1. Len(batch') = 0
    BY EmptySeq DEF EndCall
<1>2. ControlInv'
    BY <1>1 DEF ControlInv, EndCall, Saving, SaveSteps
<1>3. FilesInv'
    BY DEF FilesInv, SoundLog, EndCall, Saving, SaveSteps
<1>4. QED
    BY <1>2, <1>3

LEMMA LogEntryFailsKeeps ==
    ASSUME SafeFaults, IInv, LogEntryFails, TypeOK'
    PROVE  InvParts'
<1> DEFINE s == stuck \o <<batch[logged + 1]>>
<1>1. /\ torn = "no" /\ config /\ open /\ sum # "stale"
      /\ s \in Seq(Entry)
      /\ \A i \in 1..Len(s) : acked[s[i].id] = Unknown
    BY Logging DEF LogEntryFails
<1>2. EndCall /\ UNCHANGED <<why, open, mem, writer, config, points, sum, acked>>
    BY DEF LogEntryFails, snapshot
<1>3. writer # "missing" /\ skipped = 0 /\ torn = "no"
    BY <1>1 DEF LogEntryFails, IInv, FilesInv
<1>4. stuck \in Seq(Entry) /\ \A i \in 1..Len(stuck) : acked[stuck[i].id] = Unknown
    BY DEF IInv, TypeOK, WritesInv
<1>5. CASE stuck' \in {stuck, s} /\ UNCHANGED logFile
    <2>1. WritesInv'
        BY <1>1, <1>2, <1>4, <1>5, NoCall DEF EndCall, TypeOK
    <2>2. AgreeInv' /\ AckedSurvives' /\ AckedVisible'
        BY <1>2, <1>5, SameData DEF logFile
    <2>3. ControlInv' /\ FilesInv'
        BY <1>1, <1>2, <1>3, <1>5, CallEnds DEF logFile, SoundLog
    <2>4. QED
        BY <2>1, <2>2, <2>3 DEF InvParts
<1>6. CASE (Flush(stuck) \/ Flush(s)) /\ stuck' = <<>>
    <2>1. PICK t \in {stuck, s} : Flush(t)
        BY <1>6
    <2>2. t \in Seq(Entry) /\ \A i \in 1..Len(t) : acked[t[i].id] = Unknown
        BY <1>1, <1>4
    <2>3. wal' = wal \o t /\ skipped' = 0 /\ torn' = "no"
        BY <1>3, <2>1, <2>2, Flushed
    <2>4. Len(stuck') = 0
        BY <1>6, EmptySeq
    <2>5. WritesInv'
        BY <1>2, <2>4, NoCall DEF EndCall, TypeOK
    <2>6. AgreeInv' /\ AckedSurvives' /\ AckedVisible'
        BY <1>2, <2>2, <2>3, Appended
    <2>7. ControlInv' /\ FilesInv'
        BY <1>1, <1>2, <1>3, <2>3, CallEnds DEF SoundLog
    <2>8. QED
        BY <2>5, <2>6, <2>7 DEF InvParts
<1>7. QED
    BY <1>5, <1>6 DEF LogEntryFails, SafeFaults

LEMMA LogEntryRefusedKeeps ==
    ASSUME SafeFaults, IInv, LogEntryRefused, TypeOK'
    PROVE  InvParts'
<1>1. /\ EndCall
      /\ UNCHANGED <<why, open, mem, writer, stuck, config, points, sum, wal, skipped, torn, acked>>
    BY DEF LogEntryRefused, memory, files
<1>2. SoundLog /\ skipped = 0 /\ torn \in {"no", "line"} /\ config /\ open /\ sum # "stale"
    BY Logging DEF LogEntryRefused, IInv, FilesInv
<1>3. WritesInv'
    BY <1>1, NoCall DEF IInv, WritesInv, EndCall, TypeOK
<1>4. AgreeInv' /\ AckedSurvives' /\ AckedVisible'
    BY <1>1, SameData
<1>5. writer # "missing"
    BY <1>2 DEF IInv, ControlInv
<1>6. QED
    BY <1>1, <1>2, <1>3, <1>4, <1>5, CallEnds DEF InvParts, SoundLog

-----------------------------------------------------------------------------
(* upsert_points and delete_points: the memory and the answer *)

(* The batch about to be applied is the end of the log. *)
LEMMA Applying ==
    ASSUME IInv, pc = "apply"
    PROVE  /\ SoundLog /\ config /\ open /\ sum # "stale" /\ logged = Len(batch)
           /\ \A id \in Ids : Hits(batch, Len(batch), id) # {} =>
                 /\ Hits(wal, Len(wal), id) # {}
                 /\ acked[id] = Unknown
                 /\ Stable[id] = batch[Last(Hits(batch, Len(batch), id))].val
<1>1. /\ SoundLog /\ config /\ open /\ sum # "stale" /\ logged = Len(batch)
    BY Context DEF IInv, ControlInv, Saving, SaveSteps
<1>2. ASSUME NEW id \in Ids, Hits(batch, Len(batch), id) # {}
      PROVE  /\ Hits(wal, Len(wal), id) # {}
             /\ wal[Last(Hits(wal, Len(wal), id))] = batch[Last(Hits(batch, Len(batch), id))]
    <2>1. wal \in Seq(Entry) /\ batch \in Seq(Entry)
        BY DEF IInv, TypeOK
    <2>2. /\ Len(batch) <= Len(wal)
          /\ \A i \in 1..Len(batch) : wal[Len(wal) - Len(batch) + i] = batch[i]
        BY <1>1 DEF IInv, WritesInv
    <2>3. QED
        BY <1>2, <2>1, <2>2, TailDecides
<1>3. ASSUME NEW id \in Ids, Hits(batch, Len(batch), id) # {}
      PROVE  acked[id] = Unknown
    <2>1. PICK i \in 1..Len(batch) : batch[i].id = id
        BY <1>3 DEF Hits
    <2>2. QED
        BY <2>1 DEF IInv, WritesInv
<1>4. QED
    BY <1>1, <1>2, <1>3 DEF Stable, Overlay

(* Applying any part of it leaves log, files and acknowledgements in       *)
(* agreement with the memory.                                              *)
LEMMA Applied ==
    ASSUME IInv, pc = "apply", NEW n \in 0..Len(batch), mem' = Overlay(mem, batch, n),
           UNCHANGED <<open, config, points, wal, acked>>
    PROVE  AgreeInv' /\ AckedSurvives' /\ AckedVisible'
<1>1. \A id : Hits(batch, n, id) \subseteq Hits(batch, Len(batch), id)
    BY Context DEF Hits
<1>2. \A id \in Ids : mem'[id] # mem[id] =>
          Hits(wal, Len(wal), id) # {} /\ acked[id] = Unknown
    BY <1>1, Applying DEF Overlay
<1>3. QED
    BY <1>2 DEF IInv, AgreeInv, AckedSurvives, AckedVisible, Stable, PointsOnDisk

(* After all of it, the batch is both visible and stable. *)
LEMMA AllApplied ==
    ASSUME SafeFaults, IInv, pc = "apply", TypeOK', mem' = Overlay(mem, batch, Len(batch)),
           UNCHANGED <<batch, logged, open, writer, stuck, config, points, sum, wal, skipped, torn, acked>>,
           \/ pc' = "done" /\ UNCHANGED why
           \/ pc' = "config" /\ why' = "op"
    PROVE  InvParts'
<1>1. /\ SoundLog /\ config /\ open /\ sum # "stale" /\ logged = Len(batch)
    BY Applying
<1>2. ControlInv' /\ FilesInv'
    BY <1>1 DEF IInv, ControlInv, FilesInv, SoundLog, Saving, SaveSteps
<1>3. AgreeInv' /\ AckedSurvives' /\ AckedVisible'
    BY Context, Applied
<1>4. \A id \in Ids : Hits(batch', Len(batch'), id) # {} =>
          LET v == batch'[Last(Hits(batch', Len(batch'), id))].val
          IN  mem'[id] = v /\ Stable'[id] = v
    BY Applying DEF Overlay, Stable, PointsOnDisk
<1>5. pc' \notin {"log", "apply"}
    OBVIOUS
<1>6. WritesInv'
    BY <1>4, <1>5 DEF IInv, WritesInv
<1>7. QED
    BY <1>2, <1>3, <1>6 DEF InvParts

LEMMA ApplyUpsertKeeps ==
    ASSUME SafeFaults, IInv, ApplyUpsert, TypeOK'
    PROVE  InvParts'
<1>1. PICK n \in Accepted :
          /\ mem' = Overlay(mem, batch, n)
          /\ IF n = Len(batch)
             THEN NextAfterApply /\ UNCHANGED <<batch, logged>>
             ELSE EndCall /\ UNCHANGED why
    BY DEF ApplyUpsert
<1>2. pc = "apply" /\ n \in 0..Len(batch)
    BY DEF ApplyUpsert, Accepted
<1>3. UNCHANGED <<open, writer, stuck, config, points, sum, wal, skipped, torn, acked>>
    BY DEF ApplyUpsert, files
<1>4. CASE n = Len(batch)
    <2>1. /\ UNCHANGED <<batch, logged>>
          /\ \/ pc' = "done" /\ UNCHANGED why
             \/ pc' = "config" /\ why' = "op"
        BY <1>1, <1>4 DEF NextAfterApply
    <2>2. QED
        BY <1>1, <1>2, <1>3, <1>4, <2>1, AllApplied
<1>5. CASE n # Len(batch)
    <2>1. EndCall /\ UNCHANGED why
        BY <1>1, <1>5
    <2>2. SoundLog /\ skipped = 0 /\ torn \in {"no", "line"} /\ config /\ open /\ sum # "stale"
        BY <1>2, Applying DEF IInv, FilesInv
    <2>3. ControlInv' /\ FilesInv'
        <3>1. writer # "missing"
            BY <2>2 DEF IInv, ControlInv
        <3>2. QED
            BY <1>3, <2>1, <2>2, <3>1, CallEnds DEF SoundLog
    <2>4. WritesInv'
        BY <1>3, <2>1, NoCall DEF IInv, WritesInv, EndCall, TypeOK
    <2>5. AgreeInv' /\ AckedSurvives' /\ AckedVisible'
        BY <1>1, <1>2, <1>3, Applied
    <2>6. QED
        BY <2>3, <2>4, <2>5 DEF InvParts
<1>6. QED
    BY <1>4, <1>5

LEMMA ApplyDeleteKeeps ==
    ASSUME SafeFaults, IInv, ApplyDelete, TypeOK'
    PROVE  InvParts'
<1>1. \/ pc' = "done" /\ UNCHANGED why
      \/ pc' = "config" /\ why' = "op"
    BY DEF ApplyDelete, NextAfterApply
<1>2. /\ pc = "apply" /\ mem' = Overlay(mem, batch, Len(batch))
      /\ UNCHANGED <<batch, logged, open, writer, stuck, config, points, sum, wal, skipped, torn, acked>>
    BY DEF ApplyDelete, files
<1>3. QED
    BY <1>1, <1>2, AllApplied

LEMMA ReplyKeeps ==
    ASSUME SafeFaults, IInv, Reply, TypeOK'
    PROVE  InvParts'
<1>1. /\ EndCall /\ acked' = Overlay(acked, batch, Len(batch))
      /\ UNCHANGED <<why, open, mem, writer, stuck, config, points, sum, wal, skipped, torn>>
    BY DEF Reply, memory, files
<1>2. /\ SoundLog /\ skipped = 0 /\ torn \in {"no", "line"}
      /\ config /\ open /\ sum # "stale" /\ logged = Len(batch)
    BY Context DEF Reply, IInv, ControlInv, FilesInv, Saving, SaveSteps
<1>3. ControlInv' /\ FilesInv'
    <2>1. writer # "missing"
        BY <1>2 DEF IInv, ControlInv
    <2>2. QED
        BY <1>1, <1>2, <2>1, CallEnds DEF SoundLog
<1>4. ASSUME NEW id \in Ids
      PROVE  \/ Hits(batch, Len(batch), id) = {} /\ acked'[id] = acked[id]
             \/ acked'[id] = mem[id] /\ acked'[id] = Stable[id]
    BY <1>1 DEF Overlay, IInv, WritesInv, Reply
<1>5. AgreeInv' /\ AckedSurvives' /\ AckedVisible'
    BY <1>1, <1>4 DEF IInv, AgreeInv, AckedSurvives, AckedVisible, Stable, PointsOnDisk
<1>6. WritesInv'
    <2>1. ASSUME NEW i \in 1..Len(stuck)
          PROVE  acked'[stuck[i].id] = Unknown
        <3>1. Len(stuck) # 0 /\ stuck # <<>>
            BY <2>1, Context, EmptySeq
        <3>2. Len(batch) = 0
            BY <1>2, <3>1, Context DEF IInv, WritesInv
        <3>3. stuck[i].id \in Ids /\ acked[stuck[i].id] = Unknown
            BY EntryId DEF IInv, TypeOK, WritesInv
        <3>4. Hits(batch, Len(batch), stuck[i].id) = {}
            BY <3>2 DEF Hits
        <3>5. QED
            BY <1>1, <3>3, <3>4 DEF Overlay
    <2>2. QED
        BY <1>1, <2>1, NoCall DEF EndCall, TypeOK
<1>7. QED
    BY <1>3, <1>5, <1>6 DEF InvParts

-----------------------------------------------------------------------------
(* Snapshots and truncation *)

LEMMA SaveConfigKeeps ==
    ASSUME SafeFaults, IInv, SaveConfig, TypeOK'
    PROVE  InvParts'
<1>1. /\ pc' = "points" /\ config' = TRUE
      /\ UNCHANGED <<why, open, mem, writer, stuck, batch, logged, points, sum, wal, skipped, torn, acked>>
    BY DEF SaveConfig, memory, logFile
<1>2. Stable' = Stable
    <2>1. CASE config
        BY <1>1, <2>1 DEF Stable, PointsOnDisk
    <2>2. CASE ~config
        <3>1. wal = <<>> /\ points = NoFile
            BY <2>2 DEF IInv, FilesInv
        <3>2. Overlay(EmptyMap, <<>>, Len(<<>>)) = EmptyMap
            BY TypeBase, EmptyOverlay
        <3>3. QED
            BY <1>1, <2>2, <3>1, <3>2 DEF Stable, PointsOnDisk
    <2>3. QED
        BY <2>1, <2>2
<1>3. ControlInv' /\ FilesInv'
    BY <1>1, Context DEF IInv, ControlInv, FilesInv, Saving, SaveSteps, SaveConfig, PointsOnDisk
<1>4. AgreeInv' /\ AckedSurvives' /\ AckedVisible'
    BY <1>1, <1>2 DEF IInv, AgreeInv, AckedSurvives, AckedVisible, PointsOnDisk
<1>5. WritesInv'
    BY <1>1, <1>2, SameWrites DEF Saving, SaveSteps, SaveConfig
<1>6. QED
    BY <1>3, <1>4, <1>5 DEF InvParts

LEMMA SavePointsKeeps ==
    ASSUME SafeFaults, IInv, SavePoints, TypeOK'
    PROVE  InvParts'
<1> USE CollectionStoreAssumption
<1>1. /\ pc = "points" /\ pc' = "checksum" /\ points' = mem
      /\ UNCHANGED <<why, open, mem, writer, stuck, batch, logged, config, wal, skipped, torn, acked>>
    BY DEF SavePoints, memory, logFile
<1>2. open /\ config
    BY <1>1, Context
<1>3. PointsOnDisk' = mem
    BY <1>1, Context DEF PointsOnDisk
<1>4. \A id \in Ids : Stable'[id] = Stable[id]
    BY <1>1, <1>2, <1>3 DEF Stable, Overlay, IInv, AgreeInv
<1>5. ControlInv' /\ FilesInv'
    BY <1>1, <1>2, <1>3 DEF IInv, ControlInv, FilesInv, Saving, SaveSteps
<1>6. AgreeInv' /\ AckedSurvives' /\ AckedVisible'
    BY <1>1, <1>3, <1>4 DEF IInv, AgreeInv, AckedSurvives, AckedVisible
<1>7. WritesInv'
    BY <1>1, <1>4, SameWrites DEF Saving, SaveSteps
<1>8. QED
    BY <1>5, <1>6, <1>7 DEF InvParts

LEMMA SaveChecksumKeeps ==
    ASSUME SafeFaults, IInv, SaveChecksum, TypeOK'
    PROVE  InvParts'
<1>1. /\ pc = "checksum" /\ pc' = "index" /\ sum' = "match"
      /\ UNCHANGED <<why, open, mem, writer, stuck, batch, logged, config, points, wal, skipped, torn, acked>>
    BY DEF SaveChecksum, memory, logFile
<1>2. ControlInv' /\ FilesInv'
    BY <1>1 DEF IInv, ControlInv, FilesInv, Saving, SaveSteps, PointsOnDisk
<1>3. AgreeInv' /\ AckedSurvives' /\ AckedVisible'
    BY <1>1, SameData
<1>4. WritesInv'
    BY <1>1, SameWrites DEF Saving, SaveSteps, Stable, PointsOnDisk
<1>5. QED
    BY <1>2, <1>3, <1>4 DEF InvParts

LEMMA SaveIndexKeeps ==
    ASSUME SafeFaults, IInv, SaveIndex, TypeOK'
    PROVE  InvParts'
<1>1. /\ pc = "index" /\ pc' = IF why = "create" THEN "idle" ELSE "truncate"
      /\ UNCHANGED <<why, open, mem, writer, stuck, batch, logged,
                     config, points, sum, wal, skipped, torn, acked>>
    BY DEF SaveIndex, memory, files
<1>2. ControlInv' /\ FilesInv'
    BY <1>1 DEF IInv, ControlInv, FilesInv, Saving, SaveSteps, PointsOnDisk
<1>3. AgreeInv' /\ AckedSurvives' /\ AckedVisible'
    BY <1>1, SameData
<1>4. WritesInv'
    BY <1>1, SameWrites DEF Saving, SaveSteps, Stable, PointsOnDisk
<1>5. QED
    BY <1>2, <1>3, <1>4 DEF InvParts

(* The log may go: the snapshot holds the memory. *)
LEMMA Truncated ==
    ASSUME IInv, pc = "truncate", wal' = <<>>,
           UNCHANGED <<mem, config, points, acked>>, open' => open
    PROVE  /\ \A id \in Ids : Stable'[id] = mem[id]
           /\ AgreeInv' /\ AckedSurvives' /\ AckedVisible'
<1> USE CollectionStoreAssumption
<1>1. open /\ config /\ points = mem /\ mem \in Maps
    BY Context DEF IInv, FilesInv
<1>2. PointsOnDisk' = mem
    BY <1>1 DEF PointsOnDisk
<1>3. Stable' = mem
    BY <1>1, <1>2, EmptyOverlay DEF Stable
<1>4. QED
    BY <1>1, <1>2, <1>3 DEF IInv, AgreeInv, AckedSurvives, AckedVisible

LEMMA TruncateKeeps ==
    ASSUME SafeFaults, IInv, Truncate, TypeOK'
    PROVE  InvParts'
<1>1. /\ pc = "truncate" /\ wal' = <<>> /\ skipped' = 0 /\ torn' = "no"
      /\ writer' = "open" /\ stuck' = <<>>
      /\ pc' = IF why = "op" THEN "done" ELSE "idle"
      /\ UNCHANGED <<why, open, mem, batch, logged, config, points, sum, acked>>
    BY DEF Truncate, EmptyLog, snapshot
<1>2. open /\ config /\ sum # "stale"
    BY <1>1, Context
<1>3. ControlInv' /\ FilesInv'
    BY <1>1, <1>2 DEF IInv, ControlInv, FilesInv, Saving, SaveSteps
<1>4. (\A id \in Ids : Stable'[id] = mem[id]) /\ AgreeInv' /\ AckedSurvives' /\ AckedVisible'
    BY <1>1, Truncated
<1>5. Len(stuck') = 0
    BY <1>1, EmptySeq
<1>6. WritesInv'
    <2>1. \A i \in 1..Len(batch') : acked'[batch'[i].id] = Unknown
        BY <1>1 DEF IInv, WritesInv
    <2>2. pc' = "done" \/ Saving("op")' => Saving("op")
        BY <1>1 DEF Saving, SaveSteps
    <2>3. Saving("op") =>
              \A id \in Ids : Hits(batch', Len(batch'), id) # {} =>
                 LET v == batch'[Last(Hits(batch', Len(batch'), id))].val
                 IN  mem'[id] = v /\ Stable'[id] = v
        BY <1>1, <1>4 DEF IInv, WritesInv
    <2>4. pc' \notin {"log", "apply"}
        BY <1>1
    <2>5. QED
        BY <1>1, <1>5, <2>1, <2>2, <2>3, <2>4 DEF WritesInv
<1>7. QED
    BY <1>3, <1>4, <1>6 DEF InvParts

LEMMA SaveFailsKeeps ==
    ASSUME SafeFaults, IInv, SaveFails, TypeOK'
    PROVE  InvParts'
<1>1. /\ pc \in SaveSteps /\ pc # "checksum" /\ why # "create"
      /\ UNCHANGED <<config, points, sum>>
    BY DEF SaveFails, SafeFaults, snapshot
<1>2. open /\ config /\ sum # "stale" /\ writer # "missing"
    BY <1>1, Context DEF SaveSteps, IInv, ControlInv
<1>3. /\ torn \in {"no", "line"} /\ skipped = 0 /\ (torn = "no" \/ stuck = <<>>)
      /\ stuck \in Seq(Entry) /\ \A i \in 1..Len(stuck) : acked[stuck[i].id] = Unknown
    BY DEF IInv, FilesInv, WritesInv, TypeOK
<1>4. CASE why = "recover"
    <2>1. Stopped /\ stuck = <<>>
        BY <1>1, <1>4 DEF SaveFails, IInv, ControlInv
    <2>2. UNCHANGED acked
        BY <2>1 DEF Stopped
    <2>3. CASE UNCHANGED <<wal, skipped, torn>>
        <3>1. AckedSurvives'
            BY <1>1, <2>2, <2>3 DEF IInv, AckedSurvives, Stable, PointsOnDisk
        <3>2. QED
            BY <1>1, <1>2, <1>3, <2>1, <2>3, <3>1, StoppedKeeps
    <2>4. CASE PartWritten(stuck)
        BY <1>1, <1>2, <1>3, <2>1, <2>4, StoppedWriting
    <2>5. CASE pc = "truncate" /\ EmptyLog
        <3>1. AckedSurvives'
            <4>1. config /\ points = mem /\ open
                BY <1>2, <2>5 DEF IInv, FilesInv
            <4>2. PointsOnDisk' = mem
                BY <1>1, <4>1, Context, CollectionStoreAssumption DEF PointsOnDisk
            <4>3. Stable' = mem
                BY <1>1, <2>5, <4>1, <4>2, Context, EmptyOverlay DEF Stable, EmptyLog
            <4>4. QED
                BY <2>2, <4>1, <4>3 DEF IInv, AckedSurvives, AckedVisible
        <3>2. QED
            BY <1>1, <1>2, <2>1, <2>5, <3>1, StoppedKeeps DEF EmptyLog
    <2>6. QED
        BY <2>3, <2>4, <2>5 DEF SaveFails, logFile
<1>5. CASE why = "op"
    <2>1. EndCall /\ UNCHANGED <<why, open, mem, acked>>
        BY <1>5 DEF SaveFails
    <2>2. CASE pc # "truncate"
        <3>1. UNCHANGED <<writer, stuck, wal, skipped, torn>>
            BY <1>5, <2>2 DEF SaveFails, logFile
        <3>2. SoundLog
            BY <1>1, <1>5, Context DEF Saving, SaveSteps
        <3>3. ControlInv' /\ FilesInv'
            BY <1>1, <1>2, <1>3, <2>1, <3>1, <3>2, CallEnds DEF SoundLog
        <3>4. WritesInv'
            BY <1>3, <2>1, <3>1, NoCall DEF EndCall, TypeOK
        <3>5. AgreeInv' /\ AckedSurvives' /\ AckedVisible'
            BY <1>1, <2>1, <3>1, SameData
        <3>6. QED
            BY <3>3, <3>4, <3>5 DEF InvParts
    <2>3. CASE pc = "truncate"
        <3>1. /\ writer' = "closed" /\ stuck' = <<>>
              /\ PartWritten(stuck) \/ EmptyLog
            BY <1>5, <2>3 DEF SaveFails
        <3>2. skipped' = 0 /\ torn' \in {"no", "line"}
            BY <1>3, <3>1, PartFollows DEF EmptyLog
        <3>3. ControlInv' /\ FilesInv'
            BY <1>1, <1>2, <2>1, <3>1, <3>2, CallEnds DEF SoundLog
        <3>4. WritesInv'
            <4>1. Len(stuck') = 0
                BY <3>1, EmptySeq
            <4>2. QED
                BY <2>1, <4>1, NoCall DEF EndCall, TypeOK
        <3>5. AgreeInv' /\ AckedSurvives' /\ AckedVisible'
            <4>1. CASE PartWritten(stuck)
                <5>1. PICK t \in Seq(Entry) :
                          /\ wal' = wal \o t
                          /\ \A i \in 1..Len(t) : \E j \in 1..Len(stuck) : t[i] = stuck[j]
                    BY <1>3, <4>1, PartFollows
                <5>2. \A i \in 1..Len(t) : acked[t[i].id] = Unknown
                    BY <1>3, <5>1
                <5>3. QED
                    BY <1>1, <2>1, <5>1, <5>2, Appended
            <4>2. CASE EmptyLog
                BY <1>1, <2>1, <2>3, <4>2, Truncated DEF EmptyLog
            <4>3. QED
                BY <3>1, <4>1, <4>2
        <3>6. QED
            BY <3>3, <3>4, <3>5 DEF InvParts
    <2>4. QED
        BY <2>2, <2>3
<1>6. QED
    BY <1>1, <1>4, <1>5 DEF IInv, TypeOK

-----------------------------------------------------------------------------
(* The invariant *)

LEMMA InvInit == Init => IInv
<1> SUFFICES ASSUME Init PROVE IInv
    OBVIOUS
<1>1. TypeOK
    BY TypeInit DEF TypeInv
<1>2. Len(<<>>) = 0
    BY EmptySeq
<1>3. ControlInv /\ FilesInv
    BY <1>2 DEF Init, ControlInv, FilesInv, Saving, SaveSteps
<1>4. WritesInv
    BY <1>2 DEF Init, WritesInv, Saving, SaveSteps
<1>5. AgreeInv /\ AckedSurvives /\ AckedVisible
    BY DEF Init, AgreeInv, AckedSurvives, AckedVisible, Stable
<1>6. QED
    BY <1>1, <1>3, <1>4, <1>5 DEF IInv

LEMMA InvStep == ASSUME SafeFaults PROVE IInv /\ [Next]_vars => IInv'
<1> SUFFICES ASSUME IInv, [Next]_vars PROVE IInv'
    OBVIOUS
<1>1. TypeOK'
    <2>1. TypeInv
        BY DEF IInv, ControlInv, TypeInv
    <2>2. QED
        BY <2>1, TypeStep DEF TypeInv
<1>2. InvParts'
    <2>1. CASE StartWithout \/ StartWith \/ Crash \/ Shutdown
        BY <1>1, <2>1, StartWithoutKeeps, StartWithKeeps, CrashKeeps, ShutdownKeeps
    <2>2. CASE CrashInDrop
        BY <2>2 DEF CrashInDrop, SafeFaults
    <2>3. CASE Create \/ Delete \/ Removed
        BY <1>1, <2>3, CreateKeeps, DeleteKeeps, RemovedKeeps
    <2>4. CASE BeginUpsert \/ BeginDelete
        BY <1>1, <2>4, BeginsBatch, BeginKeeps
    <2>5. CASE LogEntry \/ LogEntryFails \/ LogEntryRefused
        BY <1>1, <2>5, LogEntryKeeps, LogEntryFailsKeeps, LogEntryRefusedKeeps
    <2>6. CASE ApplyUpsert \/ ApplyDelete \/ Reply
        BY <1>1, <2>6, ApplyUpsertKeeps, ApplyDeleteKeeps, ReplyKeeps
    <2>7. CASE SaveConfig \/ SavePoints \/ SaveChecksum \/ SaveIndex
        BY <1>1, <2>7, SaveConfigKeeps, SavePointsKeeps, SaveChecksumKeeps, SaveIndexKeeps
    <2>8. CASE Truncate \/ SaveFails
        BY <1>1, <2>8, TruncateKeeps, SaveFailsKeeps
    <2>9. CASE UNCHANGED vars
        <3>1. ControlInv' /\ FilesInv' /\ AgreeInv' /\ AckedSurvives' /\ AckedVisible'
            BY <2>9 DEF vars, memory, files, IInv, ControlInv, FilesInv, AgreeInv,
                        AckedSurvives, AckedVisible, Stable, PointsOnDisk, Saving
        <3>2. WritesInv'
            BY <2>9, SameWrites DEF vars, memory, files, Saving, Stable, PointsOnDisk
        <3>3. QED
            BY <3>1, <3>2 DEF InvParts
    <2>10. QED
        BY <2>1, <2>2, <2>3, <2>4, <2>5, <2>6, <2>7, <2>8, <2>9 DEF Next
<1>3. QED
    BY <1>1, <1>2 DEF IInv, InvParts

(* The invariant of the runs holds of every instance under SafeFaults. *)
THEOREM Invariance == ASSUME SafeFaults PROVE Spec => []IInv
BY InvInit, InvStep, PTL DEF Spec

(* Under SafeFaults, which no partly written append is among, a restart    *)
(* from the files at any moment gives each point the value last            *)
(* acknowledged.                                                           *)
THEOREM Survival == ASSUME SafeFaults PROVE Spec => []AckedSurvives
<1>1. IInv => AckedSurvives
    BY DEF IInv
<1>2. QED
    BY <1>1, Invariance, PTL

(* Under SafeFaults a point reads back as it was last acknowledged. *)
THEOREM Visibility == ASSUME SafeFaults PROVE Spec => []AckedVisible
<1>1. IInv => AckedVisible
    BY DEF IInv
<1>2. QED
    BY <1>1, Invariance, PTL

(* Whenever the process dies but between the renames of the points and of  *)
(* their checksum (SafeFaults), the files it leaves can be loaded.         *)
THEOREM Startable == ASSUME SafeFaults PROVE Spec => []StartsReadable
<1>1. IInv => StartsReadable
    BY DEF IInv, FilesInv, StartsReadable, Readable
<1>2. QED
    BY <1>1, Invariance, PTL

-----------------------------------------------------------------------------
(* Write-ahead logging *)

LEMMA WritesAhead ==
    ASSUME IInv, pc = "apply", NEW n \in 0..Len(batch), mem' = Overlay(mem, batch, n),
           NEW id \in Ids, mem'[id] # mem[id]
    PROVE  \E i \in 1..Len(wal) : wal[i] = [id |-> id, val |-> mem'[id]]
<1> DEFINE l == Last(Hits(batch, n, id))
           k == Len(wal) - Len(batch) + l
<1>1. mem'[id] = batch[l].val /\ Hits(batch, n, id) # {}
    BY DEF Overlay
<1>2. batch \in Seq(Entry)
    BY DEF IInv, TypeOK
<1>3. l \in 1..n /\ l \in Hits(batch, n, id) /\ batch[l] \in Entry
    BY <1>1, <1>2, LastHit
<1>4. batch[l] = [id |-> id, val |-> mem'[id]]
    BY <1>1, <1>3 DEF Hits, Entry
<1>5. logged = Len(batch) /\ Len(batch) \in Nat /\ Len(wal) \in Nat
    BY Applying, Context
<1>6. Len(batch) <= Len(wal) /\ wal[k] = batch[l]
    BY <1>3, <1>5 DEF IInv, WritesInv
<1>7. k \in 1..Len(wal)
    BY <1>3, <1>5, <1>6
<1>8. QED
    BY <1>4, <1>6, <1>7

LEMMA WriteAheadStep ==
    ASSUME SafeFaults, IInv, [Next]_vars, open, open', NEW id \in Ids, mem'[id] # mem[id]
    PROVE  \E i \in 1..Len(wal) : wal[i] = [id |-> id, val |-> mem'[id]]
<1>1. CASE ApplyUpsert
    <2>1. PICK n \in Accepted : mem' = Overlay(mem, batch, n)
        BY <1>1 DEF ApplyUpsert
    <2>2. pc = "apply" /\ n \in 0..Len(batch)
        BY <1>1 DEF ApplyUpsert, Accepted
    <2>3. QED
        BY <2>1, <2>2, WritesAhead
<1>2. CASE ApplyDelete
    <2>1. pc = "apply" /\ mem' = Overlay(mem, batch, Len(batch)) /\ Len(batch) \in 0..Len(batch)
        BY <1>2, Context DEF ApplyDelete
    <2>2. QED
        BY <2>1, WritesAhead
<1>3. CASE StartWith \/ Create
    BY <1>3, Context DEF StartWith, Create, IInv, ControlInv
<1>4. CASE Crash \/ CrashInDrop \/ Shutdown \/ Removed
    BY <1>4 DEF Crash, CrashInDrop, Shutdown, Stopped, Removed
<1>5. CASE BeginUpsert \/ BeginDelete
    BY <1>5, BeginsBatch DEF Begin, memory
<1>6. CASE SaveFails
    BY <1>6 DEF SaveFails, Stopped
<1>7. CASE \/ StartWithout \/ Delete
           \/ LogEntry \/ LogEntryFails \/ LogEntryRefused \/ Reply
           \/ SaveConfig \/ SavePoints \/ SaveChecksum \/ SaveIndex \/ Truncate
           \/ UNCHANGED vars
    BY <1>7 DEF StartWithout, Delete, LogEntry, LogEntryFails, LogEntryRefused, Reply,
       SaveConfig, SavePoints, SaveChecksum, SaveIndex, Truncate, vars, memory
<1>8. QED
    BY <1>1, <1>2, <1>3, <1>4, <1>5, <1>6, <1>7 DEF Next

(* Under SafeFaults no value becomes visible that is not in the log. *)
THEOREM WritesAreAhead == ASSUME SafeFaults PROVE Spec => WriteAhead
<1> DEFINE A == open /\ open' => \A id \in Ids :
                   mem'[id] # mem[id] =>
                      \E i \in 1..Len(wal) : wal[i] = [id |-> id, val |-> mem'[id]]
<1>1. IInv /\ [Next]_vars => [A]_vars
    BY WriteAheadStep
<1>2. WriteAhead <=> [][A]_vars
    BY DEF WriteAhead
<1>3. QED
    <2> HIDE DEF A
    <2> QED BY <1>1, <1>2, Invariance, PTL DEF Spec

-----------------------------------------------------------------------------
(* The abstract map *)

LEMMA Mapped ==
    ASSUME IInv
    PROVE  /\ mem \in Promise!Maps /\ Stable \in Promise!Maps
           /\ (IF open THEN mem ELSE Down) # Down <=> open
           /\ \A id \in Ids \ Promise!Open : acked[id] # Unknown
<1> USE RefinementAssumption
<1>1. Promise!Maps = Maps
    BY DEF Promise!Maps, Maps, PointOrNone
<1>2. mem \in Maps /\ Stable \in Maps
    BY Context, StableType DEF IInv
<1>3. QED
    BY <1>1, <1>2 DEF Promise!Open

(* The same after a step. *)
AreMaps == mem \in Promise!Maps /\ Stable \in Promise!Maps

LEMMA MappedNext == IInv' => AreMaps'
<1>1. IInv => AreMaps
    BY Mapped DEF AreMaps
<1>2. QED
    BY <1>1, PTL

LEMMA Persists ==
    ASSUME IInv, IInv', open, UNCHANGED <<open, mem, acked>>
    PROVE  Promise!Persist
<1>1. Stable' \in Promise!Maps
    BY MappedNext DEF AreMaps, Promise!Maps
<1>2. \A id \in Ids \ Promise!Open : Stable'[id] = Stable[id]
    BY Mapped DEF IInv, AckedSurvives
<1>3. QED
    BY <1>1, <1>2, Mapped DEF Promise!Persist, Promise!Serving, Promise!SameButOpen

LEMMA Shows ==
    ASSUME IInv, IInv', open, UNCHANGED <<open, config, points, wal, acked>>
    PROVE  Promise!Show
<1>1. mem' \in Promise!Maps
    BY MappedNext DEF AreMaps, Promise!Maps
<1>2. \A id \in Ids \ Promise!Open : mem'[id] = mem[id]
    BY Mapped DEF IInv, AckedVisible
<1>3. Stable' = Stable
    BY DEF Stable, PointsOnDisk
<1>4. QED
    BY <1>1, <1>2, <1>3, Mapped DEF Promise!Show, Promise!Serving, Promise!SameButOpen

LEMMA Stops ==
    ASSUME IInv, IInv', ~open', UNCHANGED acked
    PROVE  Promise!Stop
<1>1. Stable' \in Promise!Maps
    BY MappedNext DEF AreMaps, Promise!Maps
<1>2. \A id \in Ids \ Promise!Open : Stable'[id] = Stable[id]
    BY Mapped DEF IInv, AckedSurvives
<1>3. QED
    BY <1>1, <1>2 DEF Promise!Stop, Promise!SameButOpen

LEMMA PromiseInit == Init => Promise!Init
BY DEF Init, Stable, Promise!Init, EmptyMap, Promise!EmptyMap

LEMMA PromiseStep ==
    ASSUME SafeFaults, IInv, IInv', [Next]_vars
    PROVE  [Promise!Next]_(Promise!vars)
<1>1. CASE StartWithout \/ LogEntryRefused \/ UNCHANGED vars
    BY <1>1 DEF StartWithout, LogEntryRefused, vars, memory, files, Stable, PointsOnDisk,
       Promise!vars
<1>2. CASE StartWith
    <2>1. /\ ~open /\ open' /\ mem' = Stable /\ Stable' = Stable /\ UNCHANGED acked
        BY <1>2 DEF StartWith, files, IInv, ControlInv, Stable, PointsOnDisk
    <2>2. QED
        BY <2>1 DEF Promise!Start, Promise!Next
<1>3. CASE Crash \/ CrashInDrop \/ Shutdown
    BY <1>3, Stops DEF Crash, CrashInDrop, Shutdown, Stopped, Promise!Next
<1>4. CASE Create
    <2>1. ~open /\ ~config /\ acked = EmptyMap
        BY <1>4 DEF Create, IInv, ControlInv, FilesInv
    <2>2. open' /\ mem' = EmptyMap /\ acked' = EmptyMap /\ ~config'
        BY <1>4, <2>1 DEF Create, files
    <2>3. Stable = EmptyMap /\ Stable' = EmptyMap
        BY <2>1, <2>2 DEF Stable
    <2>4. QED
        BY <2>1, <2>2, <2>3 DEF Promise!Start, Promise!Next
<1>5. CASE Delete
    <2>1. /\ UNCHANGED <<open, mem, config, points, wal>> /\ open
          /\ acked' = [id \in Ids |-> IF id \in Ids THEN Unknown ELSE acked[id]]
        BY <1>5 DEF Delete, memory, files
    <2>2. Stable' = Stable
        BY <2>1 DEF Stable, PointsOnDisk
    <2>3. Promise!Submit
        BY <2>1, <2>2, Mapped DEF Promise!Submit, Promise!Serving
    <2>4. QED
        BY <2>3 DEF Promise!Next
<1>6. CASE Removed
    <2>1. open /\ ~open' /\ acked' = EmptyMap /\ ~config'
        BY <1>6, Context DEF Removed
    <2>2. EmptyMap = Promise!EmptyMap /\ Stable' = EmptyMap
        BY <2>1 DEF EmptyMap, Promise!EmptyMap, Stable
    <2>3. QED
        BY <2>1, <2>2, Mapped DEF Promise!Drop, Promise!Serving, Promise!Next
<1>7. CASE BeginUpsert \/ BeginDelete
    <2>1. PICK entries \in Seq(Entry) : Begin(entries)
        BY <1>7, BeginsBatch
    <2> DEFINE S == {id \in Ids : \E i \in 1..Len(entries) : entries[i].id = id}
    <2>2. /\ open /\ UNCHANGED <<open, mem, config, points, wal>>
          /\ acked' = [id \in Ids |-> IF id \in S THEN Unknown ELSE acked[id]]
        BY <2>1 DEF Begin, memory, files
    <2>3. Stable' = Stable
        BY <2>2 DEF Stable, PointsOnDisk
    <2>4. Promise!Submit
        <3>1. S \in SUBSET Ids
            OBVIOUS
        <3> HIDE DEF S
        <3> QED BY <2>2, <2>3, <3>1, Mapped DEF Promise!Submit, Promise!Serving
    <2>5. QED
        BY <2>4 DEF Promise!Next
<1>8. CASE LogEntry \/ LogEntryFails
    <2>1. open /\ UNCHANGED <<open, mem, acked>>
        BY <1>8, Context DEF LogEntry, LogEntryFails
    <2>2. QED
        BY <2>1, Persists DEF Promise!Next
<1>9. CASE ApplyUpsert \/ ApplyDelete
    <2>1. open /\ UNCHANGED <<open, config, points, wal, acked>>
        BY <1>9, Context DEF ApplyUpsert, ApplyDelete, files
    <2>2. QED
        BY <2>1, Shows DEF Promise!Next
<1>10. CASE Reply
    <2> DEFINE S == {id \in Ids : Hits(batch, Len(batch), id) # {}}
    <2>1. /\ open /\ pc = "done" /\ UNCHANGED <<open, mem, config, points, wal>>
          /\ acked' = Overlay(acked, batch, Len(batch))
        BY <1>10, Context DEF Reply, memory, files
    <2>2. Stable' = Stable
        BY <2>1 DEF Stable, PointsOnDisk
    <2>3. ASSUME NEW id \in S
          PROVE  /\ acked[id] = Unknown /\ mem[id] = Stable[id]
                 /\ acked'[id] = Stable[id]
        <3>1. PICK i \in 1..Len(batch) : batch[i].id = id
            BY <2>3 DEF Hits
        <3>2. acked[id] = Unknown
            BY <3>1 DEF IInv, WritesInv
        <3>3. QED
            BY <2>1, <3>2 DEF Overlay, IInv, WritesInv
    <2>4. acked' = [id \in Ids |-> IF id \in S THEN Stable[id] ELSE acked[id]]
        BY <2>1, <2>3 DEF Overlay
    <2>5. Promise!Acknowledge
        <3>1. S \in SUBSET Promise!Open /\ \A id \in S : mem[id] = Stable[id]
            BY <2>3 DEF Promise!Open
        <3> HIDE DEF S
        <3> QED BY <2>1, <2>2, <2>4, <3>1, Mapped DEF Promise!Acknowledge, Promise!Serving
    <2>6. QED
        BY <2>5 DEF Promise!Next
<1>11. CASE SaveConfig \/ SavePoints \/ SaveChecksum \/ SaveIndex \/ Truncate
    <2>1. open /\ UNCHANGED <<open, mem, acked>>
        BY <1>11, Context DEF SaveConfig, SavePoints, SaveChecksum, SaveIndex, Truncate, memory
    <2>2. QED
        BY <2>1, Persists DEF Promise!Next
<1>12. CASE SaveFails
    <2>1. open
        BY <1>12, Context DEF SaveFails, SaveSteps
    <2>2. CASE why = "recover"
        BY <1>12, <2>2, Stops DEF SaveFails, Stopped, Promise!Next
    <2>3. CASE why # "recover"
        BY <1>12, <2>1, <2>3, Persists DEF SaveFails, Promise!Next
    <2>4. QED
        BY <2>2, <2>3
<1>13. QED
    BY <1>1, <1>2, <1>3, <1>4, <1>5, <1>6, <1>7, <1>8, <1>9, <1>10, <1>11, <1>12 DEF Next

(* Under SafeFaults the log, the snapshots and their recovery implement    *)
(* the durable map.                                                        *)
THEOREM Implementation == ASSUME SafeFaults PROVE Spec => KeepsPromise
<1>1. IInv /\ IInv' /\ [Next]_vars => [Promise!Next]_(Promise!vars)
    BY PromiseStep
<1>2. QED
    BY <1>1, PromiseInit, Invariance, PTL DEF Spec, KeepsPromise, Promise!Spec

-----------------------------------------------------------------------------
(* The log and the snapshot, under any faults *)

(* Past the points file a save has written what is in memory, and past the *)
(* checksum all that a start needs of it.                                  *)
SnapshotWritten ==
    /\ pc \in {"checksum", "index", "truncate"} => points = mem
    /\ pc \in {"index", "truncate"} => sum = "match"

LEMMA SnapshotIsWritten == SnapshotWritten /\ [Next]_vars => SnapshotWritten'
<1> SUFFICES ASSUME SnapshotWritten, [Next]_vars PROVE SnapshotWritten'
    OBVIOUS
<1>1. CASE StartWithout \/ StartWith \/ Create \/ Delete \/ Removed
    BY <1>1 DEF StartWithout, StartWith, Create, Delete, Removed, SnapshotWritten
<1>2. CASE Crash \/ CrashInDrop \/ Shutdown
    BY <1>2 DEF Crash, CrashInDrop, Shutdown, Stopped, SnapshotWritten
<1>3. CASE BeginUpsert \/ BeginDelete
    BY <1>3, BeginsBatch DEF Begin, SnapshotWritten
<1>4. CASE LogEntry \/ LogEntryFails \/ LogEntryRefused \/ Reply
    BY <1>4 DEF LogEntry, LogEntryFails, LogEntryRefused, Reply, EndCall, SnapshotWritten
<1>5. CASE ApplyUpsert \/ ApplyDelete
    BY <1>5 DEF ApplyUpsert, ApplyDelete, NextAfterApply, EndCall, SnapshotWritten
<1>6. CASE SaveConfig \/ SavePoints \/ SaveChecksum \/ SaveIndex \/ Truncate
    BY <1>6 DEF SaveConfig, SavePoints, SaveChecksum, SaveIndex, Truncate, memory, files, snapshot,
       SnapshotWritten
<1>7. CASE SaveFails
    BY <1>7 DEF SaveFails, Stopped, EndCall, SnapshotWritten
<1>8. CASE UNCHANGED vars
    BY <1>8 DEF vars, memory, files, SnapshotWritten
<1>9. QED
    BY <1>1, <1>2, <1>3, <1>4, <1>5, <1>6, <1>7, <1>8 DEF Next

LEMMA WriteGrows ==
    ASSUME wal \in Seq(Entry), NEW s \in Seq(Entry), NEW tear, Write(s, tear)
    PROVE  ~(Len(wal') < Len(wal))
<1>1. Len(wal) \in Nat
    BY LenProperties
<1>2. ASSUME NEW t \in Seq(Entry) PROVE ~(Len(wal \o t) < Len(wal))
    BY <1>1, ConcatProperties, LenProperties
<1>3. s # <<>> => Tail(s) \in Seq(Entry)
    BY HeadTailProperties
<1>4. QED
    BY <1>1, <1>2, <1>3 DEF Write

LEMMA PartGrows ==
    ASSUME wal \in Seq(Entry), NEW s \in Seq(Entry), PartWritten(s)
    PROVE  ~(Len(wal') < Len(wal))
<1>1. PICK n \in 0..Len(s) : \E tear : Write(SubSeq(s, 1, n), tear)
    BY DEF PartWritten
<1>2. QED
    BY <1>1, Prefix, WriteGrows

LEMMA LogShrinks ==
    ASSUME TypeInv, SnapshotWritten, [Next]_vars, Len(wal') < Len(wal)
    PROVE  (pc = "truncate" /\ points = mem /\ sum = "match") \/ pc = "drop"
<1>1. TypeOK /\ wal \in Seq(Entry) /\ stuck \in Seq(Entry) /\ Len(wal) \in Nat
    BY LenProperties DEF TypeInv, TypeOK
<1>2. wal' # wal
    BY <1>1
<1>3. ~PartWritten(stuck) /\ \A tear : ~Write(stuck, tear)
    BY <1>1, PartGrows, WriteGrows
<1>4. pc = "log" => ~Flush(stuck \o <<batch[logged + 1]>>)
    <2> SUFFICES ASSUME pc = "log" PROVE ~Flush(stuck \o <<batch[logged + 1]>>)
        OBVIOUS
    <2>1. stuck \o <<batch[logged + 1]>> \in Seq(Entry)
        BY <1>1, LoggingType DEF TypeInv
    <2>2. QED
        BY <1>1, <2>1, WriteGrows DEF Flush
<1>5. CASE LogEntry \/ LogEntryFails
    <2>1. ~Flush(stuck)
        BY <1>3 DEF Flush
    <2>2. QED
        BY <1>2, <1>3, <1>4, <1>5, <2>1 DEF LogEntry, LogEntryFails, logFile
<1>6. CASE Shutdown
    BY <1>3, <1>6 DEF Shutdown
<1>7. CASE SaveFails
    BY <1>2, <1>3, <1>7 DEF SaveFails, SnapshotWritten, logFile
<1>8. CASE Truncate
    BY <1>8 DEF Truncate, SnapshotWritten
<1>9. CASE Removed \/ CrashInDrop
    BY <1>9 DEF Removed, CrashInDrop
<1>10. CASE Crash
    BY <1>1, <1>10, InFlightType, PartGrows DEF Crash
<1>11. CASE BeginUpsert \/ BeginDelete
    BY <1>2, <1>11, BeginsBatch DEF Begin, files
<1>12. CASE \/ StartWithout \/ StartWith \/ Create \/ Delete \/ LogEntryRefused \/ Reply
            \/ ApplyUpsert \/ ApplyDelete
    BY <1>2, <1>12 DEF StartWithout, StartWith, Create, Delete, LogEntryRefused, Reply, ApplyUpsert,
       ApplyDelete, files
<1>13. CASE SaveConfig \/ SavePoints \/ SaveChecksum \/ SaveIndex \/ UNCHANGED vars
    BY <1>2, <1>13 DEF SaveConfig, SavePoints, SaveChecksum, SaveIndex, files, logFile, vars
<1>14. QED
    BY <1>5, <1>6, <1>7, <1>8, <1>9, <1>10, <1>11, <1>12, <1>13 DEF Next

(* Whatever fails or crashes, the log is shortened only when the snapshot  *)
(* has what is in memory, or with the collection.                          *)
THEOREM LogIsKept == Spec => LogOutlivesSnapshot
<1> DEFINE A == Len(wal') < Len(wal) => \/ pc = "truncate" /\ points = mem /\ sum = "match"
                                        \/ pc = "drop"
<1>1. Init => SnapshotWritten
    BY DEF Init, SnapshotWritten
<1>2. TypeInv /\ SnapshotWritten /\ [Next]_vars => [A]_vars
    BY LogShrinks
<1>3. LogOutlivesSnapshot <=> [][A]_vars
    BY DEF LogOutlivesSnapshot
<1>4. QED
    <2> HIDE DEF A
    <2> QED
        BY <1>1, <1>2, <1>3, TypeInit, TypeStep, SnapshotIsWritten, PTL DEF Spec
=============================================================================
