-------------------------- MODULE TieredCollection --------------------------
(***************************************************************************)
(* TieredCollection (crates/core/src/tiered.rs): the points of one         *)
(* collection in memory (hot), in a memory-mapped file of vectors (warm)   *)
(* or in files of their own (cold).                                        *)
(*                                                                         *)
(* The file of vectors is a sequence of slots, as long as its appends made *)
(* it; offsets gives the slot of each warm id, counted from 0.  A point    *)
(* has one value, which stands for its vector and for its metadata: a warm *)
(* point takes the one from the file and the other from memory.  Ids have  *)
(* no namespace.  The process does not restart: nothing restores the tiers *)
(* of a collection (TierMetadata is written by no one).                    *)
(***************************************************************************)
EXTENDS Naturals, FiniteSets, SequencesExt

CONSTANTS
    Ids,
    Values,
    NoPoint,
    Junk,        \* a slot that a failed append left
    Fails,       \* the storage whose writes may fail: "warm", "cold"
    MaxCalls     \* bound: calls

ASSUME TieredCollectionAssumption ==
    /\ {NoPoint, Junk} \cap Values = {} /\ NoPoint # Junk
    /\ Fails \subseteq {"warm", "cold"}
    /\ MaxCalls \in Nat

VARIABLES
    hot,     \* the inner collection's HashMap
    index,   \* its HNSW index: ids with a row, and tombstones
    warm,    \* WarmStorage: the slots of the file, and the offsets
    meta,    \* warm_metadata
    cold,    \* the files of ColdStorage
    tiers,   \* point_tiers
    ideal,   \* the tier that the last access of each id calls for
    latest,  \* ghost: the value last inserted, unless removed
    lost,    \* ghost: ids whose data a failed batch dropped
    calls

vars == <<hot, index, warm, meta, cold, tiers, ideal, latest, lost, calls>>

-----------------------------------------------------------------------------
(* WarmStorage *)

End(offsets) == IF DOMAIN offsets = {} THEN 0 ELSE Max({offsets[i] : i \in DOMAIN offsets}) + 1

(* reload_mmap: offsets past the end of the file go, and so do slots past  *)
(* the last offset, if there is any.                                       *)
Reload(slots, offsets) ==
    LET kept == Restrict(offsets, {i \in DOMAIN offsets : offsets[i] < Len(slots)})
    IN  [slots |-> IF End(kept) > 0 /\ End(kept) < Len(slots)
                   THEN SubSeq(slots, 1, End(kept)) ELSE slots,
         offsets |-> kept]

(* The slot is appended; the offset is the number of vectors there are. *)
Appended(w, id, v) ==
    [slots |-> Append(w.slots, v),
     offsets |-> [i \in DOMAIN w.offsets \cup {id} |->
                    IF i = id THEN Cardinality(DOMAIN w.offsets) ELSE w.offsets[i]]]

AddVector(w, id, v) == LET a == Appended(w, id, v) IN Reload(a.slots, a.offsets)

RemoveVectors(w, ids) == [w EXCEPT !.offsets = Restrict(@, DOMAIN @ \ ids)]

ReadVector(w, id) == w.slots[w.offsets[id] + 1]

(* How add_vector may fail: before its append, in it, or when it saves the *)
(* offsets.                                                                *)
FailedAdds(w, id, v) ==
    IF "warm" \notin Fails THEN {}
    ELSE {w, [w EXCEPT !.slots = Append(@, Junk)], Appended(w, id, v)}

-----------------------------------------------------------------------------
(* Where a point is *)

Point(vec, val) == [vector |-> vec, metadata |-> val]
None == Point(NoPoint, NoPoint)

IsWarm(id) == id \in DOMAIN warm.offsets /\ meta[id] # NoPoint
HydrateFromWarm(id) == IF IsWarm(id) THEN Point(ReadVector(warm, id), meta[id]) ELSE None

(* get goes by the tier, get_from_any_tier by what it finds first. *)
Get(id) ==
    CASE tiers[id] = "warm" -> HydrateFromWarm(id)
      [] tiers[id] = "cold" -> cold[id]
      [] OTHER -> hot[id]

GetFromAnyTier(id) ==
    IF hot[id] # None THEN hot[id]
    ELSE IF IsWarm(id) THEN HydrateFromWarm(id)
    ELSE cold[id]

Depth == [none |-> 0, hot |-> 1, warm |-> 2, cold |-> 3]
ShouldDemote(tier, to) == tier # "none" /\ Depth[tier] < Depth[to]

-----------------------------------------------------------------------------

Init ==
    /\ hot = [id \in Ids |-> None]
    /\ index = [rows |-> {}, dead |-> {}]
    /\ warm = [slots |-> <<>>, offsets |-> <<>>]
    /\ meta = [id \in Ids |-> NoPoint]
    /\ cold = [id \in Ids |-> None]
    /\ tiers = [id \in Ids |-> "none"]
    /\ ideal = [id \in Ids |-> "cold"]
    /\ latest = [id \in Ids |-> NoPoint]
    /\ lost = {}
    /\ calls = 0

Call == calls < MaxCalls /\ calls' = calls + 1

(* Mutant: the tier stays what it was. *)
InsertKeepsTier(id, v) ==
    /\ Call
    /\ hot' = [hot EXCEPT ![id] = Point(v, v)]
    /\ index' = [index EXCEPT !.rows = @ \cup {id}]
    /\ tiers' = [tiers EXCEPT ![id] = IF @ = "none" THEN "hot" ELSE @]
    /\ ideal' = [ideal EXCEPT ![id] = "hot"]
    /\ latest' = [latest EXCEPT ![id] = v]
    /\ lost' = lost \ {id}
    /\ UNCHANGED <<warm, meta, cold>>

(* What the other tiers hold of the id stays where it is. *)
Insert(id, v) ==
    /\ Call
    /\ hot' = [hot EXCEPT ![id] = Point(v, v)]
    /\ index' = [index EXCEPT !.rows = @ \cup {id}]
    /\ tiers' = [tiers EXCEPT ![id] = "hot"]
    /\ ideal' = [ideal EXCEPT ![id] = "hot"]
    /\ latest' = [latest EXCEPT ![id] = v]
    /\ lost' = lost \ {id}
    /\ UNCHANGED <<warm, meta, cold>>

(* Only a hot point gets its tombstone: Collection::remove fails for the   *)
(* others before it reaches the index, and the failure is ignored.         *)
RemovePoint(id) ==
    /\ Call
    /\ index' = IF hot[id] = None THEN index ELSE [index EXCEPT !.dead = @ \cup {id}]
    /\ hot' = [hot EXCEPT ![id] = None]
    /\ warm' = RemoveVectors(warm, {id})
    /\ meta' = [meta EXCEPT ![id] = NoPoint]
    /\ cold' = [cold EXCEPT ![id] = None]
    /\ tiers' = [tiers EXCEPT ![id] = "none"]
    /\ ideal' = [ideal EXCEPT ![id] = "cold"]
    /\ latest' = [latest EXCEPT ![id] = NoPoint]
    /\ lost' = lost \ {id}

(* search, get and get_from_any_tier record the access of what they find   *)
(* (get also of what it does not), and promote nothing.                    *)
Access(ids) ==
    /\ Call
    /\ ideal' = [id \in Ids |-> IF id \in ids THEN "hot" ELSE ideal[id]]
    /\ UNCHANGED <<hot, index, warm, meta, cold, tiers, latest, lost>>

(* hot_threshold_hours or warm_threshold_hours go by without an access. *)
TimePasses(id) ==
    /\ Call
    /\ ideal[id] # "cold"
    /\ ideal' = [ideal EXCEPT ![id] = IF @ = "hot" THEN "warm" ELSE "cold"]
    /\ UNCHANGED <<hot, index, warm, meta, cold, tiers, latest, lost>>

(* The old row gets a tombstone, which the new row of the id shares. *)
PromoteToHot(id) ==
    /\ Call
    /\ tiers[id] \in {"warm", "cold"} /\ Get(id) # None
    /\ hot' = [hot EXCEPT ![id] = Get(id)]
    /\ index' = [index EXCEPT !.dead = IF id \in index.rows THEN @ \cup {id} ELSE @,
                              !.rows = @ \cup {id}]
    /\ IF tiers[id] = "warm"
       THEN /\ warm' = RemoveVectors(warm, {id})
            /\ meta' = [meta EXCEPT ![id] = NoPoint]
            /\ UNCHANGED cold
       ELSE cold' = [cold EXCEPT ![id] = None] /\ UNCHANGED <<warm, meta>>
    /\ tiers' = [tiers EXCEPT ![id] = "hot"]
    /\ UNCHANGED <<ideal, latest, lost>>

DemoteToWarm(id) ==
    /\ Call
    /\ hot[id] # None
    /\ \/ /\ warm' = AddVector(warm, id, hot[id].vector)
          /\ meta' = [meta EXCEPT ![id] = hot[id].metadata]
          /\ hot' = [hot EXCEPT ![id] = None]
          /\ tiers' = [tiers EXCEPT ![id] = "warm"]
       \/ /\ warm' \in FailedAdds(warm, id, hot[id].vector)
          /\ UNCHANGED <<meta, hot, tiers>>
    /\ UNCHANGED <<index, cold, ideal, latest, lost>>

(* Callers demote warm points only.  A write of the cold file that fails   *)
(* (before anything is removed) changes nothing.                           *)
DemoteToCold(id) ==
    /\ Call
    /\ tiers[id] = "warm" /\ IsWarm(id)
    /\ cold' = [cold EXCEPT ![id] = HydrateFromWarm(id)]
    /\ warm' = RemoveVectors(warm, {id})
    /\ meta' = [meta EXCEPT ![id] = NoPoint]
    /\ tiers' = [tiers EXCEPT ![id] = "cold"]
    /\ UNCHANGED <<hot, index, ideal, latest, lost>>

-----------------------------------------------------------------------------
(* run_compaction: two batches *)

ToWarm == {id \in Ids : tiers[id] = "hot" /\ ShouldDemote("hot", ideal[id])}
ToCold == {id \in Ids : /\ ShouldDemote(tiers[id], ideal[id]) /\ ideal[id] = "cold"
                        /\ tiers[id] = "hot" \/ IsWarm(id)}

(* demote_batch_to_warm, of s in its order. *)
AddAll(w, s) ==
    LET added[n \in 0..Len(s)] ==
            IF n = 0 THEN w ELSE AddVector(added[n - 1], s[n], hot[s[n]].vector)
    IN  added[Len(s)]

MetaAfter(s) == [id \in Ids |-> IF id \in ToSet(s) THEN hot[id].metadata ELSE meta[id]]

(* demote_batch_to_cold, of t after the batch s went to warm: all vectors  *)
(* of t are removed, then each point loses its metadata and gets its file; *)
(* if not all, n files are written, and the next one fails.                *)
DemoteBatchToCold(s, t, n) ==
    LET w == AddAll(warm, s)
        done == ToSet(SubSeq(t, 1, n))
        tried == ToSet(SubSeq(t, 1, IF n < Len(t) THEN n + 1 ELSE n))
    IN  /\ hot' = [id \in Ids |-> IF id \in ToSet(s) THEN None ELSE hot[id]]
        /\ warm' = RemoveVectors(w, ToSet(t))
        /\ meta' = [id \in Ids |-> IF id \in tried THEN NoPoint ELSE MetaAfter(s)[id]]
        /\ cold' = [id \in Ids |-> IF id \in done THEN Point(ReadVector(w, id), MetaAfter(s)[id])
                                   ELSE cold[id]]
        /\ tiers' = [id \in Ids |-> IF id \in done THEN "cold"
                                    ELSE IF id \in ToSet(s) THEN "warm" ELSE tiers[id]]
        /\ lost' = lost \cup (ToSet(t) \ done)

(* Mutant: a point that goes to cold waits one compaction in warm. *)
CompactAllOnce ==
    \E s \in SetToSeqs(ToWarm), t \in SetToSeqs(ToCold \ ToWarm) : DemoteBatchToCold(s, t, Len(t))

CompactAll ==
    \E s \in SetToSeqs(ToWarm), t \in SetToSeqs(ToCold) : DemoteBatchToCold(s, t, Len(t))

CompactFails ==
    \E s \in SetToSeqs(ToWarm), t \in SetToSeqs(ToCold) :
        \/ "cold" \in Fails /\ \E n \in 0..(Len(t) - 1) : DemoteBatchToCold(s, t, n)
        \/ /\ \E n \in 1..Len(s) :
                warm' \in FailedAdds(AddAll(warm, SubSeq(s, 1, n - 1)), s[n], hot[s[n]].vector)
           /\ UNCHANGED <<hot, meta, cold, tiers, lost>>

RunCompaction ==
    /\ Call
    /\ CompactAll \/ CompactFails
    /\ UNCHANGED <<index, ideal, latest>>

Next ==
    \/ \E id \in Ids :
        \/ \E v \in Values : Insert(id, v)
        \/ RemovePoint(id) \/ TimePasses(id)
        \/ PromoteToHot(id) \/ DemoteToWarm(id) \/ DemoteToCold(id)
        \/ Access({id})
    \/ Access(index.rows \ index.dead)
    \/ RunCompaction

Spec == Init /\ [][Next]_vars

-----------------------------------------------------------------------------
(* Properties *)

Points == [vector : Values \cup {Junk}, metadata : Values] \cup {None}

(* The offsets stay inside the file, whatever was removed and appended.    *)
TypeOK ==
    /\ hot \in [Ids -> Points] /\ cold \in [Ids -> Points]
    /\ meta \in [Ids -> Values \cup {NoPoint}]
    /\ lost \subseteq Ids
    /\ index.rows \subseteq Ids /\ index.dead \subseteq index.rows
    /\ tiers \in [Ids -> {"none", "hot", "warm", "cold"}]
    /\ DOMAIN warm.offsets \subseteq Ids
    /\ \A id \in DOMAIN warm.offsets : warm.offsets[id] < Len(warm.slots)

(* A point stays in some tier, with its latest metadata, however it is     *)
(* moved and whatever older copies of it the other tiers hold; and whoever *)
(* goes by its tier finds the same as who tries them in turn.  A write of  *)
(* a cold file that fails in a batch loses that point and those after it,  *)
(* whose vectors the batch has removed by then, and no other.              *)
Kept ==
    \A id \in Ids \ lost : latest[id] # NoPoint =>
        /\ GetFromAnyTier(id).metadata = latest[id]
        /\ Get(id) = GetFromAnyTier(id)

(* A removed point is in no tier, not even as an older copy. *)
Gone == \A id \in Ids : latest[id] = NoPoint => GetFromAnyTier(id) = None /\ Get(id) = None

(* After a compaction that does not fail, no point is in a hotter tier     *)
(* than its last access calls for.                                         *)
Demoted ==
    [][Call /\ CompactAll => \A id \in Ids \ lost : ~ShouldDemote(tiers'[id], ideal[id])]_vars

(* Nothing is lost between the tiers, and nothing comes back from them.    *)
TierInv == TypeOK /\ Kept /\ Gone
=============================================================================
