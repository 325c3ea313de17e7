----------------------- MODULE TieredCollection_proofs -----------------------
(* Proofs about TieredCollection, for any ids, values and failing storage. *)
EXTENDS TieredCollection, Integers, WellFoundedInduction, FiniteSetTheorems, SequenceTheorems, TLAPS

-----------------------------------------------------------------------------
(* Natural numbers, and functions defined by recursion on them *)

(* A nonempty set of natural numbers has a least element.                  *)
LEMMA LeastNatural ==
    ASSUME NEW T \in SUBSET Nat, T # {}
    PROVE  \E x \in T : \A y \in T : x <= y
<1>1. \E x \in T : \A y \in T : ~(<<y, x>> \in OpToRel(<, Nat))
  BY NatLessThanWellFounded, WFMin
<1>2. \A x, y \in T : ~(<<y, x>> \in OpToRel(<, Nat)) => ~(y < x)
  BY DEF OpToRel
<1>3. \A x, y \in T : ~(y < x) => x <= y
  OBVIOUS
<1> QED
  BY <1>1, <1>2, <1>3

(* What holds of 0 and goes on from each number to the next, always holds: *)
(* what does not would have a least exception.                             *)
LEMMA Induction ==
    ASSUME NEW T \in SUBSET Nat, 0 \in T, \A n \in T : n + 1 \in T
    PROVE  T = Nat
<1> SUFFICES ASSUME Nat \ T # {} PROVE FALSE
  OBVIOUS
<1>1. PICK n \in Nat \ T : \A m \in Nat \ T : n <= m
  BY LeastNatural
<1>2. n - 1 \in T
  BY <1>1
<1> QED
  BY <1>1, <1>2

(* A step of values of S, taken n times, has a value of S each time.       *)
Iterated(g, S, base, step, n) ==
    /\ g \in [0..n -> S] /\ g[0] = base
    /\ \A i \in 1..n : g[i] = step[<<i, g[i - 1]>>]

LEMMA Iterates ==
    ASSUME NEW S, NEW base \in S, NEW n \in Nat, NEW step \in [(1..n) \X S -> S]
    PROVE  \E g : Iterated(g, S, base, step, n)
<1> DEFINE T == {m \in Nat : m <= n => \E g : Iterated(g, S, base, step, m)}
<1>1. 0 \in T
  <2>1. Iterated([i \in 0..0 |-> base], S, base, step, 0)
    BY DEF Iterated
  <2> QED
    BY <2>1
<1>2. ASSUME NEW m \in T PROVE m + 1 \in T
  <2> SUFFICES ASSUME m + 1 <= n PROVE \E h : Iterated(h, S, base, step, m + 1)
    OBVIOUS
  <2>1. PICK g : Iterated(g, S, base, step, m)
    OBVIOUS
  <2> DEFINE h == [i \in 0..(m + 1) |-> IF i = m + 1 THEN step[<<i, g[m]>>] ELSE g[i]]
  <2>2. /\ \A i \in 0..m : i \in 0..(m + 1) /\ i # m + 1 /\ h[i] = g[i]
        /\ h[m + 1] = step[<<m + 1, g[m]>>]
    OBVIOUS
  <2>3. m \in Nat /\ g \in [0..m -> S] /\ g[m] \in S /\ m + 1 \in 1..n
    BY <2>1 DEF Iterated
  <2>4. h \in [0..(m + 1) -> S]
    BY <2>3
  <2> HIDE DEF h, T
  <2>5. ASSUME NEW i \in 1..(m + 1) PROVE h[i] = step[<<i, h[i - 1]>>]
    <3>1. CASE i = m + 1
      BY <2>2, <2>3, <3>1
    <3>2. CASE i \in 1..m
      <4>1. g[i] = step[<<i, g[i - 1]>>]
        BY <2>1, <3>2 DEF Iterated
      <4>2. i \in 0..m /\ i - 1 \in 0..m
        BY <2>3, <3>2
      <4> QED
        BY <2>2, <4>1, <4>2
    <3> QED
      BY <2>3, <3>1, <3>2
  <2>6. h[0] = base
    BY <2>1, <2>2, <2>3 DEF Iterated
  <2> QED
    BY <2>4, <2>5, <2>6 DEF Iterated
<1>3. T = Nat
  <2> HIDE DEF T
  <2>1. T \subseteq Nat
    BY DEF T
  <2> QED
    BY <1>1, <1>2, <2>1, Induction
<1>4. n \in T
  BY <1>3
<1> QED
  BY <1>4

-----------------------------------------------------------------------------
USE TieredCollectionAssumption

(***************************************************************************)
(* The inductive invariant                                                 *)
(***************************************************************************)
Slots == Values \cup {Junk}
Offsets == UNION {[D -> Nat] : D \in SUBSET Ids}
Below(offsets, k) == {i \in DOMAIN offsets : offsets[i] < k}

(* The offsets of a file may coincide, but never more than k of them are   *)
(* below k: a new one is the number of those there are.  So this number is *)
(* no greater than that of the slots, and a new offset is in the file.     *)
Stores ==
    {w \in [slots : Seq(Slots), offsets : Offsets] :
        /\ IsFiniteSet(DOMAIN w.offsets)
        /\ \A i \in DOMAIN w.offsets : w.offsets[i] < Len(w.slots)
        /\ \A k \in Nat : Cardinality(Below(w.offsets, k)) <= k}

Typed ==
    /\ hot \in [Ids -> Points] /\ cold \in [Ids -> Points]
    /\ index \in [rows : SUBSET Ids, dead : SUBSET Ids]
    /\ warm \in Stores
    /\ meta \in [Ids -> Values \cup {NoPoint}]
    /\ tiers \in [Ids -> {"none", "hot", "warm", "cold"}]
    /\ ideal \in [Ids -> {"hot", "warm", "cold"}]
    /\ latest \in [Ids -> Values \cup {NoPoint}]
    /\ lost \subseteq Ids

(* What each tier says of a point.  Its older copies elsewhere are of no   *)
(* matter, but that a cold point has none that is whole in warm.           *)
Placed(id) ==
    /\ tiers[id] = "none" <=> latest[id] = NoPoint
    /\ tiers[id] = "none" => /\ id \notin DOMAIN warm.offsets
                             /\ meta[id] = NoPoint /\ cold[id] = None
    /\ tiers[id] = "hot" <=> hot[id] # None
    /\ tiers[id] = "hot" => hot[id].metadata = latest[id]
    /\ tiers[id] = "warm" => IF id \in lost THEN id \notin DOMAIN warm.offsets
                             ELSE id \in DOMAIN warm.offsets /\ meta[id] = latest[id]
    /\ tiers[id] = "cold" => ~IsWarm(id) /\ cold[id].metadata = latest[id]
    /\ id \in lost => tiers[id] = "warm"
    /\ hot[id] # None => id \in index.rows

InTiers == {id \in Ids : tiers[id] # "none"}

IInv == /\ Typed
        /\ IsFiniteSet(InTiers)
        /\ index.dead \subseteq index.rows
        /\ \A id \in Ids : Placed(id)

-----------------------------------------------------------------------------
(***************************************************************************)
(* WarmStorage                                                             *)
(***************************************************************************)
LEMMA StoreFacts ==
    ASSUME NEW w \in Stores
    PROVE  /\ w.slots \in Seq(Slots) /\ Len(w.slots) \in Nat
           /\ w = [slots |-> w.slots, offsets |-> w.offsets]
           /\ DOMAIN w.offsets \subseteq Ids /\ w.offsets \in [DOMAIN w.offsets -> Nat]
           /\ IsFiniteSet(DOMAIN w.offsets) /\ Cardinality(DOMAIN w.offsets) \in Nat
           /\ \A i \in DOMAIN w.offsets : w.offsets[i] \in Nat /\ w.offsets[i] < Len(w.slots)
           /\ \A k \in Nat : Cardinality(Below(w.offsets, k)) <= k
<1>1. w \in [slots : Seq(Slots), offsets : Offsets]
  BY DEF Stores
<1>2. PICK D \in SUBSET Ids : w.offsets \in [D -> Nat]
  BY <1>1 DEF Offsets
<1>3. IsFiniteSet(DOMAIN w.offsets)
  BY DEF Stores
<1> QED
  BY <1>1, <1>2, <1>3, FS_CardinalityType, LenProperties DEF Stores

LEMMA IsStore ==
    ASSUME NEW D \in SUBSET Ids, IsFiniteSet(D), NEW f \in [D -> Nat], NEW s \in Seq(Slots),
           \A i \in D : f[i] < Len(s), \A k \in Nat : Cardinality(Below(f, k)) <= k
    PROVE  [slots |-> s, offsets |-> f] \in Stores
<1>1. f \in Offsets
  BY DEF Offsets
<1> QED
  BY <1>1 DEF Stores

(* Fewer offsets, or more slots, do no harm.                               *)
LEMMA FewerOffsets ==
    ASSUME NEW w \in Stores, NEW D \in SUBSET DOMAIN w.offsets, NEW s \in Seq(Slots),
           Len(s) >= Len(w.slots)
    PROVE  /\ [slots |-> s, offsets |-> Restrict(w.offsets, D)] \in Stores
           /\ DOMAIN Restrict(w.offsets, D) = D
<1> DEFINE f == Restrict(w.offsets, D)
<1>1. f \in [D -> Nat] /\ \A i \in D : f[i] = w.offsets[i]
  BY StoreFacts DEF Restrict
<1>2. IsFiniteSet(D) /\ D \in SUBSET Ids
  BY StoreFacts, FS_Subset
<1>3. \A i \in D : f[i] < Len(s)
  <2>1. Len(s) \in Nat
    BY LenProperties
  <2> QED
    BY <1>1, <2>1, StoreFacts
<1>4. ASSUME NEW k \in Nat PROVE Cardinality(Below(f, k)) <= k
  <2>1. Below(f, k) \subseteq Below(w.offsets, k) /\ Below(w.offsets, k) \subseteq DOMAIN w.offsets
    BY <1>1 DEF Below
  <2>2. IsFiniteSet(Below(w.offsets, k))
    BY <2>1, StoreFacts, FS_Subset
  <2>3. IsFiniteSet(Below(f, k)) /\ Cardinality(Below(f, k)) <= Cardinality(Below(w.offsets, k))
    BY <2>1, <2>2, FS_Subset
  <2>4. Cardinality(Below(f, k)) \in Nat /\ Cardinality(Below(w.offsets, k)) \in Nat
    BY <2>2, <2>3, FS_CardinalityType
  <2> QED
    BY <2>3, <2>4, StoreFacts
<1> HIDE DEF f
<1> QED
  BY <1>1, <1>2, <1>3, <1>4, IsStore DEF f

LEMMA RemoveKeepsStore ==
    ASSUME NEW w \in Stores, NEW ids
    PROVE  /\ RemoveVectors(w, ids) \in Stores
           /\ DOMAIN RemoveVectors(w, ids).offsets = DOMAIN w.offsets \ ids
<1> DEFINE f == Restrict(w.offsets, DOMAIN w.offsets \ ids)
<1>1. RemoveVectors(w, ids) = [slots |-> w.slots, offsets |-> f]
  BY StoreFacts DEF RemoveVectors
<1>2. Len(w.slots) >= Len(w.slots) /\ w.slots \in Seq(Slots)
  BY StoreFacts
<1>3. [slots |-> w.slots, offsets |-> f] \in Stores /\ DOMAIN f = DOMAIN w.offsets \ ids
  <2>1. DOMAIN w.offsets \ ids \in SUBSET DOMAIN w.offsets
    OBVIOUS
  <2> QED
    BY <1>2, <2>1, FewerOffsets
<1> HIDE DEF f
<1> QED
  BY <1>1, <1>3

(* A new offset is in the file, and spreads them no less.                  *)
LEMMA AppendKeepsStore ==
    ASSUME NEW w \in Stores, NEW id \in Ids, NEW v \in Slots
    PROVE  /\ Appended(w, id, v) \in Stores
           /\ DOMAIN Appended(w, id, v).offsets = DOMAIN w.offsets \cup {id}
<1> DEFINE D == DOMAIN w.offsets
           n == Cardinality(D)
           f == [i \in D \cup {id} |-> IF i = id THEN n ELSE w.offsets[i]]
           s == Append(w.slots, v)
<1>1. Appended(w, id, v) = [slots |-> s, offsets |-> f]
  BY DEF Appended
<1>2. s \in Seq(Slots) /\ Len(s) = Len(w.slots) + 1 /\ Len(w.slots) \in Nat
  BY StoreFacts, AppendProperties
<1>3. /\ n \in Nat /\ IsFiniteSet(D) /\ D \subseteq Ids
      /\ \A i \in D : w.offsets[i] \in Nat /\ w.offsets[i] < Len(w.slots)
  BY StoreFacts
<1>4. n <= Len(w.slots)
  <2>1. Below(w.offsets, Len(w.slots)) = D
    BY <1>3 DEF Below
  <2> QED
    BY <1>2, <2>1, StoreFacts
<1>5. f \in [D \cup {id} -> Nat] /\ f[id] = n /\ \A i \in D \ {id} : f[i] = w.offsets[i]
  BY <1>3
<1> HIDE DEF f, s
<1>6. \A i \in D \cup {id} : f[i] < Len(s)
  BY <1>2, <1>3, <1>4, <1>5
<1>7. /\ IsFiniteSet(D \cup {id}) /\ Cardinality(D \cup {id}) \in Nat
      /\ Cardinality(D \cup {id}) <= n + 1
  <2>1. IsFiniteSet(D \cup {id}) /\ Cardinality(D \cup {id}) = IF id \in D THEN n ELSE n + 1
    BY <1>3, FS_AddElement
  <2> QED
    BY <1>3, <2>1
<1>8. ASSUME NEW k \in Nat PROVE Cardinality(Below(f, k)) <= k
  <2>1. Below(f, k) \subseteq D \cup {id}
    BY <1>5 DEF Below
  <2>2. /\ IsFiniteSet(Below(f, k)) /\ Cardinality(Below(f, k)) \in Nat
        /\ Cardinality(Below(f, k)) <= Cardinality(D \cup {id})
    BY <1>7, <2>1, FS_Subset, FS_CardinalityType
  <2>3. CASE n < k
    BY <1>3, <1>7, <2>2, <2>3
  <2>4. CASE ~(n < k)
    <3>1. Below(f, k) \subseteq Below(w.offsets, k) /\ Below(w.offsets, k) \subseteq D
      BY <1>5, <2>4 DEF Below
    <3>2. IsFiniteSet(Below(w.offsets, k)) /\ Cardinality(Below(w.offsets, k)) \in Nat
      BY <1>3, <3>1, FS_Subset, FS_CardinalityType
    <3>3. Cardinality(Below(f, k)) <= Cardinality(Below(w.offsets, k))
      BY <3>1, <3>2, FS_Subset
    <3> QED
      BY <2>2, <3>2, <3>3, StoreFacts
  <2> QED
    BY <2>3, <2>4
<1>9. [slots |-> s, offsets |-> f] \in Stores
  BY <1>2, <1>3, <1>5, <1>6, <1>7, <1>8, IsStore
<1> QED
  BY <1>1, <1>5, <1>9

(* The greatest of some numbers below n, if there is one.                  *)
LEMMA Greatest ==
    ASSUME NEW n \in Nat, NEW S \in SUBSET (0..(n - 1)), S # {}
    PROVE  Max(S) \in S /\ \A x \in S : x <= Max(S)
<1> DEFINE T == {t \in Nat : n - t \in S}
<1>1. PICK x \in S : TRUE
  OBVIOUS
<1>2. n - x \in T
  BY <1>1
<1>3. PICK t \in T : \A u \in T : t <= u
  <2> HIDE DEF T
  <2>1. T \subseteq Nat
    BY DEF T
  <2> QED
    BY <1>2, <2>1, LeastNatural
<1>4. ASSUME NEW y \in S PROVE y <= n - t
  <2>1. n - y \in T
    OBVIOUS
  <2>2. t <= n - y
    BY <1>3, <2>1
  <2> QED
    BY <2>2
<1>5. n - t \in S /\ \A y \in S : n - t >= y
  BY <1>4
<1>6. Max(S) \in S /\ \A y \in S : Max(S) >= y
  BY <1>5 DEF Max
<1> QED
  BY <1>6

(* Loading the file again drops no offset, and cuts off no slot in use.    *)
LEMMA ReloadKeepsStore ==
    ASSUME NEW w \in Stores
    PROVE  /\ Reload(w.slots, w.offsets) \in Stores
           /\ DOMAIN Reload(w.slots, w.offsets).offsets = DOMAIN w.offsets
<1> DEFINE f == w.offsets
           D == DOMAIN f
           s == w.slots
           end == End(f)
           t == IF end > 0 /\ end < Len(s) THEN SubSeq(s, 1, end) ELSE s
<1>1. /\ s \in Seq(Slots) /\ Len(s) \in Nat /\ D \subseteq Ids /\ f \in [D -> Nat] /\ IsFiniteSet(D)
      /\ \A i \in D : f[i] \in Nat /\ f[i] < Len(s)
      /\ \A k \in Nat : Cardinality(Below(f, k)) <= k
  BY StoreFacts
<1>2. Restrict(f, {i \in D : f[i] < Len(s)}) = f
  BY <1>1 DEF Restrict
<1>3. Reload(s, f) = [slots |-> t, offsets |-> f]
  BY <1>2 DEF Reload
<1>4. end \in Nat /\ \A i \in D : f[i] < end
  <2>1. CASE D = {}
    BY <2>1 DEF End
  <2>2. CASE D # {}
    <3> DEFINE S == {f[i] : i \in D}
    <3>1. S \in SUBSET (0..(Len(s) - 1)) /\ S # {}
      <4>1. \A i \in D : f[i] \in 0..(Len(s) - 1)
        BY <1>1
      <4> QED
        BY <2>2, <4>1
    <3>2. Max(S) \in S /\ \A x \in S : x <= Max(S)
      BY <1>1, <3>1, Greatest
    <3>3. end = Max(S) + 1
      BY <2>2 DEF End
    <3>4. Max(S) \in Nat
      BY <3>1, <3>2
    <3>5. ASSUME NEW i \in D PROVE f[i] < end
      <4>1. f[i] \in S /\ f[i] \in Nat
        BY <1>1
      <4> HIDE DEF S
      <4> QED
        BY <3>2, <3>3, <3>4, <4>1
    <3>6. end \in Nat
      BY <3>3, <3>4
    <3> HIDE DEF end
    <3> QED
      BY <3>5, <3>6
  <2> QED
    BY <2>1, <2>2
<1> HIDE DEF end
<1>5. t \in Seq(Slots) /\ \A i \in D : f[i] < Len(t)
  <2>1. CASE end > 0 /\ end < Len(s)
    <3>1. \A i \in 1..end : s[i] \in Slots
      BY <1>1, <1>4, <2>1, ElementOfSeq
    <3>2. t \in Seq(Slots) /\ Len(t) = end
      BY <1>4, <2>1, <3>1, SubSeqProperties
    <3> QED
      BY <1>4, <3>2
  <2>2. CASE ~(end > 0 /\ end < Len(s))
    BY <1>1, <2>2
  <2> QED
    BY <2>1, <2>2
<1> HIDE DEF t
<1>6. [slots |-> t, offsets |-> f] \in Stores
  BY <1>1, <1>5, IsStore
<1> QED
  BY <1>3, <1>6

LEMMA AddKeepsStore ==
    ASSUME NEW w \in Stores, NEW id \in Ids, NEW v \in Slots
    PROVE  /\ AddVector(w, id, v) \in Stores
           /\ DOMAIN AddVector(w, id, v).offsets = DOMAIN w.offsets \cup {id}
BY AppendKeepsStore, ReloadKeepsStore DEF AddVector

LEMMA FailKeepsStore ==
    ASSUME NEW w \in Stores, NEW id \in Ids, NEW v \in Slots, NEW x \in FailedAdds(w, id, v)
    PROVE  /\ x \in Stores
           /\ DOMAIN w.offsets \subseteq DOMAIN x.offsets
           /\ DOMAIN x.offsets \subseteq DOMAIN w.offsets \cup {id}
<1>1. CASE x = w
  BY <1>1
<1>2. CASE x = Appended(w, id, v)
  BY <1>2, AppendKeepsStore
<1>3. CASE x = [w EXCEPT !.slots = Append(@, Junk)]
  <2>1. x = [slots |-> Append(w.slots, Junk), offsets |-> w.offsets]
    <3>1. w = [slots |-> w.slots, offsets |-> w.offsets]
      BY StoreFacts
    <3> DEFINE a == w.slots
               b == w.offsets
    <3>2. w = [slots |-> a, offsets |-> b] /\ x = [w EXCEPT !.slots = Append(a, Junk)]
      BY <1>3, <3>1
    <3> HIDE DEF a, b
    <3>3. x = [slots |-> Append(a, Junk), offsets |-> b]
      BY <3>2
    <3> QED
      BY <3>3 DEF a, b
  <2>2. Append(w.slots, Junk) \in Seq(Slots) /\ Len(Append(w.slots, Junk)) = Len(w.slots) + 1
    BY StoreFacts, AppendProperties DEF Slots
  <2>3. x \in Stores
    <3> DEFINE D == DOMAIN w.offsets
               f == w.offsets
               t == Append(w.slots, Junk)
    <3>1. D \in SUBSET Ids /\ IsFiniteSet(D) /\ f \in [D -> Nat]
      BY StoreFacts
    <3>2. \A i \in D : f[i] < Len(t)
      BY <2>2, StoreFacts
    <3>3. \A k \in Nat : Cardinality(Below(f, k)) <= k
      BY StoreFacts
    <3>4. x = [slots |-> t, offsets |-> f] /\ t \in Seq(Slots)
      BY <2>1, <2>2
    <3> HIDE DEF D, f, t
    <3> QED
      BY <3>1, <3>2, <3>3, <3>4, IsStore
  <2> QED
    BY <2>1, <2>3
<1> QED
  BY <1>1, <1>2, <1>3 DEF FailedAdds

LEMMA ReadIsSlot ==
    ASSUME NEW w \in Stores, NEW id \in DOMAIN w.offsets
    PROVE  ReadVector(w, id) \in Slots
<1>1. w.slots \in Seq(Slots) /\ w.offsets[id] + 1 \in 1..Len(w.slots)
  BY StoreFacts
<1> QED
  BY <1>1, ElementOfSeq DEF ReadVector

(* All vectors of a batch are added, in whatever order.                    *)
AddedUpto(g, w, s, n) ==
    g = [i \in 0..n |-> IF i = 0 THEN w ELSE AddVector(g[i - 1], s[i], hot[s[i]].vector)]

LEMMA AddedDefined ==
    ASSUME NEW w \in Stores, NEW n \in Nat, NEW s,
           \A i \in 1..n : s[i] \in Ids /\ hot[s[i]].vector \in Slots
    PROVE  \E g : /\ AddedUpto(g, w, s, n) /\ g \in [0..n -> Stores] /\ g[0] = w
                  /\ \A i \in 1..n : g[i] = AddVector(g[i - 1], s[i], hot[s[i]].vector)
<1> DEFINE step == [p \in (1..n) \X Stores |-> AddVector(p[2], s[p[1]], hot[s[p[1]]].vector)]
<1>1. step \in [(1..n) \X Stores -> Stores]
  BY AddKeepsStore
<1>2. \A i \in 1..n, x \in Stores : step[<<i, x>>] = AddVector(x, s[i], hot[s[i]].vector)
  OBVIOUS
<1> HIDE DEF step
<1>3. PICK g : Iterated(g, Stores, w, step, n)
  BY <1>1, Iterates
<1>4. /\ g \in [0..n -> Stores] /\ g[0] = w
      /\ \A i \in 1..n : g[i] = AddVector(g[i - 1], s[i], hot[s[i]].vector)
  <2>1. g \in [0..n -> Stores] /\ g[0] = w /\ \A i \in 1..n : g[i] = step[<<i, g[i - 1]>>]
    BY <1>3 DEF Iterated
  <2>2. \A i \in 1..n : g[i - 1] \in Stores
    BY <2>1
  <2> QED
    BY <1>2, <2>1, <2>2
<1>5. AddedUpto(g, w, s, n)
  BY <1>4 DEF AddedUpto
<1> QED
  BY <1>4, <1>5

LEMMA AddAllKeepsStore ==
    ASSUME NEW w \in Stores, NEW s \in Seq(Ids), \A i \in 1..Len(s) : hot[s[i]].vector \in Slots
    PROVE  /\ AddAll(w, s) \in Stores
           /\ DOMAIN AddAll(w, s).offsets = DOMAIN w.offsets \cup ToSet(s)
<1> DEFINE n == Len(s)
           added == CHOOSE g : AddedUpto(g, w, s, n)
<1>1. n \in Nat /\ \A i \in 1..n : s[i] \in Ids /\ hot[s[i]].vector \in Slots
  BY ElementOfSeq, LenProperties
<1>2. AddedUpto(added, w, s, n)
  <2>1. \E g : AddedUpto(g, w, s, n)
    BY <1>1, AddedDefined
  <2> QED
    BY <2>1
<1>3. AddAll(w, s) = added[n]
  BY DEF AddAll, AddedUpto
<1> HIDE DEF added
<1>4. /\ added[0] = w
      /\ \A i \in 1..n : added[i] = AddVector(added[i - 1], s[i], hot[s[i]].vector)
  BY <1>1, <1>2 DEF AddedUpto
<1> DEFINE Good(i) == /\ added[i] \in Stores
                      /\ DOMAIN added[i].offsets = DOMAIN w.offsets \cup {s[j] : j \in 1..i}
           T == {i \in Nat : i <= n => Good(i)}
<1>5. 0 \in T
  BY <1>4
<1>6. ASSUME NEW i \in T PROVE i + 1 \in T
  <2> SUFFICES ASSUME i + 1 <= n PROVE Good(i + 1)
    OBVIOUS
  <2>1. i + 1 \in 1..n /\ (i + 1) - 1 = i /\ Good(i)
    BY <1>1
  <2>2. added[i + 1] = AddVector(added[i], s[i + 1], hot[s[i + 1]].vector)
    BY <1>4, <2>1
  <2>3. /\ added[i + 1] \in Stores
        /\ DOMAIN added[i + 1].offsets = DOMAIN added[i].offsets \cup {s[i + 1]}
    BY <1>1, <2>1, <2>2, AddKeepsStore
  <2>4. {s[j] : j \in 1..(i + 1)} = {s[j] : j \in 1..i} \cup {s[i + 1]}
    BY <2>1
  <2> QED
    BY <2>1, <2>3, <2>4
<1>7. T = Nat
  <2> HIDE DEF T
  <2>1. T \subseteq Nat
    BY DEF T
  <2> QED
    BY <1>5, <1>6, <2>1, Induction
<1>8. Good(n)
  <2>1. n \in T
    BY <1>1, <1>7
  <2> QED
    BY <1>1, <2>1
<1>9. ToSet(s) = {s[j] : j \in 1..n}
  <2>1. DOMAIN s = 1..n
    BY LenProperties
  <2> QED
    BY <2>1 DEF ToSet
<1> QED
  BY <1>3, <1>8, <1>9

-----------------------------------------------------------------------------
(***************************************************************************)
(* The actions on one point                                                *)
(***************************************************************************)
LEMMA PointFacts ==
    /\ NoPoint \notin Values /\ None \in Points /\ None.metadata = NoPoint
    /\ \A vec \in Slots, val \in Values :
          /\ Point(vec, val) \in Points /\ Point(vec, val) # None
          /\ Point(vec, val).vector = vec /\ Point(vec, val).metadata = val
    /\ \A p \in Points : p # None => p.vector \in Slots /\ p.metadata \in Values
<1>1. NoPoint \notin Values
  OBVIOUS
<1>2. \A vec, val : Point(vec, val).vector = vec /\ Point(vec, val).metadata = val
  BY DEF Point
<1>3. None.metadata = NoPoint
  BY <1>2 DEF None
<1>4. \A vec \in Slots, val \in Values : Point(vec, val) \in Points
  BY DEF Point, Points, Slots
<1>5. \A p \in Points : p # None => p.vector \in Slots /\ p.metadata \in Values
  BY DEF Points, Slots
<1>6. None \in Points
  BY DEF Points
<1>7. \A vec \in Slots, val \in Values : Point(vec, val) # None
  BY <1>1, <1>2, <1>3
<1> QED
  BY <1>1, <1>2, <1>3, <1>4, <1>5, <1>6, <1>7

(* A point that a step does not touch stays where it is.                   *)
Untouched(d) ==
    /\ hot'[d] = hot[d] /\ meta'[d] = meta[d] /\ cold'[d] = cold[d]
    /\ tiers'[d] = tiers[d] /\ latest'[d] = latest[d] /\ (d \in lost' <=> d \in lost)
    /\ d \in DOMAIN warm'.offsets <=> d \in DOMAIN warm.offsets

LEMMA StaysPlaced ==
    ASSUME NEW d \in Ids, Placed(d), Untouched(d), index.rows \subseteq index'.rows
    PROVE  Placed(d)'
BY DEF Placed, Untouched, IsWarm

LEMMA OneMoves ==
    ASSUME IInv, Typed', NEW id \in Ids, Placed(id)', \A d \in Ids \ {id} : Untouched(d),
           index.rows \subseteq index'.rows, index'.dead \subseteq index'.rows
    PROVE  IInv'
<1>1. IsFiniteSet(InTiers')
  <2>1. InTiers' \subseteq InTiers \cup {id}
    BY DEF InTiers, Untouched
  <2>2. IsFiniteSet(InTiers \cup {id})
    BY FS_AddElement DEF IInv
  <2> QED
    BY <2>1, <2>2, FS_Subset
<1>2. \A d \in Ids : Placed(d)'
  BY StaysPlaced DEF IInv
<1> QED
  BY <1>1, <1>2 DEF IInv

LEMMA InsertKeeps ==
    ASSUME IInv, NEW id \in Ids, NEW v \in Values, Insert(id, v)
    PROVE  IInv'
<1>1. Point(v, v) \in Points /\ Point(v, v) # None /\ Point(v, v).metadata = v /\ v # NoPoint
  BY PointFacts DEF Slots
<1>2. Typed'
  BY <1>1 DEF IInv, Typed, Insert
<1>3. /\ hot'[id] = Point(v, v) /\ tiers'[id] = "hot" /\ latest'[id] = v
      /\ id \notin lost' /\ id \in index'.rows
      /\ index.rows \subseteq index'.rows /\ index'.dead = index.dead
  BY DEF IInv, Typed, Insert
<1>4. Placed(id)'
  BY <1>1, <1>3 DEF Placed
<1>5. \A d \in Ids \ {id} : Untouched(d)
  BY DEF IInv, Typed, Insert, Untouched
<1> QED
  BY <1>2, <1>3, <1>4, <1>5, OneMoves DEF IInv

LEMMA RemoveKeeps ==
    ASSUME IInv, NEW id \in Ids, RemovePoint(id)
    PROVE  IInv'
<1>1. /\ warm' \in Stores /\ DOMAIN warm'.offsets = DOMAIN warm.offsets \ {id}
  BY RemoveKeepsStore DEF IInv, Typed, RemovePoint
<1>2. hot[id] # None => id \in index.rows
  BY DEF IInv, Placed
<1>3. /\ index' \in [rows : SUBSET Ids, dead : SUBSET Ids]
      /\ index'.rows = index.rows /\ index'.dead \subseteq index'.rows
  BY <1>2 DEF IInv, Typed, RemovePoint
<1>4. Typed'
  BY <1>1, <1>3, PointFacts DEF IInv, Typed, RemovePoint
<1>5. /\ hot'[id] = None /\ tiers'[id] = "none" /\ latest'[id] = NoPoint
      /\ meta'[id] = NoPoint /\ cold'[id] = None /\ id \notin lost'
  BY DEF IInv, Typed, RemovePoint
<1>6. Placed(id)'
  BY <1>1, <1>5 DEF Placed
<1>7. \A d \in Ids \ {id} : Untouched(d)
  BY <1>1 DEF IInv, Typed, RemovePoint, Untouched
<1> QED
  BY <1>3, <1>4, <1>6, <1>7, OneMoves DEF IInv

LEMMA AccessKeeps ==
    ASSUME IInv, ideal' \in [Ids -> {"hot", "warm", "cold"}],
           UNCHANGED <<hot, index, warm, meta, cold, tiers, latest, lost>>
    PROVE  IInv'
BY DEF IInv, Typed, InTiers, Placed, IsWarm

(* What a point in warm or cold has is what it takes to another tier.      *)
LEMMA WarmPoint ==
    ASSUME IInv, NEW id \in Ids, tiers[id] = "warm", IsWarm(id)
    PROVE  /\ HydrateFromWarm(id) \in Points /\ HydrateFromWarm(id) # None
           /\ HydrateFromWarm(id).metadata = latest[id]
           /\ latest[id] \in Values /\ id \notin lost
<1>1. id \in DOMAIN warm.offsets /\ id \notin lost /\ meta[id] = latest[id] /\ meta[id] \in Values
  BY DEF IInv, Typed, Placed, IsWarm
<1>2. ReadVector(warm, id) \in Slots
  BY <1>1, ReadIsSlot DEF IInv, Typed
<1> QED
  BY <1>1, <1>2, PointFacts DEF HydrateFromWarm

LEMMA PromoteKeeps ==
    ASSUME IInv, NEW id \in Ids, PromoteToHot(id)
    PROVE  IInv'
<1>1. tiers[id] \in {"warm", "cold"} /\ Get(id) # None
  BY DEF PromoteToHot
<1>2. /\ Get(id) \in Points /\ Get(id).metadata = latest[id]
      /\ latest[id] # NoPoint /\ id \notin lost
  <2>1. CASE tiers[id] = "warm"
    <3>1. Get(id) = HydrateFromWarm(id) /\ IsWarm(id)
      BY <1>1, <2>1 DEF Get, HydrateFromWarm
    <3> QED
      BY <2>1, <3>1, WarmPoint, PointFacts
  <2>2. CASE tiers[id] = "cold"
    <3>1. Get(id) = cold[id]
      BY <2>2 DEF Get
    <3> QED
      BY <2>2, <3>1 DEF IInv, Typed, Placed
  <2> QED
    BY <1>1, <2>1, <2>2
<1> HIDE DEF Get
<1>3. /\ warm' \in Stores
      /\ warm' = warm \/ DOMAIN warm'.offsets = DOMAIN warm.offsets \ {id}
  BY RemoveKeepsStore DEF IInv, Typed, PromoteToHot
<1>4. /\ index' \in [rows : SUBSET Ids, dead : SUBSET Ids]
      /\ index.rows \subseteq index'.rows /\ id \in index'.rows /\ index'.dead \subseteq index'.rows
  BY DEF IInv, Typed, PromoteToHot
<1>5. /\ meta' \in [Ids -> Values \cup {NoPoint}] /\ cold' \in [Ids -> Points]
      /\ \A d \in Ids \ {id} : meta'[d] = meta[d] /\ cold'[d] = cold[d]
  BY PointFacts DEF IInv, Typed, PromoteToHot
<1>6. Typed'
  BY <1>2, <1>3, <1>4, <1>5 DEF IInv, Typed, PromoteToHot
<1>7. Placed(id)'
  <2>1. /\ hot'[id] = Get(id) /\ tiers'[id] = "hot" /\ latest'[id] = latest[id] /\ lost' = lost
    BY DEF IInv, Typed, PromoteToHot
  <2> QED
    BY <1>1, <1>2, <1>4, <2>1 DEF Placed
<1>8. \A d \in Ids \ {id} : Untouched(d)
  BY <1>3, <1>5 DEF IInv, Typed, PromoteToHot, Untouched
<1> QED
  BY <1>4, <1>6, <1>7, <1>8, OneMoves

LEMMA DemoteWarmKeeps ==
    ASSUME IInv, NEW id \in Ids, DemoteToWarm(id)
    PROVE  IInv'
<1>1. /\ hot[id] # None /\ hot[id] \in Points /\ tiers[id] = "hot" /\ hot[id].metadata = latest[id]
      /\ warm \in Stores /\ id \notin lost /\ latest[id] # NoPoint
      /\ UNCHANGED <<index, cold, ideal, latest, lost>>
  BY DEF DemoteToWarm, IInv, Typed, Placed
<1>2. hot[id].vector \in Slots /\ hot[id].metadata \in Values
  BY <1>1, PointFacts
<1>3. CASE /\ warm' = AddVector(warm, id, hot[id].vector)
           /\ meta' = [meta EXCEPT ![id] = hot[id].metadata]
           /\ hot' = [hot EXCEPT ![id] = None]
           /\ tiers' = [tiers EXCEPT ![id] = "warm"]
  <2>1. warm' \in Stores /\ DOMAIN warm'.offsets = DOMAIN warm.offsets \cup {id}
    BY <1>1, <1>2, <1>3, AddKeepsStore
  <2>2. Typed'
    BY <1>1, <1>2, <1>3, <2>1, PointFacts DEF IInv, Typed
  <2>3. Placed(id)'
    <3>1. hot'[id] = None /\ tiers'[id] = "warm" /\ meta'[id] = latest[id]
      BY <1>1, <1>3 DEF IInv, Typed
    <3> QED
      BY <1>1, <2>1, <3>1 DEF Placed
  <2>4. \A d \in Ids \ {id} : Untouched(d)
    BY <1>1, <1>3, <2>1 DEF IInv, Typed, Untouched
  <2> QED
    BY <1>1, <2>2, <2>3, <2>4, OneMoves DEF IInv
<1>4. CASE warm' \in FailedAdds(warm, id, hot[id].vector) /\ UNCHANGED <<meta, hot, tiers>>
  <2>1. /\ warm' \in Stores /\ DOMAIN warm.offsets \subseteq DOMAIN warm'.offsets
        /\ DOMAIN warm'.offsets \subseteq DOMAIN warm.offsets \cup {id}
    BY <1>1, <1>2, <1>4, FailKeepsStore
  <2>2. Typed'
    BY <1>1, <1>4, <2>1 DEF IInv, Typed
  <2>3. Placed(id)'
    BY <1>1, <1>4 DEF IInv, Placed
  <2>4. \A d \in Ids \ {id} : Untouched(d)
    BY <1>1, <1>4, <2>1 DEF Untouched
  <2> QED
    BY <1>1, <2>2, <2>3, <2>4, OneMoves DEF IInv
<1> QED
  BY <1>3, <1>4 DEF DemoteToWarm

LEMMA DemoteColdKeeps ==
    ASSUME IInv, NEW id \in Ids, DemoteToCold(id)
    PROVE  IInv'
<1> DEFINE p == HydrateFromWarm(id)
<1>1. /\ tiers[id] = "warm" /\ IsWarm(id) /\ cold' = [cold EXCEPT ![id] = p]
      /\ UNCHANGED <<hot, index, ideal, latest, lost>>
  BY DEF DemoteToCold
<1>2. p \in Points /\ p.metadata = latest[id] /\ latest[id] \in Values /\ id \notin lost
  BY <1>1, WarmPoint
<1> HIDE DEF p
<1>3. warm' \in Stores /\ DOMAIN warm'.offsets = DOMAIN warm.offsets \ {id}
  BY RemoveKeepsStore DEF IInv, Typed, DemoteToCold
<1>4. Typed'
  BY <1>1, <1>2, <1>3 DEF IInv, Typed, DemoteToCold
<1>5. Placed(id)'
  <2>1. hot'[id] = None /\ tiers'[id] = "cold" /\ cold'[id] = p
    BY <1>1 DEF IInv, Typed, Placed, DemoteToCold
  <2> QED
    BY <1>1, <1>2, <1>3, <2>1, PointFacts DEF Placed, IsWarm
<1>6. \A d \in Ids \ {id} : Untouched(d)
  BY <1>1, <1>3 DEF IInv, Typed, DemoteToCold, Untouched
<1> QED
  BY <1>1, <1>4, <1>5, <1>6, OneMoves DEF IInv

-----------------------------------------------------------------------------
(***************************************************************************)
(* The compaction                                                          *)
(***************************************************************************)
LEMMA Ranks ==
    /\ ShouldDemote("hot", "warm") /\ ShouldDemote("hot", "cold") /\ ShouldDemote("warm", "cold")
    /\ \A tier \in {"none", "hot", "warm", "cold"} : ~ShouldDemote(tier, "hot")
    /\ \A to \in {"hot", "warm", "cold"} : ~ShouldDemote("none", to) /\ ~ShouldDemote("cold", to)
    /\ ~ShouldDemote("warm", "warm")
BY DEF ShouldDemote, Depth

LEMMA SeqOfSet ==
    ASSUME NEW S, IsFiniteSet(S), NEW s \in SetToSeqs(S)
    PROVE  /\ s \in Seq(S) /\ ToSet(s) = S
           /\ \A n \in 0..Len(s) : /\ SubSeq(s, 1, n) \in Seq(S)
                                   /\ ToSet(SubSeq(s, 1, n)) = {s[i] : i \in 1..n}
           /\ ToSet(SubSeq(s, 1, Len(s))) = S
<1> DEFINE k == Cardinality(S)
<1>1. k \in Nat
  BY FS_CardinalityType
<1>2. s \in [1..k -> S] /\ \A i, j \in 1..k : i # j => s[i] # s[j]
  BY DEF SetToSeqs
<1>3. s \in Surjection(1..k, S)
  <2>1. s \in Injection(1..k, S)
    BY <1>2 DEF Injection, IsInjective
  <2>2. Cardinality(1..k) = k
    BY <1>1, FS_Interval
  <2> QED
    BY <2>1, <2>2, FS_Injection
<1>4. s \in Seq(S) /\ Len(s) = k /\ DOMAIN s = 1..k
  BY <1>1, <1>2, SeqDef
<1> HIDE DEF k
<1>5. ToSet(s) = S
  BY <1>2, <1>3, <1>4 DEF ToSet, Surjection
<1>6. ASSUME NEW n \in 0..Len(s)
      PROVE  SubSeq(s, 1, n) \in Seq(S) /\ ToSet(SubSeq(s, 1, n)) = {s[i] : i \in 1..n}
  <2> DEFINE u == SubSeq(s, 1, n)
  <2>1. n \in Nat /\ \A i \in 1..n : s[i] \in S
    BY <1>1, <1>2, <1>4
  <2>2. /\ u \in Seq(S) /\ Len(u) = n
        /\ \A i \in 1..n : u[i] = s[i]
    BY <2>1, SubSeqProperties
  <2> HIDE DEF u
  <2>3. DOMAIN u = 1..n
    BY <2>2, LenProperties
  <2>4. ToSet(u) = {s[i] : i \in 1..n}
    BY <2>2, <2>3 DEF ToSet
  <2> QED
    BY <2>2, <2>4 DEF u
<1>7. ToSet(SubSeq(s, 1, Len(s))) = S
  BY <1>4, <1>5, SubSeqFull
<1> QED
  BY <1>4, <1>5, <1>6, <1>7

(* What is to go warm is hot, and what is to go cold is that or warm.      *)
LEMMA Candidates ==
    ASSUME IInv
    PROVE  /\ IsFiniteSet(ToWarm) /\ IsFiniteSet(ToCold)
           /\ ToWarm \subseteq Ids /\ ToCold \subseteq Ids
           /\ \A id \in ToWarm : /\ tiers[id] = "hot" /\ hot[id] # None /\ id \notin lost
                                 /\ hot[id].vector \in Slots /\ hot[id].metadata = latest[id]
                                 /\ latest[id] \in Values
           /\ \A id \in ToCold \ ToWarm : tiers[id] = "warm" /\ IsWarm(id) /\ id \notin lost
<1>1. /\ \A id \in Ids : Placed(id) /\ hot[id] \in Points /\ tiers[id] \in {"none", "hot", "warm", "cold"}
                         /\ ideal[id] \in {"hot", "warm", "cold"}
      /\ IsFiniteSet(InTiers)
  BY DEF IInv, Typed
<1>2. ToWarm \subseteq InTiers /\ ToCold \subseteq InTiers
  BY DEF ToWarm, ToCold, ShouldDemote, InTiers
<1>3. ASSUME NEW id \in ToWarm
      PROVE  /\ tiers[id] = "hot" /\ hot[id] # None /\ id \notin lost
             /\ hot[id].vector \in Slots /\ hot[id].metadata = latest[id] /\ latest[id] \in Values
  <2>1. id \in Ids /\ tiers[id] = "hot"
    BY DEF ToWarm
  <2>2. hot[id] # None /\ id \notin lost /\ hot[id].metadata = latest[id]
    BY <1>1, <2>1 DEF Placed
  <2> QED
    BY <1>1, <2>1, <2>2, PointFacts
<1>4. ASSUME NEW id \in ToCold, id \notin ToWarm
      PROVE  tiers[id] = "warm" /\ IsWarm(id) /\ id \notin lost
  <2>1. id \in Ids /\ ideal[id] = "cold" /\ ShouldDemote(tiers[id], "cold") /\ (tiers[id] = "hot" \/ IsWarm(id))
    BY DEF ToCold
  <2>2. tiers[id] # "hot"
    BY <1>4, <2>1, Ranks DEF ToWarm
  <2>3. tiers[id] = "warm"
    BY <1>1, <2>1, <2>2, Ranks
  <2> QED
    BY <1>1, <2>1, <2>2, <2>3 DEF Placed, IsWarm
<1>5. IsFiniteSet(ToWarm) /\ IsFiniteSet(ToCold)
  BY <1>1, <1>2, FS_Subset
<1> QED
  BY <1>2, <1>3, <1>4, <1>5 DEF InTiers

(* Both batches, the second up to its n-th point.                          *)
LEMMA BatchesKeep ==
    ASSUME IInv, UNCHANGED <<index, ideal, latest>>,
           NEW s \in SetToSeqs(ToWarm), NEW t \in SetToSeqs(ToCold), NEW n \in 0..Len(t),
           DemoteBatchToCold(s, t, n)
    PROVE  IInv'
<1> DEFINE w == AddAll(warm, s)
           done == ToSet(SubSeq(t, 1, n))
           tried == ToSet(SubSeq(t, 1, IF n < Len(t) THEN n + 1 ELSE n))
<1>1. /\ s \in Seq(ToWarm) /\ ToSet(s) = ToWarm /\ t \in Seq(ToCold) /\ ToSet(t) = ToCold
      /\ Len(t) \in Nat
      /\ \A k \in 0..Len(t) : ToSet(SubSeq(t, 1, k)) = {t[i] : i \in 1..k}
  BY Candidates, SeqOfSet, LenProperties
<1>2. done \subseteq tried /\ tried \subseteq ToCold
  <2>1. (IF n < Len(t) THEN n + 1 ELSE n) \in 0..Len(t)
    BY <1>1
  <2>2. /\ done = {t[i] : i \in 1..n}
        /\ tried = {t[i] : i \in 1..(IF n < Len(t) THEN n + 1 ELSE n)}
    BY <1>1, <2>1
  <2>3. \A i \in 1..Len(t) : t[i] \in ToCold
    BY <1>1, ElementOfSeq
  <2> HIDE DEF done, tried
  <2> QED
    BY <1>1, <2>2, <2>3
<1>3. w \in Stores /\ DOMAIN w.offsets = DOMAIN warm.offsets \cup ToWarm
  <2>1. s \in Seq(Ids) /\ \A i \in 1..Len(s) : hot[s[i]].vector \in Slots
    <3>1. \A i \in 1..Len(s) : s[i] \in ToWarm
      BY <1>1, ElementOfSeq
    <3>2. s \in Seq(Ids)
      BY <1>1, Candidates
    <3> QED
      BY <3>1, <3>2, Candidates
  <2> QED
    BY <1>1, <2>1, AddAllKeepsStore DEF IInv, Typed
<1> HIDE DEF w, done, tried
<1>4. /\ hot' = [id \in Ids |-> IF id \in ToWarm THEN None ELSE hot[id]]
      /\ warm' = RemoveVectors(w, ToCold)
      /\ meta' = [id \in Ids |-> IF id \in tried THEN NoPoint ELSE MetaAfter(s)[id]]
      /\ cold' = [id \in Ids |-> IF id \in done THEN Point(ReadVector(w, id), MetaAfter(s)[id])
                                 ELSE cold[id]]
      /\ tiers' = [id \in Ids |-> IF id \in done THEN "cold"
                                  ELSE IF id \in ToWarm THEN "warm" ELSE tiers[id]]
      /\ lost' = lost \cup (ToCold \ done)
  BY <1>1 DEF DemoteBatchToCold, w, done, tried
<1>5. warm' \in Stores /\ DOMAIN warm'.offsets = (DOMAIN warm.offsets \cup ToWarm) \ ToCold
  BY <1>3, <1>4, RemoveKeepsStore
<1>6. /\ \A id \in ToWarm : MetaAfter(s)[id] = latest[id] /\ latest[id] \in Values
      /\ \A id \in Ids \ ToWarm : MetaAfter(s)[id] = meta[id]
  BY <1>1, Candidates DEF MetaAfter
<1>7. ASSUME NEW id \in done
      PROVE  /\ cold'[id] \in Points /\ cold'[id].metadata = latest[id]
             /\ latest[id] \in Values /\ id \notin lost
  <2>1. id \in ToCold /\ id \in Ids
    BY <1>2, Candidates
  <2>2. MetaAfter(s)[id] = latest[id] /\ latest[id] \in Values /\ id \in DOMAIN w.offsets /\ id \notin lost
    <3>1. CASE id \in ToWarm
      BY <1>3, <1>6, <3>1, Candidates
    <3>2. CASE id \notin ToWarm
      <4>1. tiers[id] = "warm" /\ IsWarm(id)
        BY <2>1, <3>2, Candidates
      <4>2. id \in DOMAIN warm.offsets /\ latest[id] \in Values /\ meta[id] = latest[id] /\ id \notin lost
        BY <2>1, <4>1 DEF IInv, Typed, Placed, IsWarm
      <4> QED
        BY <1>3, <1>6, <2>1, <3>2, <4>2
    <3> QED
      BY <3>1, <3>2
  <2>3. ReadVector(w, id) \in Slots
    BY <1>3, <2>2, ReadIsSlot
  <2>4. cold'[id] = Point(ReadVector(w, id), MetaAfter(s)[id])
    BY <1>4, <2>1
  <2> QED
    BY <2>2, <2>3, <2>4, PointFacts
<1>8. Typed'
  <2>1. hot' \in [Ids -> Points]
    BY <1>4, PointFacts DEF IInv, Typed
  <2>2. cold' \in [Ids -> Points]
    <3>1. \A id \in Ids : id \notin done => cold'[id] = cold[id]
      BY <1>4
    <3>2. \A id \in Ids : cold'[id] \in Points
      BY <1>7, <3>1 DEF IInv, Typed
    <3> QED
      BY <1>4, <3>2
  <2>3. meta' \in [Ids -> Values \cup {NoPoint}]
    <3>1. \A id \in Ids : MetaAfter(s)[id] \in Values \cup {NoPoint}
      BY <1>6 DEF IInv, Typed
    <3> QED
      BY <1>4, <3>1
  <2>4. tiers' \in [Ids -> {"none", "hot", "warm", "cold"}]
    BY <1>4 DEF IInv, Typed
  <2>5. lost' \subseteq Ids
    BY <1>4, Candidates DEF IInv, Typed
  <2> QED
    BY <1>5, <2>1, <2>2, <2>3, <2>4, <2>5 DEF IInv, Typed
<1>9. ASSUME NEW id \in Ids PROVE Placed(id)' /\ (tiers'[id] # "none" => tiers[id] # "none")
  <2>1. Placed(id)
    BY DEF IInv
  <2>2. CASE id \in done
    <3>1. id \in ToCold /\ (id \notin ToWarm => tiers[id] = "warm") /\ (id \in ToWarm => tiers[id] = "hot")
      BY <1>2, <2>2, Candidates
    <3>2. /\ tiers'[id] = "cold" /\ hot'[id] = None /\ id \notin DOMAIN warm'.offsets
          /\ latest'[id] = latest[id] /\ id \notin lost'
      BY <1>4, <1>5, <1>7, <2>1, <2>2, <3>1 DEF Placed
    <3>3. cold'[id].metadata = latest[id] /\ latest[id] # NoPoint
      BY <1>7, <2>2, PointFacts
    <3> QED
      BY <3>1, <3>2, <3>3 DEF Placed, IsWarm
  <2>3. CASE id \in ToCold \ done
    <3>1. (id \notin ToWarm => tiers[id] = "warm") /\ (id \in ToWarm => tiers[id] = "hot")
      BY <2>3, Candidates
    <3>2. /\ tiers'[id] = "warm" /\ hot'[id] = None /\ id \notin DOMAIN warm'.offsets
          /\ latest'[id] = latest[id] /\ id \in lost' /\ latest[id] # NoPoint
      BY <1>4, <1>5, <2>1, <2>3, <3>1 DEF Placed
    <3> QED
      BY <3>1, <3>2 DEF Placed
  <2>4. CASE id \in ToWarm \ ToCold
    <3>1. tiers[id] = "hot" /\ id \notin lost /\ latest[id] \in Values
      BY <2>4, Candidates
    <3>2. /\ tiers'[id] = "warm" /\ hot'[id] = None /\ id \in DOMAIN warm'.offsets
          /\ latest'[id] = latest[id] /\ id \notin lost' /\ meta'[id] = latest[id]
      BY <1>2, <1>4, <1>5, <1>6, <2>4, <3>1
    <3> QED
      BY <3>1, <3>2, PointFacts DEF Placed
  <2>5. CASE id \notin ToWarm \cup ToCold
    <3>1. Untouched(id) /\ tiers'[id] = tiers[id]
      BY <1>2, <1>4, <1>5, <1>6, <2>5 DEF Untouched
    <3> QED
      BY <2>1, <3>1, StaysPlaced
  <2> QED
    BY <1>2, <2>2, <2>3, <2>4, <2>5
<1>10. IsFiniteSet(InTiers')
  <2>1. InTiers' \subseteq InTiers
    BY <1>9 DEF InTiers
  <2> QED
    BY <2>1, FS_Subset DEF IInv
<1> QED
  BY <1>8, <1>9, <1>10 DEF IInv

(* A vector of the first batch that cannot be added.                       *)
LEMMA AddFailsKeeps ==
    ASSUME IInv, NEW s \in SetToSeqs(ToWarm), NEW n \in 1..Len(s),
           warm' \in FailedAdds(AddAll(warm, SubSeq(s, 1, n - 1)), s[n], hot[s[n]].vector),
           UNCHANGED <<hot, index, meta, cold, tiers, ideal, latest, lost>>
    PROVE  IInv'
<1> DEFINE u == SubSeq(s, 1, n - 1)
           w == AddAll(warm, u)
<1>1. /\ s \in Seq(ToWarm) /\ Len(s) \in Nat /\ n - 1 \in 0..Len(s)
      /\ u \in Seq(ToWarm) /\ s[n] \in ToWarm
  <2>1. s \in Seq(ToWarm) /\ \A k \in 0..Len(s) : SubSeq(s, 1, k) \in Seq(ToWarm)
    BY Candidates, SeqOfSet
  <2>2. Len(s) \in Nat
    BY <2>1, LenProperties
  <2>3. n - 1 \in 0..Len(s)
    BY <2>2
  <2> QED
    BY <2>1, <2>2, <2>3, ElementOfSeq
<1> HIDE DEF u
<1>2. w \in Stores /\ DOMAIN w.offsets = DOMAIN warm.offsets \cup ToSet(u) /\ ToSet(u) \subseteq ToWarm
  <2>1. \A i \in 1..Len(u) : u[i] \in ToWarm
    BY <1>1, ElementOfSeq
  <2>2. u \in Seq(Ids) /\ \A i \in 1..Len(u) : hot[u[i]].vector \in Slots
    BY <1>1, <2>1, Candidates
  <2>3. DOMAIN u = 1..Len(u)
    BY <1>1, LenProperties
  <2>4. warm \in Stores
    BY DEF IInv, Typed
  <2>5. w \in Stores /\ DOMAIN w.offsets = DOMAIN warm.offsets \cup ToSet(u)
    BY <2>2, <2>4, AddAllKeepsStore
  <2>6. ToSet(u) \subseteq ToWarm
    BY <2>1, <2>3 DEF ToSet
  <2> QED
    BY <2>5, <2>6
<1> HIDE DEF w
<1>3. warm' \in FailedAdds(w, s[n], hot[s[n]].vector) /\ s[n] \in Ids /\ hot[s[n]].vector \in Slots
  BY <1>1, Candidates DEF w, u
<1>4. /\ warm' \in Stores /\ DOMAIN w.offsets \subseteq DOMAIN warm'.offsets
      /\ DOMAIN warm'.offsets \subseteq DOMAIN w.offsets \cup {s[n]}
  BY <1>2, <1>3, FailKeepsStore
<1>5. ASSUME NEW id \in Ids PROVE Placed(id)'
  <2>1. CASE id \in ToWarm
    <3>1. tiers[id] = "hot"
      BY <2>1, Candidates
    <3> QED
      BY <3>1 DEF IInv, Placed
  <2>2. CASE id \notin ToWarm
    <3>1. Untouched(id)
      BY <1>1, <1>2, <1>4, <2>2 DEF Untouched
    <3> QED
      BY <3>1, StaysPlaced DEF IInv
  <2> QED
    BY <2>1, <2>2
<1> QED
  BY <1>4, <1>5 DEF IInv, Typed, InTiers

LEMMA CompactionKeeps == ASSUME IInv, RunCompaction PROVE IInv'
<1>1. UNCHANGED <<index, ideal, latest>>
  BY DEF RunCompaction
<1>2. CASE CompactAll
  <2>1. PICK s \in SetToSeqs(ToWarm), t \in SetToSeqs(ToCold) : DemoteBatchToCold(s, t, Len(t))
    BY <1>2 DEF CompactAll
  <2>2. Len(t) \in 0..Len(t)
    BY Candidates, SeqOfSet, LenProperties
  <2> QED
    BY <1>1, <2>1, <2>2, BatchesKeep
<1>3. CASE CompactFails
  <2>1. PICK s \in SetToSeqs(ToWarm), t \in SetToSeqs(ToCold) :
           \/ \E n \in 0..(Len(t) - 1) : DemoteBatchToCold(s, t, n)
           \/ /\ \E n \in 1..Len(s) :
                    warm' \in FailedAdds(AddAll(warm, SubSeq(s, 1, n - 1)), s[n], hot[s[n]].vector)
              /\ UNCHANGED <<hot, meta, cold, tiers, lost>>
    BY <1>3 DEF CompactFails
  <2>2. \A n \in 0..(Len(t) - 1) : n \in 0..Len(t)
    <3>1. Len(t) \in Nat
      BY Candidates, SeqOfSet, LenProperties
    <3> QED
      BY <3>1
  <2> QED
    BY <1>1, <2>1, <2>2, BatchesKeep, AddFailsKeeps
<1> QED
  BY <1>2, <1>3 DEF RunCompaction

-----------------------------------------------------------------------------
(* The theorems *)

LEMMA InitHolds == Init => IInv
<1> SUFFICES ASSUME Init PROVE IInv
  OBVIOUS
<1>1. warm = [slots |-> <<>>, offsets |-> <<>>] /\ DOMAIN warm.offsets = {}
  BY DEF Init
<1>2. warm \in Stores
  <2>1. <<>> \in [{} -> Nat] /\ <<>> \in Seq(Slots) /\ IsFiniteSet({}) /\ {} \in SUBSET Ids
    BY FS_EmptySet
  <2>2. \A k \in Nat : Cardinality(Below(<<>>, k)) <= k
    <3>1. \A k \in Nat : Below(<<>>, k) = {}
      BY DEF Below
    <3> QED
      BY <3>1, FS_EmptySet
  <2> QED
    BY <1>1, <2>1, <2>2, IsStore
<1>3. Typed
  BY <1>2, PointFacts DEF Init, Typed
<1>4. InTiers = {} /\ \A id \in Ids : Placed(id)
  BY <1>1, PointFacts DEF Init, InTiers, Placed
<1> QED
  BY <1>3, <1>4, FS_EmptySet DEF Init, IInv

LEMMA NextKeeps == IInv /\ [Next]_vars => IInv'
<1> SUFFICES ASSUME IInv, [Next]_vars PROVE IInv'
  OBVIOUS
<1>1. CASE UNCHANGED vars
  BY <1>1, AccessKeeps DEF vars, IInv, Typed
<1>2. ASSUME NEW ids, Access(ids) PROVE IInv'
  <2>1. ideal' \in [Ids -> {"hot", "warm", "cold"}]
    BY <1>2 DEF Access, IInv, Typed
  <2> QED
    BY <1>2, <2>1, AccessKeeps DEF Access
<1>3. ASSUME NEW id \in Ids, TimePasses(id) PROVE IInv'
  <2>1. ideal' \in [Ids -> {"hot", "warm", "cold"}]
    BY <1>3 DEF TimePasses, IInv, Typed
  <2> QED
    BY <1>3, <2>1, AccessKeeps DEF TimePasses
<1> QED
  BY <1>1, <1>2, <1>3, InsertKeeps, RemoveKeeps, PromoteKeeps, DemoteWarmKeeps, DemoteColdKeeps,
     CompactionKeeps DEF Next

(* The inductive invariant holds in every reachable state, for any ids.    *)
THEOREM Invariance == Spec => []IInv
BY InitHolds, NextKeeps, PTL DEF Spec

(* No point is lost between the tiers but by a batch whose write fails,    *)
(* and no removed one comes back, for any number of points in any order of *)
(* insertions, removals, promotions and compactions (TieredCollection).    *)
THEOREM NothingLost == Spec => []TierInv
<1>1. IInv => TierInv
  <2> SUFFICES ASSUME IInv PROVE TierInv
    OBVIOUS
  <2>1. TypeOK
    BY StoreFacts DEF IInv, Typed, TypeOK
  <2>2. Kept
    <3> SUFFICES ASSUME NEW id \in Ids \ lost, latest[id] # NoPoint
                 PROVE  GetFromAnyTier(id).metadata = latest[id] /\ Get(id) = GetFromAnyTier(id)
      BY DEF Kept
    <3>1. Placed(id) /\ tiers[id] \in {"hot", "warm", "cold"}
      BY DEF IInv, Typed, Placed
    <3>2. CASE tiers[id] = "hot"
      BY <3>1, <3>2 DEF Placed, Get, GetFromAnyTier
    <3>3. CASE tiers[id] = "warm"
      <4>1. hot[id] = None /\ IsWarm(id)
        BY <3>1, <3>3 DEF Placed, IsWarm
      <4>2. HydrateFromWarm(id).metadata = latest[id]
        BY <3>3, <4>1, WarmPoint
      <4> QED
        BY <3>3, <4>1, <4>2 DEF Get, GetFromAnyTier
    <3>4. CASE tiers[id] = "cold"
      BY <3>1, <3>4 DEF Placed, Get, GetFromAnyTier
    <3> QED
      BY <3>1, <3>2, <3>3, <3>4
  <2>3. Gone
    BY DEF IInv, Placed, Gone, Get, GetFromAnyTier, IsWarm
  <2> QED
    BY <2>1, <2>2, <2>3 DEF TierInv
<1> QED
  BY <1>1, Invariance, PTL

(* After a compaction that does not fail, no point is hotter than its last *)
(* access calls for (run_compaction).                                      *)
THEOREM AllDemoted == Spec => Demoted
<1>1. IInv /\ [Next]_vars
      => (Call /\ CompactAll => \A id \in Ids \ lost : ~ShouldDemote(tiers'[id], ideal[id]))
  <2> SUFFICES ASSUME IInv, CompactAll, NEW id \in Ids \ lost
               PROVE  ~ShouldDemote(tiers'[id], ideal[id])
    OBVIOUS
  <2>1. PICK s \in SetToSeqs(ToWarm), t \in SetToSeqs(ToCold) : DemoteBatchToCold(s, t, Len(t))
    BY DEF CompactAll
  <2>2. ToSet(s) = ToWarm /\ ToSet(SubSeq(t, 1, Len(t))) = ToCold
    BY Candidates, SeqOfSet
  <2>3. tiers'[id] = IF id \in ToCold THEN "cold" ELSE IF id \in ToWarm THEN "warm" ELSE tiers[id]
    BY <2>1, <2>2 DEF DemoteBatchToCold
  <2>4. /\ Placed(id) /\ tiers[id] \in {"none", "hot", "warm", "cold"}
        /\ ideal[id] \in {"hot", "warm", "cold"}
    BY DEF IInv, Typed
  <2>5. tiers[id] = "warm" => IsWarm(id)
    BY <2>4 DEF Placed, IsWarm
  <2>6. CASE ideal[id] = "hot"
    BY <2>3, <2>4, <2>6, Ranks
  <2>7. CASE ideal[id] = "warm"
    <3>1. tiers[id] = "hot" => id \in ToWarm
      BY <2>7, Ranks DEF ToWarm
    <3> QED
      BY <2>3, <2>4, <2>7, <3>1, Ranks
  <2>8. CASE ideal[id] = "cold"
    <3>1. tiers[id] \in {"hot", "warm"} => id \in ToCold
      BY <2>5, <2>8, Ranks DEF ToCold
    <3>2. tiers[id] # "hot" => id \notin ToWarm
      BY DEF ToWarm
    <3>3. CASE tiers[id] \in {"hot", "warm"}
      <4>1. tiers'[id] = "cold"
        BY <2>3, <3>1, <3>3
      <4> QED
        BY <2>8, <4>1, Ranks
    <3>4. CASE tiers[id] \in {"none", "cold"}
      <4>1. tiers'[id] \in {"none", "cold"}
        BY <2>3, <3>2, <3>4
      <4> QED
        BY <2>8, <4>1, Ranks
    <3> QED
      BY <2>4, <3>3, <3>4
  <2> QED
    BY <2>4, <2>6, <2>7, <2>8
<1> QED
  BY <1>1, Invariance, PTL DEF Spec, Demoted
=============================================================================
