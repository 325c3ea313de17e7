-------------------------- MODULE WsConnection_proofs --------------------------
(* Proofs about WsConnection. *)
EXTENDS WsConnection, Integers, WellFoundedInduction, SequenceTheorems, TLAPS

-----------------------------------------------------------------------------
(* Natural numbers, and functions defined by recursion on them *)

(* A nonempty set of natural numbers has a least element.                  *)
LEMMA LeastNatural ==
    ASSUME NEW T \in SUBSET Nat, T # {}
    PROVE  \E x \in T : \A y \in T : x <= y
<1>1. \E x \in T : \A y \in T : ~(<<y, x>> \in OpToRel(<, Nat))
  BY NatLessThanWellFounded, WFMin
<1>2. \A x, y \in T : ~(<<y, x>> \in OpToRel(<, Nat)) => ~(y < x)
  BY DEF OpToRel
<1>3. \A x, y \in T : ~(y < x) => x <= y
  OBVIOUS
<1> QED
  BY <1>1, <1>2, <1>3

(* What holds of 0 and goes on from each number to the next, always holds: *)
(* what does not would have a least exception.                             *)
LEMMA Induction ==
    ASSUME NEW T \in SUBSET Nat, 0 \in T, \A n \in T : n + 1 \in T
    PROVE  T = Nat
<1> SUFFICES ASSUME Nat \ T # {} PROVE FALSE
  OBVIOUS
<1>1. PICK n \in Nat \ T : \A m \in Nat \ T : n <= m
  BY LeastNatural
<1>2. n - 1 \in T
  BY <1>1
<1> QED
  BY <1>1, <1>2

(* A step of values of S, taken n times, has a value of S each time.       *)
Iterated(g, S, base, step, n) ==
    /\ g \in [0..n -> S] /\ g[0] = base
    /\ \A i \in 1..n : g[i] = step[<<i, g[i - 1]>>]

LEMMA Iterates ==
    ASSUME NEW S, NEW base \in S, NEW n \in Nat, NEW step \in [(1..n) \X S -> S]
    PROVE  \E g : Iterated(g, S, base, step, n)
<1> DEFINE T == {m \in Nat : m <= n => \E g : Iterated(g, S, base, step, m)}
<1>1. 0 \in T
  <2>1. Iterated([i \in 0..0 |-> base], S, base, step, 0)
    BY DEF Iterated
  <2> QED
    BY <2>1
<1>2. ASSUME NEW m \in T PROVE m + 1 \in T
  <2> SUFFICES ASSUME m + 1 <= n PROVE \E h : Iterated(h, S, base, step, m + 1)
    OBVIOUS
  <2>1. PICK g : Iterated(g, S, base, step, m)
    OBVIOUS
  <2> DEFINE h == [i \in 0..(m + 1) |-> IF i = m + 1 THEN step[<<i, g[m]>>] ELSE g[i]]
  <2>2. /\ \A i \in 0..m : i \in 0..(m + 1) /\ i # m + 1 /\ h[i] = g[i]
        /\ h[m + 1] = step[<<m + 1, g[m]>>]
    OBVIOUS
  <2>3. m \in Nat /\ g \in [0..m -> S] /\ g[m] \in S /\ m + 1 \in 1..n
    BY <2>1 DEF Iterated
  <2>4. h \in [0..(m + 1) -> S]
    BY <2>3
  <2> HIDE DEF h, T
  <2>5. ASSUME NEW i \in 1..(m + 1) PROVE h[i] = step[<<i, h[i - 1]>>]
    <3>1. CASE i = m + 1
      BY <2>2, <2>3, <3>1
    <3>2. CASE i \in 1..m
      <4>1. g[i] = step[<<i, g[i - 1]>>]
        BY <2>1, <3>2 DEF Iterated
      <4>2. i \in 0..m /\ i - 1 \in 0..m
        BY <2>3, <3>2
      <4> QED
        BY <2>2, <4>1, <4>2
    <3> QED
      BY <2>3, <3>1, <3>2
  <2>6. h[0] = base
    BY <2>1, <2>2, <2>3 DEF Iterated
  <2> QED
    BY <2>4, <2>5, <2>6 DEF Iterated
<1>3. T = Nat
  <2> HIDE DEF T
  <2>1. T \subseteq Nat
    BY DEF T
  <2> QED
    BY <1>1, <1>2, <2>1, Induction
<1>4. n \in T
  BY <1>3
<1> QED
  BY <1>4

-----------------------------------------------------------------------------
USE WsConnectionAssumption DEF tasks, clock

(***************************************************************************)
(* Sequences of numbers                                                    *)
(***************************************************************************)

LEMMA Members ==
    ASSUME NEW s \in Seq(Nat)
    PROVE  /\ Len(s) \in Nat /\ DOMAIN s = 1..Len(s) /\ \A i \in 1..Len(s) : s[i] \in Nat
           /\ \A i \in 1..Len(s) : s[i] \in ToSet(s)
           /\ \A x \in ToSet(s) : \E i \in 1..Len(s) : x = s[i]
           /\ Increasing(s) <=> \A i, j \in 1..Len(s) : i < j => s[i] < s[j]
<1>1. Len(s) \in Nat /\ DOMAIN s = 1..Len(s) /\ \A i \in 1..Len(s) : s[i] \in Nat
  BY LenProperties
<1> QED
  BY <1>1 DEF ToSet, Increasing

LEMMA AppendIncreases ==
    ASSUME NEW s \in Seq(Nat), NEW x \in Nat
    PROVE  /\ Append(s, x) \in Seq(Nat) /\ Len(Append(s, x)) = Len(s) + 1
           /\ ToSet(Append(s, x)) = ToSet(s) \cup {x}
           /\ Increasing(s) /\ (\A y \in ToSet(s) : y < x) => Increasing(Append(s, x))
<1> DEFINE t == Append(s, x)
<1>1. /\ t \in Seq(Nat) /\ Len(t) = Len(s) + 1
      /\ \A i \in 1..Len(s) : t[i] = s[i]
      /\ t[Len(s) + 1] = x
  BY AppendProperties
<1> HIDE DEF t
<1>2. \A i \in 1..Len(t) : i \in 1..Len(s) \/ i = Len(s) + 1
  BY <1>1, Members
<1>3. ToSet(t) = ToSet(s) \cup {x}
  <2>1. ASSUME NEW y \in ToSet(t) PROVE y \in ToSet(s) \cup {x}
    <3>1. PICK i \in 1..Len(t) : y = t[i]
      BY <1>1, Members
    <3>2. CASE i \in 1..Len(s)
      BY <1>1, <3>1, <3>2, Members
    <3>3. CASE i = Len(s) + 1
      BY <1>1, <3>1, <3>3
    <3> QED
      BY <1>2, <3>2, <3>3
  <2>2. ASSUME NEW y \in ToSet(s) PROVE y \in ToSet(t)
    <3>1. PICK i \in 1..Len(s) : y = s[i]
      BY Members
    <3>2. i \in 1..Len(t) /\ t[i] = y
      BY <1>1, <3>1, Members
    <3> QED
      BY <1>1, <3>2, Members
  <2>3. x \in ToSet(t)
    <3>1. Len(s) + 1 \in 1..Len(t)
      BY <1>1, Members
    <3> QED
      BY <1>1, <3>1, Members
  <2> QED
    BY <2>1, <2>2, <2>3
<1>4. ASSUME Increasing(s), \A y \in ToSet(s) : y < x,
             NEW i \in 1..Len(t), NEW j \in 1..Len(t), i < j
      PROVE  t[i] < t[j]
  <2>1. Len(s) \in Nat /\ i \in 1..Len(s)
    BY <1>1, <1>4, Members
  <2>2. CASE j \in 1..Len(s)
    BY <1>1, <1>4, <2>1, <2>2, Members
  <2>3. CASE j = Len(s) + 1
    BY <1>1, <1>4, <2>1, <2>3, Members
  <2> QED
    BY <1>2, <2>2, <2>3
<1> QED
  BY <1>1, <1>3, <1>4, Members DEF t

LEMMA TailIncreases ==
    ASSUME NEW s \in Seq(Nat), s # <<>>, Increasing(s)
    PROVE  /\ Head(s) \in Nat /\ Tail(s) \in Seq(Nat) /\ Len(Tail(s)) = Len(s) - 1
           /\ ToSet(s) = {Head(s)} \cup ToSet(Tail(s))
           /\ Increasing(Tail(s)) /\ \A y \in ToSet(Tail(s)) : Head(s) < y
<1> DEFINE t == Tail(s)
<1>1. /\ Head(s) = s[1] /\ t \in Seq(Nat) /\ Len(t) = Len(s) - 1
      /\ \A i \in 1..Len(t) : t[i] = s[i + 1]
      /\ Len(s) \in Nat \ {0}
  BY HeadTailProperties, EmptySeq
<1> HIDE DEF t
<1>2. \A i \in 1..Len(t) : i + 1 \in 1..Len(s) /\ 1 < i + 1
  BY <1>1
<1>3. 1 \in 1..Len(s)
  BY <1>1
<1>4. ToSet(s) = {s[1]} \cup ToSet(t)
  <2>1. ASSUME NEW y \in ToSet(s) PROVE y \in {s[1]} \cup ToSet(t)
    <3>1. PICK i \in 1..Len(s) : y = s[i]
      BY Members
    <3>2. CASE i # 1
      <4>1. i - 1 \in 1..Len(t) /\ t[i - 1] = y
        BY <1>1, <3>1, <3>2
      <4> QED
        BY <1>1, <4>1, Members
    <3> QED
      BY <3>1, <3>2
  <2>2. ASSUME NEW y \in ToSet(t) PROVE y \in ToSet(s)
    <3>1. PICK i \in 1..Len(t) : y = t[i]
      BY <1>1, Members
    <3> QED
      BY <1>1, <1>2, <3>1, Members
  <2> QED
    BY <1>3, <2>1, <2>2, Members
<1>5. ASSUME NEW i \in 1..Len(t), NEW j \in 1..Len(t), i < j PROVE t[i] < t[j]
  <2>1. i + 1 \in 1..Len(s) /\ j + 1 \in 1..Len(s) /\ i + 1 < j + 1
    BY <1>2, <1>5
  <2> QED
    BY <1>1, <2>1, Members
<1>6. ASSUME NEW y \in ToSet(t) PROVE s[1] < y
  <2>1. PICK i \in 1..Len(t) : y = t[i]
    BY <1>1, Members
  <2> QED
    BY <1>1, <1>2, <1>3, <2>1, Members
<1>7. Increasing(t)
  BY <1>1, <1>5, Members
<1> QED
  BY <1>1, <1>4, <1>6, <1>7 DEF t

LEMMA ConcatIncreases ==
    ASSUME NEW s \in Seq(Nat), NEW t \in Seq(Nat)
    PROVE  /\ s \o t \in Seq(Nat) /\ ToSet(s \o t) = ToSet(s) \cup ToSet(t)
           /\ Increasing(s) /\ Increasing(t) /\ (\A x \in ToSet(s), y \in ToSet(t) : x < y)
              => Increasing(s \o t)
<1> DEFINE u == s \o t
<1>1. /\ u \in Seq(Nat) /\ Len(u) = Len(s) + Len(t)
      /\ \A i \in 1..(Len(s) + Len(t)) : u[i] = IF i <= Len(s) THEN s[i] ELSE t[i - Len(s)]
      /\ Len(s) \in Nat /\ Len(t) \in Nat
  BY ConcatProperties, LenProperties
<1> HIDE DEF u
<1>2. \A i \in 1..Len(u) :
         \/ i \in 1..Len(s) /\ u[i] = s[i]
         \/ i > Len(s) /\ i - Len(s) \in 1..Len(t) /\ u[i] = t[i - Len(s)]
  BY <1>1
<1>3. /\ \A i \in 1..Len(s) : i \in 1..Len(u) /\ u[i] = s[i]
      /\ \A i \in 1..Len(t) : i + Len(s) \in 1..Len(u) /\ u[i + Len(s)] = t[i]
  <2>1. ASSUME NEW i \in 1..Len(s) PROVE i \in 1..Len(u) /\ u[i] = s[i]
    <3>1. i \in 1..(Len(s) + Len(t)) /\ i <= Len(s)
      BY <1>1
    <3> QED
      BY <1>1, <3>1
  <2>2. ASSUME NEW i \in 1..Len(t) PROVE i + Len(s) \in 1..Len(u) /\ u[i + Len(s)] = t[i]
    <3>1. i + Len(s) \in 1..(Len(s) + Len(t)) /\ ~(i + Len(s) <= Len(s)) /\ (i + Len(s)) - Len(s) = i
      BY <1>1
    <3> QED
      BY <1>1, <3>1
  <2> QED
    BY <2>1, <2>2
<1>4. ToSet(u) = ToSet(s) \cup ToSet(t)
  <2>1. ASSUME NEW y \in ToSet(u) PROVE y \in ToSet(s) \cup ToSet(t)
    <3>1. PICK i \in 1..Len(u) : y = u[i]
      BY <1>1, Members
    <3>2. CASE i \in 1..Len(s) /\ y = s[i]
      BY <3>2, Members
    <3>3. CASE i - Len(s) \in 1..Len(t) /\ y = t[i - Len(s)]
      BY <3>3, Members
    <3> QED
      BY <1>2, <3>1, <3>2, <3>3
  <2>2. ASSUME NEW y \in ToSet(s) PROVE y \in ToSet(u)
    <3>1. PICK i \in 1..Len(s) : y = s[i]
      BY Members
    <3> QED
      BY <1>1, <1>3, <3>1, Members
  <2>3. ASSUME NEW y \in ToSet(t) PROVE y \in ToSet(u)
    <3>1. PICK i \in 1..Len(t) : y = t[i]
      BY Members
    <3> QED
      BY <1>1, <1>3, <3>1, Members
  <2> QED
    BY <2>1, <2>2, <2>3
<1>5. ASSUME Increasing(s), Increasing(t), \A x \in ToSet(s), y \in ToSet(t) : x < y,
             NEW i \in 1..Len(u), NEW j \in 1..Len(u), i < j
      PROVE  u[i] < u[j]
  <2>1. CASE j <= Len(s)
    <3>1. i \in 1..Len(s) /\ j \in 1..Len(s) /\ u[i] = s[i] /\ u[j] = s[j]
      BY <1>1, <1>5, <2>1
    <3> QED
      BY <1>5, <3>1, Members
  <2>2. CASE i > Len(s)
    <3>1. /\ u[i] = t[i - Len(s)] /\ i - Len(s) \in 1..Len(t)
          /\ u[j] = t[j - Len(s)] /\ j - Len(s) \in 1..Len(t)
          /\ i - Len(s) < j - Len(s)
      <4>1. j > Len(s) /\ ~(i \in 1..Len(s)) /\ ~(j \in 1..Len(s)) /\ i - Len(s) < j - Len(s)
        BY <1>1, <1>5, <2>2
      <4> QED
        BY <1>2, <4>1
    <3> QED
      BY <1>5, <3>1, Members
  <2>3. CASE i <= Len(s) /\ j > Len(s)
    <3>1. u[i] = s[i] /\ i \in 1..Len(s) /\ u[j] = t[j - Len(s)] /\ j - Len(s) \in 1..Len(t)
      BY <1>1, <1>5, <2>3
    <3>2. u[i] \in ToSet(s) /\ u[j] \in ToSet(t)
      BY <3>1, Members
    <3> QED
      BY <1>5, <3>2
  <2> QED
    BY <1>1, <2>1, <2>2, <2>3
<1>6. Increasing(s) /\ Increasing(t) /\ (\A x \in ToSet(s), y \in ToSet(t) : x < y)
      => Increasing(u)
  BY <1>1, <1>5, Members
<1> QED
  BY <1>1, <1>4, <1>6 DEF u

(* Only keeps the order: by induction on how much of s was looked at.  Its *)
(* recursive function is a CHOOSE, of which there must be a case.          *)
OnlyStep(s, S, g, i) ==
    IF i = 0 THEN <<>> ELSE IF s[i] \in S THEN Append(g[i - 1], s[i]) ELSE g[i - 1]
OnlyUpto(s, S, g, n) == g = [i \in 0..n |-> OnlyStep(s, S, g, i)]

LEMMA OnlyDefined ==
    ASSUME NEW s \in Seq(Nat), NEW S
    PROVE  \E g : OnlyUpto(s, S, g, Len(s))
<1> DEFINE n == Len(s)
           step == [p \in (1..n) \X Seq(Nat) |->
                      IF s[p[1]] \in S THEN Append(p[2], s[p[1]]) ELSE p[2]]
<1>1. n \in Nat /\ \A i \in 1..n : s[i] \in Nat
  BY Members
<1>2. step \in [(1..n) \X Seq(Nat) -> Seq(Nat)]
  BY <1>1, AppendProperties
<1>3. <<>> \in Seq(Nat)
  OBVIOUS
<1>4. \A i \in 1..n, t \in Seq(Nat) :
         step[<<i, t>>] = IF s[i] \in S THEN Append(t, s[i]) ELSE t
  OBVIOUS
<1> HIDE DEF step, n
<1>5. PICK g : Iterated(g, Seq(Nat), <<>>, step, n)
  BY <1>1, <1>2, <1>3, Iterates
<1>6. ASSUME NEW i \in 0..n PROVE g[i] = OnlyStep(s, S, g, i)
  <2>1. CASE i = 0
    BY <1>5, <2>1 DEF Iterated, OnlyStep
  <2>2. CASE i # 0
    <3>1. i \in 1..n /\ i - 1 \in 0..n
      BY <1>1, <2>2
    <3>2. g[i - 1] \in Seq(Nat) /\ g[i] = step[<<i, g[i - 1]>>]
      BY <1>5, <3>1 DEF Iterated
    <3> QED
      BY <1>4, <2>2, <3>1, <3>2 DEF OnlyStep
  <2> QED
    BY <2>1, <2>2
<1>7. g = [i \in 0..n |-> g[i]]
  BY <1>5 DEF Iterated
<1> QED
  BY <1>6, <1>7 DEF OnlyUpto, n

LEMMA OnlyIncreases ==
    ASSUME NEW s \in Seq(Nat), NEW S, Increasing(s)
    PROVE  /\ Only(s, S) \in Seq(Nat) /\ Increasing(Only(s, S))
           /\ ToSet(Only(s, S)) \subseteq ToSet(s) \cap S
<1>1. Len(s) \in Nat /\ \A i \in 1..Len(s) : s[i] \in Nat
  BY Members
<1> DEFINE first == CHOOSE g : OnlyUpto(s, S, g, Len(s))
<1>2. OnlyUpto(s, S, first, Len(s))
  BY <1>1, OnlyDefined
<1>3. Only(s, S) = first[Len(s)]
  BY DEF Only, OnlyUpto, OnlyStep
<1> HIDE DEF first
<1>4. \A i \in 0..Len(s) : first[i] = OnlyStep(s, S, first, i)
  BY <1>2 DEF OnlyUpto
<1>5. first[0] = <<>>
  BY <1>1, <1>4 DEF OnlyStep
<1>6. ASSUME NEW i \in Nat, i + 1 <= Len(s)
      PROVE  first[i + 1] = IF s[i + 1] \in S THEN Append(first[i], s[i + 1]) ELSE first[i]
  <2>1. i + 1 \in 0..Len(s) /\ i + 1 # 0 /\ (i + 1) - 1 = i
    BY <1>1, <1>6
  <2> QED
    BY <1>4, <2>1 DEF OnlyStep
<1> DEFINE Good(i) == /\ first[i] \in Seq(Nat) /\ Increasing(first[i])
                      /\ \A x \in ToSet(first[i]) : x \in S /\ \E j \in 1..i : x = s[j]
           T == {i \in Nat : i <= Len(s) => Good(i)}
<1>7. 0 \in T
  <2>1. <<>> \in Seq(Nat) /\ Increasing(<<>>) /\ ToSet(<<>>) = {}
    BY EmptySeq DEF Increasing, ToSet
  <2> QED
    BY <1>5, <2>1
<1>8. ASSUME NEW i \in T PROVE i + 1 \in T
  <2> SUFFICES ASSUME i + 1 <= Len(s) PROVE Good(i + 1)
    OBVIOUS
  <2>1. Good(i) /\ i + 1 \in 1..Len(s) /\ i \in Nat
    BY <1>1
  <2>2. first[i + 1] = IF s[i + 1] \in S THEN Append(first[i], s[i + 1]) ELSE first[i]
    BY <1>6, <2>1
  <2>3. ASSUME NEW x \in ToSet(first[i]) PROVE x < s[i + 1]
    <3>1. PICK j \in 1..i : x = s[j]
      BY <2>1
    <3>2. j \in 1..Len(s) /\ j < i + 1
      BY <1>1, <2>1
    <3> QED
      BY <2>1, <3>1, <3>2, Members
  <2> HIDE DEF T
  <2>4. CASE s[i + 1] \in S
    <3>1. /\ first[i + 1] \in Seq(Nat) /\ Increasing(first[i + 1])
          /\ ToSet(first[i + 1]) = ToSet(first[i]) \cup {s[i + 1]}
      BY <1>1, <2>1, <2>2, <2>3, <2>4, AppendIncreases
    <3>2. ASSUME NEW x \in ToSet(first[i + 1]) PROVE x \in S /\ \E j \in 1..(i + 1) : x = s[j]
      <4>1. x \in ToSet(first[i]) => \E j \in 1..(i + 1) : x = s[j]
        BY <2>1
      <4> QED
        BY <2>1, <2>4, <3>1, <4>1
    <3> QED
      BY <3>1, <3>2
  <2>5. CASE s[i + 1] \notin S
    <3>1. first[i + 1] = first[i]
      BY <2>2, <2>5
    <3>2. \A x \in ToSet(first[i]) : x \in S /\ \E j \in 1..(i + 1) : x = s[j]
      BY <2>1
    <3> QED
      BY <2>1, <3>1, <3>2
  <2> QED
    BY <2>4, <2>5
<1>9. T = Nat
  <2>1. T \subseteq Nat
    OBVIOUS
  <2> HIDE DEF T
  <2> QED
    BY <1>7, <1>8, <2>1, Induction
<1>10. Good(Len(s))
  <2>1. Len(s) \in T
    BY <1>1, <1>9
  <2> QED
    BY <1>1, <2>1
<1>11. \A x \in ToSet(first[Len(s)]) : x \in S /\ x \in ToSet(s)
  BY <1>10, Members
<1> QED
  BY <1>3, <1>10, <1>11

-----------------------------------------------------------------------------
(***************************************************************************)
(* The inductive invariant, for any capacities and collections.            *)
(***************************************************************************)
Upserts == [coll : Collections, valid : BOOLEAN]
Messages == [kind : {"nothing", "ping", "pong", "ack", "error"}]
            \cup [kind : {"event"}, coll : Collections, n : Nat]
            \cup [kind : {"ack", "error"}, of : SUBSET Nat]
Batches == [at : {"waiting", "gathering", "applying", "answering", "ended"},
            taken : Seq(Nat), groups : SUBSET Collections, answer : Messages]
Subs == [at : {"none", "waiting", "sending", "ended"}, filter : SUBSET Actions,
         start : Nat, pos : Nat, sent : Seq(Nat), missed : SUBSET Nat]

OutTyped ==
    /\ known \subseteq Collections
    /\ socket \in {"open", "closed"} /\ writer \in {"running", "ended"}
    /\ heart \in {"waiting", "pinging", "closing", "ended"}
    /\ handler \in [at : {"receiving", "enqueuing", "replying", "ended"}, msg : Messages]
    /\ out \in Seq(Messages) /\ Len(out) <= OutCapacity

BatchTyped ==
    /\ received \in Seq(Upserts)
    /\ batchQueue \in Seq(Nat) /\ Len(batchQueue) <= BatchCapacity
    /\ batch \in Batches
    /\ applied \in [Collections -> Seq(Nat)]
    /\ answered \subseteq 1..Len(received)

SubsTyped ==
    /\ subs \in [Collections -> Subs]
    /\ emitted \in [Collections -> Seq(Actions)]

Typed == OutTyped /\ BatchTyped /\ SubsTyped

(* The batch task has messages only while it works on them, and an answer  *)
(* for those of a group that it has done with.                             *)
Working ==
    /\ batch.at \in {"waiting", "ended"} => batch.taken = <<>>
    /\ batch.at \in {"waiting", "gathering", "ended"} => batch.groups = {}
    /\ batch.at = "answering" =>
          /\ batch.answer.of \subseteq ToSet(batch.taken)
          /\ \A n \in batch.answer.of : received[n].coll \notin batch.groups
    /\ handler.at = "ended" => writer = "ended"
    /\ batch.at = "ended" => writer = "ended"

(* Messages are numbered as they are received; those taken came before     *)
(* those queued, and these before the one that waits for room.             *)
Queued ==
    /\ ToSet(batch.taken) \cup ToSet(batchQueue) \subseteq 1..Len(received)
    /\ Increasing(batch.taken) /\ Increasing(batchQueue)
    /\ \A m \in ToSet(batch.taken), n \in ToSet(batchQueue) : m < n
    /\ handler.at = "enqueuing" =>
          /\ Len(received) > 0
          /\ \A n \in ToSet(batch.taken) \cup ToSet(batchQueue) : n < Len(received)

(* What a collection got came before what it is still to get.              *)
Behind ==
    \A c \in Collections :
        /\ \A m \in ToSet(applied[c]) :
              /\ m <= Len(received)
              /\ handler.at = "enqueuing" => m < Len(received)
              /\ \A n \in ToSet(batchQueue) : m < n
              /\ batch.at = "gathering" \/ c \in batch.groups => \A n \in ToSet(batch.taken) : m < n
        /\ Increasing(applied[c])

(* A subscription s to events e has seen those up to its position, and     *)
(* sent those of them that it wants.                                       *)
Wanted(s, e) == {i \in (s.start + 1)..s.pos : e[i] \in s.filter} \ s.missed

Keeps(s, e) ==
    /\ s.start <= s.pos /\ s.pos <= Len(e)
    /\ \A i \in s.missed : i <= s.pos
    /\ Increasing(s.sent)
    /\ s.at \in {"none", "waiting"} => ToSet(s.sent) = Wanted(s, e)
    /\ s.at = "sending" => ToSet(s.sent) = Wanted(s, e) \ {s.pos} /\ s.pos \in Wanted(s, e)

Followed == \A c \in Collections : Keeps(subs[c], emitted[c])

IInv == Typed /\ Working /\ Queued /\ Behind /\ Accounted /\ Followed

-----------------------------------------------------------------------------
(* The channel to the client *)

LEMMA Replying ==
    /\ \A k \in {"nothing", "ping", "pong", "ack", "error"} : Reply(k) \in Messages
    /\ Nothing \in Messages
    /\ \A k \in {"ack", "error"}, ns \in SUBSET Nat : Answer(k, ns) \in Messages
    /\ \A c \in Collections, n \in Nat : Event(c, n) \in Messages
BY DEF Reply, Nothing, Answer, Event, Messages

LEMMA SentTyped ==
    ASSUME OutTyped, NEW m \in Messages, Sent(m)
    PROVE  out' \in Seq(Messages) /\ Len(out') <= OutCapacity
<1>1. out \in Seq(Messages) /\ Len(out) < OutCapacity /\ out' = Append(out, m)
  BY DEF OutTyped, Sent
<1>2. Len(out) \in Nat /\ Append(out, m) \in Seq(Messages) /\ Len(Append(out, m)) = Len(out) + 1
  BY <1>1, AppendProperties, LenProperties
<1> QED
  BY <1>1, <1>2

LEMMA RepliesTyped ==
    ASSUME OutTyped, NEW m \in Messages, Replies(m)
    PROVE  /\ out' \in Seq(Messages) /\ Len(out') <= OutCapacity
           /\ handler' \in [at : {"receiving", "enqueuing", "replying", "ended"}, msg : Messages]
<1>1. CASE Sent(m) /\ UNCHANGED handler
  BY <1>1, SentTyped DEF OutTyped
<1>2. CASE UNCHANGED out /\ handler' = [at |-> "replying", msg |-> m]
  BY <1>2 DEF OutTyped
<1> QED
  BY <1>1, <1>2 DEF Replies, Sent

LEMMA NextOutTyped == Typed /\ [Next]_vars => OutTyped'
<1> SUFFICES ASSUME Typed, [Next]_vars PROVE OutTyped'
  OBVIOUS
<1>1. OutTyped /\ BatchTyped /\ SubsTyped
  BY DEF Typed
<1>2. CASE UNCHANGED <<known, socket, handler, out, writer, heart>>
  BY <1>1, <1>2 DEF OutTyped
<1>3. ASSUME NEW m \in Messages, Replies(m), UNCHANGED <<known, socket, writer, heart>> PROVE OutTyped'
  BY <1>1, <1>3, RepliesTyped DEF OutTyped
<1>4. ASSUME NEW m \in Messages, Sent(m), UNCHANGED <<known, socket, writer, handler>>,
             heart' \in {heart, "waiting", "ended"}
      PROVE  OutTyped'
  BY <1>1, <1>4, SentTyped DEF OutTyped
<1>5. ASSUME NEW c \in Collections, NEW valid \in BOOLEAN, ReceiveUpsert(c, valid) PROVE OutTyped'
  BY <1>1, <1>5, Replying DEF ReceiveUpsert, OutTyped
<1>6. CASE Enqueue
  BY <1>1, <1>6 DEF Enqueue, OutTyped, clock
<1>7. CASE SendReply
  <2>1. handler.msg \in Messages
    BY <1>1 DEF OutTyped
  <2>2. out' \in Seq(Messages) /\ Len(out') <= OutCapacity
    BY <1>1, <1>7, <2>1, SentTyped DEF SendReply
  <2> QED
    BY <1>1, <1>7, <2>2, Replying DEF SendReply, OutTyped, clock
<1>8. CASE Finish
  BY <1>1, <1>8, Replying, EmptySeq DEF Finish, OutTyped
<1>9. CASE SendAnswer
  <2>1. batch.answer \in Messages
    BY <1>1 DEF BatchTyped, Batches
  <2>2. UNCHANGED <<known, socket, writer, handler, heart>> /\ (Sent(batch.answer) \/ UNCHANGED out)
    BY <1>9 DEF SendAnswer, SendFails, clock
  <2> QED
    BY <1>2, <1>4, <2>1, <2>2
<1>10. ASSUME NEW c \in Collections, SendEvent(c) PROVE OutTyped'
  <2>1. Event(c, subs[c].pos) \in Messages
    BY <1>1, Replying DEF SubsTyped, Subs
  <2>2. /\ UNCHANGED <<known, socket, writer, handler, heart>>
        /\ Sent(Event(c, subs[c].pos)) \/ UNCHANGED out
    BY <1>10 DEF SendEvent, SendFails, clock
  <2> QED
    BY <1>2, <1>4, <2>1, <2>2
<1>11. CASE Write
  <2>1. out # <<>> => Tail(out) \in Seq(Messages) /\ Len(Tail(out)) <= OutCapacity
    BY <1>1, HeadTailProperties, LenProperties DEF OutTyped
  <2>2. <<>> \in Seq(Messages) /\ Len(<<>>) <= OutCapacity
    BY EmptySeq
  <2>3. /\ out' \in Seq(Messages) /\ Len(out') <= OutCapacity /\ writer' \in {writer, "ended"}
        /\ UNCHANGED <<known, socket, handler, heart>>
    BY <1>11, <2>1, <2>2 DEF Write, clock
  <2> QED
    BY <1>1, <2>3 DEF OutTyped
<1>12. CASE Heartbeat
  BY <1>1, <1>12 DEF Heartbeat, OutTyped
<1>13. CASE SendHeartbeat
  <2>1. Reply(IF heart = "pinging" THEN "ping" ELSE "error") \in Messages
    BY Replying
  <2>2. CASE Sent(Reply(IF heart = "pinging" THEN "ping" ELSE "error"))
    BY <1>4, <1>13, <2>1, <2>2 DEF SendHeartbeat
  <2>3. CASE SendFails
    BY <1>1, <1>13, <2>3 DEF SendHeartbeat, SendFails, OutTyped, Sent
  <2> QED
    BY <1>13, <2>2, <2>3 DEF SendHeartbeat
<1>14. CASE ClientCloses
  BY <1>1, <1>14 DEF ClientCloses, OutTyped, clock
<1>15. ASSUME NEW c \in Collections, DropCollection(c) PROVE OutTyped'
  BY <1>1, <1>15 DEF DropCollection, OutTyped, clock
<1>16. ASSUME NEW c \in Collections, NEW filter \in Filters, ReceiveSubscribe(c, filter) PROVE OutTyped'
  BY <1>3, <1>16, Replying DEF ReceiveSubscribe
<1>17. CASE ReceivePing \/ ReceiveUnreadable
  BY <1>3, <1>17, Replying DEF ReceivePing, ReceiveUnreadable
<1> QED
  BY <1>2, <1>5, <1>6, <1>7, <1>8, <1>9, <1>10, <1>11, <1>12, <1>13, <1>14, <1>15, <1>16, <1>17
  DEF Next, Receive, ReceivePongFrame, Handler, Batch, BatchFirst, BatchMore, BatchComplete, BatchAborted,
      ProcessGroup, Heart, Forwarder, ForwardEvents, EmitEvent, TimePasses, vars, clock

-----------------------------------------------------------------------------
(***************************************************************************)
(* The upserts: what is taken, queued, applied and answered.               *)
(***************************************************************************)
Ledger == BatchTyped /\ Working /\ Queued /\ Behind /\ Accounted

StillTaken == {n \in ToSet(batch.taken) : \/ batch.at = "gathering"
                                          \/ received[n].coll \in batch.groups
                                          \/ batch.at = "answering" /\ n \in batch.answer.of}
Waits == IF handler.at = "enqueuing" THEN {Len(received)} ELSE {}

LEMMA Parts == /\ Pending = ToSet(batchQueue) \cup Waits \cup StillTaken
               /\ Pending' = ToSet(batchQueue)' \cup Waits' \cup StillTaken'
BY DEF Pending, Waits, StillTaken

LEMMA NumbersApplied ==
    ASSUME BatchTyped
    PROVE  \A d \in Collections : \A m \in ToSet(applied[d]) : m \in Nat
<1> SUFFICES ASSUME NEW d \in Collections, NEW m \in ToSet(applied[d]) PROVE m \in Nat
  OBVIOUS
<1>1. applied[d] \in Seq(Nat)
  BY DEF BatchTyped
<1> QED
  BY <1>1, Members

(* A step that leaves the messages where they are.                         *)
LEMMA QuietLedger ==
    ASSUME Ledger, UNCHANGED <<received, batchQueue, batch, applied, answered>>,
           handler'.at = "enqueuing" <=> handler.at = "enqueuing",
           writer' \in {writer, "ended"}, handler'.at = "ended" => writer' = "ended"
    PROVE  Ledger'
<1>1. Pending' = Pending
  BY DEF Pending
<1> QED
  BY <1>1 DEF Ledger, BatchTyped, Working, Queued, Behind, Accounted

LEMMA ReceiveLedger ==
    ASSUME Typed, Ledger, NEW c \in Collections, NEW valid \in BOOLEAN, ReceiveUpsert(c, valid)
    PROVE  Ledger'
<1> DEFINE n == Len(received)
<1>1. /\ received \in Seq(Upserts) /\ batchQueue \in Seq(Nat) /\ batch.taken \in Seq(Nat)
      /\ batch \in Batches /\ applied \in [Collections -> Seq(Nat)] /\ n \in Nat
  BY LenProperties DEF Ledger, BatchTyped, Batches
<1>2. /\ received' \in Seq(Upserts) /\ Len(received') = n + 1
      /\ \A m \in 1..n : received'[m] = received[m]
  BY <1>1, AppendProperties DEF ReceiveUpsert, Upserts
<1>3. /\ UNCHANGED <<batch, applied, answered, writer>> /\ handler.at = "receiving"
      /\ \/ /\ Len(batchQueue) < BatchCapacity
            /\ batchQueue' = Append(batchQueue, n + 1) /\ UNCHANGED handler
         \/ UNCHANGED batchQueue /\ handler' = [at |-> "enqueuing", msg |-> Nothing]
  BY DEF ReceiveUpsert, Receives
<1>4. /\ ToSet(batch.taken) \subseteq 1..n /\ ToSet(batchQueue) \subseteq 1..n
      /\ Increasing(batchQueue) /\ answered \subseteq 1..n
      /\ \A d \in Collections : \A m \in ToSet(applied[d]) : m <= n /\ m \in Nat
  <2>1. \A d \in Collections : \A m \in ToSet(applied[d]) : m \in Nat
    BY NumbersApplied DEF Ledger
  <2> QED
    BY <2>1 DEF Ledger, Queued, BatchTyped, Behind
<1>5. /\ ToSet(batchQueue)' \cup Waits' = ToSet(batchQueue) \cup {n + 1}
      /\ batchQueue' \in Seq(Nat) /\ Len(batchQueue') <= BatchCapacity /\ Increasing(batchQueue')
      /\ \A m \in ToSet(batchQueue)' : m <= n \/ m = n + 1
      /\ handler'.at = "enqueuing" => \A m \in ToSet(batchQueue)' : m <= n
      /\ handler'.at # "ended"
  <2>1. CASE /\ Len(batchQueue) < BatchCapacity
             /\ batchQueue' = Append(batchQueue, n + 1) /\ UNCHANGED handler
    <3>1. \A m \in ToSet(batchQueue) : m \in Nat /\ m < n + 1
      BY <1>1, <1>4
    <3>2. /\ Append(batchQueue, n + 1) \in Seq(Nat)
          /\ Len(Append(batchQueue, n + 1)) = Len(batchQueue) + 1
          /\ ToSet(Append(batchQueue, n + 1)) = ToSet(batchQueue) \cup {n + 1}
          /\ Increasing(Append(batchQueue, n + 1))
      BY <1>1, <1>4, <3>1, AppendIncreases
    <3>3. ToSet(batchQueue)' = ToSet(batchQueue) \cup {n + 1} /\ Waits' = {}
      BY <1>3, <2>1, <3>2 DEF Waits
    <3> QED
      BY <1>1, <1>3, <1>4, <2>1, <3>2, <3>3, LenProperties
  <2>2. CASE UNCHANGED batchQueue /\ handler' = [at |-> "enqueuing", msg |-> Nothing]
    <3>1. ToSet(batchQueue)' = ToSet(batchQueue) /\ Waits' = {n + 1}
      BY <1>2, <2>2 DEF Waits
    <3> QED
      BY <1>4, <2>2, <3>1 DEF Ledger, BatchTyped
  <2> QED
    BY <1>3, <2>1, <2>2
<1>6. StillTaken' = StillTaken
  BY <1>2, <1>3, <1>4 DEF StillTaken
<1>7. BatchTyped'
  BY <1>1, <1>2, <1>3, <1>4, <1>5 DEF Ledger, BatchTyped
<1>8. Working'
  <2>1. batch.at = "answering" => batch.answer.of \subseteq 1..n
    BY <1>4 DEF Ledger, Working
  <2> QED
    BY <1>2, <1>3, <1>5, <2>1 DEF Ledger, Working
<1>9. Queued'
  BY <1>1, <1>2, <1>3, <1>4, <1>5 DEF Ledger, Queued
<1>10. Behind'
  BY <1>1, <1>2, <1>3, <1>4, <1>5 DEF Ledger, Behind
<1>11. Accounted'
  <2>1. Pending = ToSet(batchQueue) \cup StillTaken
    BY <1>3, Parts DEF Waits
  <2>2. Pending' = Pending \cup {n + 1}
    BY <1>5, <1>6, <2>1, Parts
  <2>3. 1..(n + 1) = (1..n) \cup {n + 1} /\ n + 1 \notin answered
    BY <1>1, <1>4
  <2> QED
    BY <1>2, <1>3, <2>2, <2>3 DEF Ledger, Accounted
<1> QED
  BY <1>7, <1>8, <1>9, <1>10, <1>11 DEF Ledger

LEMMA EnqueueLedger == ASSUME Ledger, Enqueue PROVE Ledger'
<1> DEFINE n == Len(received)
<1>1. /\ batchQueue \in Seq(Nat) /\ n \in Nat \ {0} /\ Increasing(batchQueue)
      /\ \A m \in ToSet(batch.taken) \cup ToSet(batchQueue) : m < n
      /\ Len(batchQueue) \in Nat /\ handler.at = "enqueuing"
  BY LenProperties DEF Ledger, BatchTyped, Queued, Enqueue
<1>2. /\ Append(batchQueue, n) \in Seq(Nat) /\ Len(Append(batchQueue, n)) = Len(batchQueue) + 1
      /\ ToSet(Append(batchQueue, n)) = ToSet(batchQueue) \cup {n}
      /\ Increasing(Append(batchQueue, n))
  BY <1>1, AppendIncreases
<1>3. /\ batchQueue' = Append(batchQueue, n) /\ Len(batchQueue) < BatchCapacity
      /\ UNCHANGED <<batch, writer, received, applied, answered>>
      /\ handler' = [handler EXCEPT !.at = "receiving"]
  BY DEF Enqueue
<1>4. handler'.at \notin {"enqueuing", "ended"} /\ ToSet(batchQueue)' = ToSet(batchQueue) \cup {n}
  BY <1>1, <1>2, <1>3
<1>5. BatchTyped'
  BY <1>1, <1>2, <1>3 DEF Ledger, BatchTyped
<1>6. Working' /\ Queued'
  BY <1>1, <1>2, <1>3, <1>4 DEF Ledger, Working, Queued
<1>7. Behind'
  BY <1>1, <1>3, <1>4 DEF Ledger, Behind
<1>8. Accounted'
  <2>1. Waits = {n} /\ Waits' = {}
    BY <1>1, <1>4 DEF Waits
  <2>2. StillTaken' = StillTaken
    BY <1>3 DEF StillTaken
  <2>3. Pending' = Pending
    BY <1>4, <2>1, <2>2, Parts
  <2> QED
    BY <1>3, <2>3 DEF Ledger, Accounted
<1> QED
  BY <1>5, <1>6, <1>7, <1>8 DEF Ledger

(* The first message of a batch, and the others.                           *)
LEMMA TakeLedger ==
    ASSUME Typed, Ledger, BatchFirst \/ BatchMore
    PROVE  Ledger'
<1> DEFINE n == Head(batchQueue)
           taken == batch.taken
<1>1. /\ batch \in Batches /\ taken \in Seq(Nat) /\ batchQueue \in Seq(Nat) /\ batchQueue # <<>>
      /\ Increasing(taken) /\ Increasing(batchQueue)
      /\ Len(batchQueue) \in Nat /\ Len(batchQueue) <= BatchCapacity
  BY LenProperties DEF Ledger, BatchTyped, Batches, Queued, BatchFirst, BatchMore
<1>2. /\ n \in Nat /\ Tail(batchQueue) \in Seq(Nat) /\ Len(Tail(batchQueue)) = Len(batchQueue) - 1
      /\ ToSet(batchQueue) = {n} \cup ToSet(Tail(batchQueue))
      /\ Increasing(Tail(batchQueue)) /\ \A m \in ToSet(Tail(batchQueue)) : n < m
  BY <1>1, TailIncreases
<1>3. /\ Append(taken, n) \in Seq(Nat) /\ ToSet(Append(taken, n)) = ToSet(taken) \cup {n}
      /\ Increasing(Append(taken, n))
  BY <1>1, <1>2, AppendIncreases DEF Ledger, Queued
<1>4. /\ batch' = [batch EXCEPT !.at = "gathering", !.taken = Append(taken, n)]
      /\ batch.at \in {"waiting", "gathering"} /\ batch.groups = {}
      /\ batchQueue' = Tail(batchQueue)
      /\ UNCHANGED <<handler, writer, received, applied, answered>>
  <2>1. CASE BatchFirst
    <3>1. taken = <<>>
      BY <2>1 DEF BatchFirst, Ledger, Working
    <3>2. Append(taken, n) = <<n>>
      BY <3>1
    <3> QED
      BY <2>1, <3>2 DEF BatchFirst, Ledger, Working
  <2>2. CASE BatchMore
    BY <1>1, <2>2 DEF BatchMore, Batches, Ledger, Working
  <2> QED
    BY <2>1, <2>2
<1>5. /\ batch' \in Batches /\ batch'.at = "gathering" /\ batch'.groups = {}
      /\ batch'.taken = Append(taken, n)
  BY <1>1, <1>3, <1>4 DEF Batches
<1>6. /\ ToSet(batch.taken)' = ToSet(taken) \cup {n}
      /\ ToSet(batchQueue)' = ToSet(Tail(batchQueue))
  BY <1>3, <1>4, <1>5
<1>7. BatchTyped'
  BY <1>1, <1>2, <1>4, <1>5 DEF Ledger, BatchTyped
<1>8. Working'
  BY <1>4, <1>5 DEF Ledger, Working
<1>9. Queued'
  BY <1>2, <1>3, <1>4, <1>5, <1>6 DEF Ledger, Queued
<1>10. Behind'
  <2>1. batch.at = "waiting" => ToSet(taken) = {}
    BY EmptySeq DEF Ledger, Working, ToSet
  <2> QED
    BY <1>2, <1>4, <1>5, <1>6, <2>1 DEF Ledger, Behind
<1>11. Accounted'
  <2>1. StillTaken = ToSet(taken) /\ StillTaken' = ToSet(taken) \cup {n} /\ Waits' = Waits
    <3>1. batch.at = "waiting" => ToSet(taken) = {}
      BY EmptySeq DEF Ledger, Working, ToSet
    <3> QED
      BY <1>4, <1>5, <1>6, <3>1 DEF StillTaken, Waits
  <2>2. Pending' = Pending
    BY <1>2, <1>6, <2>1, Parts
  <2> QED
    BY <1>4, <2>2 DEF Ledger, Accounted
<1> QED
  BY <1>7, <1>8, <1>9, <1>10, <1>11 DEF Ledger

LEMMA CompleteLedger == ASSUME Typed, Ledger, BatchComplete PROVE Ledger'
<1> DEFINE groups == {received[n].coll : n \in ToSet(batch.taken)}
<1>1. /\ batch \in Batches /\ received \in Seq(Upserts) /\ ToSet(batch.taken) \subseteq 1..Len(received)
      /\ batch.at = "gathering" /\ batch.groups = {}
  BY DEF Ledger, BatchTyped, Queued, Working, BatchComplete
<1>2. groups \subseteq Collections
  <2>1. ASSUME NEW n \in ToSet(batch.taken) PROVE received[n].coll \in Collections
    <3>1. received[n] \in Upserts
      BY <1>1, ElementOfSeq
    <3> QED
      BY <3>1 DEF Upserts
  <2> QED
    BY <2>1
<1>3. /\ batch' \in Batches /\ batch'.at = "applying" /\ batch'.groups = groups
      /\ batch'.taken = batch.taken
      /\ UNCHANGED <<handler, batchQueue, writer, received, applied, answered>>
  BY <1>1, <1>2 DEF BatchComplete, Batches, clock
<1>4. BatchTyped' /\ Working' /\ Queued' /\ Behind'
  BY <1>1, <1>3 DEF Ledger, BatchTyped, Working, Queued, Behind
<1>5. StillTaken' = StillTaken /\ Waits' = Waits
  BY <1>1, <1>3 DEF StillTaken, Waits
<1>6. Pending' = Pending
  BY <1>3, <1>5, Parts
<1> QED
  BY <1>3, <1>4, <1>6 DEF Ledger, Accounted

(* A group is applied: what is applied of it was taken after what its      *)
(* collection already has, and before what is queued.                      *)
LEMMA ProcessLedger ==
    ASSUME Typed, Ledger, NEW c \in Collections, ProcessGroup(c)
    PROVE  Ledger'
<1> DEFINE taken == batch.taken
           v == ValidGroup(c)
<1>1. /\ batch \in Batches /\ taken \in Seq(Nat) /\ batch.at = "applying" /\ c \in batch.groups
      /\ applied \in [Collections -> Seq(Nat)]
      /\ UNCHANGED <<handler, batchQueue, writer, received, answered>>
  BY DEF Ledger, BatchTyped, Batches, ProcessGroup
<1>2. /\ v \in Seq(Nat) /\ Increasing(v) /\ ToSet(v) \subseteq ToSet(taken)
  BY <1>1, OnlyIncreases DEF Ledger, Queued, ValidGroup
<1>3. Group(c) = {n \in ToSet(taken) : received[n].coll = c} /\ Group(c) \subseteq Nat
  BY <1>1 DEF Group, Ledger, Queued
<1>4. PICK k \in {"ack", "error"} :
         /\ batch' = [batch EXCEPT !.at = "answering", !.groups = @ \ {c},
                                   !.answer = Answer(k, Group(c))]
         /\ \/ applied' = [applied EXCEPT ![c] = @ \o v]
            \/ UNCHANGED applied
  BY DEF ProcessGroup
<1>5. /\ batch' \in Batches /\ batch'.at = "answering" /\ batch'.taken = taken
      /\ batch'.groups = batch.groups \ {c}
      /\ batch'.answer = Answer(k, Group(c)) /\ batch'.answer.of = Group(c)
  <2>1. Answer(k, Group(c)) \in Messages /\ Answer(k, Group(c)).of = Group(c)
    BY <1>3, Replying DEF Answer
  <2> QED
    BY <1>1, <1>4, <2>1 DEF Batches
<1>6. /\ applied[c] \in Seq(Nat) /\ Increasing(applied[c])
      /\ \A x \in ToSet(applied[c]), y \in ToSet(v) : x < y
  BY <1>1, <1>2 DEF Ledger, Behind
<1>7. /\ applied[c] \o v \in Seq(Nat) /\ Increasing(applied[c] \o v)
      /\ ToSet(applied[c] \o v) = ToSet(applied[c]) \cup ToSet(v)
  BY <1>2, <1>6, ConcatIncreases
<1>8. BatchTyped'
  <2>1. applied' \in [Collections -> Seq(Nat)]
    BY <1>1, <1>4, <1>7
  <2> QED
    BY <1>1, <1>5, <2>1 DEF Ledger, BatchTyped
<1>9. Working'
  <2>1. /\ batch'.answer.of \subseteq ToSet(taken)
        /\ \A n \in batch'.answer.of : received[n].coll = c
    BY <1>3, <1>5
  <2> QED
    BY <1>1, <1>5, <2>1 DEF Ledger, Working
<1>10. Queued'
  BY <1>1, <1>5 DEF Ledger, Queued
<1>11. Behind'
  <2> SUFFICES ASSUME NEW d \in Collections
               PROVE  /\ \A m \in ToSet(applied'[d]) :
                            /\ m <= Len(received)
                            /\ handler.at = "enqueuing" => m < Len(received)
                            /\ \A n \in ToSet(batchQueue) : m < n
                            /\ d \in batch.groups /\ d # c => \A n \in ToSet(taken) : m < n
                      /\ Increasing(applied'[d])
    BY <1>1, <1>5 DEF Behind
  <2>1. CASE applied'[d] = applied[d]
    BY <2>1 DEF Ledger, Behind
  <2>2. CASE d = c /\ applied'[d] = applied[c] \o v
    <3>1. \A m \in ToSet(taken) :
             /\ m <= Len(received)
             /\ handler.at = "enqueuing" => m < Len(received)
             /\ \A n \in ToSet(batchQueue) : m < n
      BY DEF Ledger, Queued
    <3>2. \A m \in ToSet(applied[c]) :
             /\ m <= Len(received)
             /\ handler.at = "enqueuing" => m < Len(received)
             /\ \A n \in ToSet(batchQueue) : m < n
      BY DEF Ledger, Behind
    <3> QED
      BY <1>2, <1>7, <2>2, <3>1, <3>2
  <2>3. applied'[d] = applied[d] \/ (d = c /\ applied'[d] = applied[c] \o v)
    <3>1. CASE UNCHANGED applied
      BY <3>1
    <3>2. CASE applied' = [applied EXCEPT ![c] = @ \o v]
      <4>1. CASE d = c
        BY <1>1, <3>2, <4>1
      <4>2. CASE d # c
        BY <1>1, <3>2, <4>2
      <4> QED
        BY <4>1, <4>2
    <3> QED
      BY <1>4, <3>1, <3>2
  <2> QED
    BY <2>1, <2>2, <2>3
<1>12. StillTaken' = StillTaken /\ Waits' = Waits
  BY <1>1, <1>3, <1>5 DEF StillTaken, Waits
<1>13. Pending' = Pending
  BY <1>1, <1>12, Parts
<1> QED
  BY <1>1, <1>8, <1>9, <1>10, <1>11, <1>13 DEF Ledger, Accounted

(* The answer is sent, and the group is no longer pending; or it cannot    *)
(* be, as the client is gone.                                              *)
LEMMA AnswerLedger == ASSUME Typed, Ledger, SendAnswer PROVE Ledger'
<1> DEFINE of == batch.answer.of
           taken == batch.taken
<1>1. /\ batch \in Batches /\ taken \in Seq(Nat) /\ batch.at = "answering"
      /\ of \subseteq ToSet(taken) /\ \A n \in of : received[n].coll \notin batch.groups
      /\ ToSet(taken) \subseteq 1..Len(received)
      /\ UNCHANGED <<handler, batchQueue, writer, received, applied>>
  BY DEF Ledger, BatchTyped, Batches, Working, Queued, SendAnswer
<1>2. <<>> \in Seq(Nat) /\ ToSet(<<>>) = {} /\ Increasing(<<>>) /\ Nothing \in Messages
  BY EmptySeq, Replying DEF ToSet, Increasing
<1>3. /\ batch' \in Batches /\ batch'.at \in {"waiting", "applying"}
      /\ batch'.at = "waiting" => batch'.groups = {} /\ batch'.taken = <<>>
      /\ batch'.groups = batch.groups \/ batch'.groups = {}
      /\ batch'.taken = taken \/ batch'.taken = <<>>
  <2>1. CASE /\ batch' = [batch EXCEPT !.answer = Nothing,
                                      !.at = IF batch.groups = {} THEN "waiting" ELSE "applying",
                                      !.taken = IF batch.groups = {} THEN <<>> ELSE @]
    <3>1. /\ batch'.at = IF batch.groups = {} THEN "waiting" ELSE "applying"
          /\ batch'.taken = IF batch.groups = {} THEN <<>> ELSE taken
          /\ batch'.groups = batch.groups
      BY <1>1, <2>1 DEF Batches
    <3>2. batch' \in Batches
      BY <1>1, <1>2, <2>1 DEF Batches
    <3> QED
      BY <3>1, <3>2
  <2>2. CASE batch' = [at |-> "waiting", taken |-> <<>>, groups |-> {}, answer |-> Nothing]
    <3>1. batch' \in Batches
      BY <1>2, <2>2 DEF Batches
    <3> QED
      BY <2>2, <3>1
  <2> QED
    BY <2>1, <2>2 DEF SendAnswer
<1>4. /\ ToSet(batch.taken)' \subseteq ToSet(taken) /\ Increasing(batch.taken)'
      /\ batch'.groups \subseteq batch.groups
  BY <1>2, <1>3 DEF Ledger, Queued
<1>5. answered' = answered \cup of \/ UNCHANGED answered
  BY DEF SendAnswer
<1>6. BatchTyped'
  BY <1>1, <1>3, <1>5 DEF Ledger, BatchTyped
<1>7. Working' /\ Queued'
  BY <1>1, <1>3, <1>4 DEF Ledger, Working, Queued
<1>8. Behind'
  BY <1>1, <1>3, <1>4 DEF Ledger, Behind
<1>9. Accounted'
  <2> SUFFICES ASSUME writer = "running"
               PROVE  answered' \cup Pending' = 1..Len(received) /\ answered' \cap Pending' = {}
    BY <1>1 DEF Accounted
  <2>1. /\ answered' = answered \cup of /\ batch'.groups = batch.groups
        /\ batch'.taken = IF batch.groups = {} THEN <<>> ELSE taken
        /\ batch'.at = IF batch.groups = {} THEN "waiting" ELSE "applying"
    BY <1>1 DEF SendAnswer, SendFails, Batches
  <2>2. StillTaken = of \cup StillTaken' /\ of \cap StillTaken' = {}
    <3>1. StillTaken = {n \in ToSet(taken) : received[n].coll \in batch.groups \/ n \in of}
      BY <1>1 DEF StillTaken
    <3>2. StillTaken' = {n \in ToSet(taken) : received[n].coll \in batch.groups}
      BY <1>1, <1>2, <2>1 DEF StillTaken
    <3> QED
      BY <1>1, <3>1, <3>2
  <2>3. /\ \A n \in of, m \in ToSet(batchQueue) : n < m
        /\ \A n \in of : n \in Nat
        /\ Waits = Waits' /\ of \cap Waits = {}
    <3>1. \A n \in of, m \in ToSet(batchQueue) : n < m
      BY <1>1 DEF Ledger, Queued
    <3>2. handler.at = "enqueuing" => \A n \in of : n < Len(received)
      BY <1>1 DEF Ledger, Queued
    <3>3. Len(received) \in Nat /\ \A n \in of : n \in Nat
      BY <1>1, LenProperties DEF Ledger, BatchTyped
    <3> QED
      BY <1>1, <3>1, <3>2, <3>3 DEF Waits
  <2>4. of \cap ToSet(batchQueue) = {}
    BY <2>3
  <2>5. Pending = of \cup Pending' /\ of \cap Pending' = {}
    BY <1>1, <2>2, <2>3, <2>4, Parts
  <2> QED
    BY <2>1, <2>5 DEF Ledger, Accounted
<1> QED
  BY <1>6, <1>7, <1>8, <1>9 DEF Ledger

LEMMA AbortedLedger == ASSUME Typed, Ledger, BatchAborted PROVE Ledger'
<1>1. <<>> \in Seq(Nat) /\ Len(<<>>) = 0 /\ ToSet(<<>>) = {} /\ Increasing(<<>>) /\ Nothing \in Messages
  BY EmptySeq, Replying DEF ToSet, Increasing
<1>2. /\ batch' = [at |-> "ended", taken |-> <<>>, groups |-> {}, answer |-> Nothing]
      /\ batchQueue' = <<>> /\ writer = "ended"
      /\ UNCHANGED <<handler, writer, received, applied, answered>>
  BY DEF BatchAborted, Ledger, Working
<1>3. BatchTyped'
  BY <1>1, <1>2 DEF Ledger, BatchTyped, Batches
<1>4. Working' /\ Queued' /\ Behind'
  BY <1>1, <1>2 DEF Ledger, Working, Queued, Behind
<1> QED
  BY <1>2, <1>3, <1>4 DEF Ledger, Accounted

LEMMA NextLedger == Typed /\ Ledger /\ [Next]_vars => Ledger'
<1> SUFFICES ASSUME Typed, Ledger, [Next]_vars PROVE Ledger'
  OBVIOUS
<1> DEFINE ledger == <<received, batchQueue, batch, applied, answered>>
<1>1. CASE UNCHANGED <<ledger, handler, writer>>
  BY <1>1, QuietLedger DEF Ledger, Working
<1>2. ASSUME UNCHANGED <<ledger, writer>>, handler.at \in {"receiving", "replying"},
             handler' = handler \/ handler'.at \in {"receiving", "replying"}
      PROVE  Ledger'
  BY <1>2, QuietLedger
<1>3. ASSUME NEW m, Receives, Replies(m), UNCHANGED <<ledger, writer>> PROVE Ledger'
  BY <1>2, <1>3 DEF Receives, Replies
<1>4. ASSUME NEW c \in Collections, NEW filter \in Filters, ReceiveSubscribe(c, filter) PROVE Ledger'
  BY <1>3, <1>4 DEF ReceiveSubscribe
<1>5. CASE ReceivePing \/ ReceiveUnreadable
  BY <1>3, <1>5 DEF ReceivePing, ReceiveUnreadable
<1>6. CASE SendReply
  BY <1>2, <1>6 DEF SendReply
<1>7. CASE Finish
  BY <1>7, QuietLedger DEF Finish
<1>8. CASE Write
  <2>1. UNCHANGED <<ledger, handler>> /\ writer' \in {writer, "ended"} /\ writer = "running"
    BY <1>8 DEF Write
  <2> QED
    BY <2>1, QuietLedger DEF Ledger, Working
<1>9. ASSUME NEW c \in Collections, NEW valid \in BOOLEAN, ReceiveUpsert(c, valid) PROVE Ledger'
  BY <1>9, ReceiveLedger
<1>10. CASE Enqueue \/ SendAnswer \/ BatchFirst \/ BatchMore \/ BatchComplete \/ BatchAborted
  BY <1>10, EnqueueLedger, AnswerLedger, TakeLedger, CompleteLedger, AbortedLedger
<1>11. ASSUME NEW c \in Collections, ProcessGroup(c) PROVE Ledger'
  BY <1>11, ProcessLedger
<1> QED
  BY <1>1, <1>4, <1>5, <1>6, <1>7, <1>8, <1>9, <1>10, <1>11
  DEF Next, Receive, ReceivePongFrame, Handler, Batch, Heart, Heartbeat, SendHeartbeat, Forwarder,
      ForwardEvents, SendEvent, EmitEvent, TimePasses, ClientCloses, DropCollection, vars

-----------------------------------------------------------------------------
(***************************************************************************)
(* The events: what each subscription has of its collection's.             *)
(***************************************************************************)
LEMMA NoSubKeeps == ASSUME NEW e \in Seq(Actions) PROVE NoSub \in Subs /\ Keeps(NoSub, e)
<1>1. <<>> \in Seq(Nat) /\ ToSet(<<>>) = {} /\ Increasing(<<>>) /\ Len(e) \in Nat
  BY EmptySeq, LenProperties DEF ToSet, Increasing
<1>2. NoSub \in Subs
  BY <1>1 DEF NoSub, Subs
<1>3. NoSub.start = 0 /\ NoSub.pos = 0 /\ NoSub.missed = {} /\ NoSub.sent = <<>> /\ NoSub.at = "none"
  BY DEF NoSub
<1>4. Wanted(NoSub, e) = {}
  BY <1>3 DEF Wanted
<1> QED
  BY <1>1, <1>2, <1>3, <1>4 DEF Keeps

(* A subscription begins with nothing seen, and wants nothing so far.      *)
LEMMA SubscribeKeeps ==
    ASSUME NEW e \in Seq(Actions), NEW filter \in Filters
    PROVE  LET s == [NoSub EXCEPT !.at = "waiting", !.filter = filter,
                                  !.start = Len(e), !.pos = Len(e)]
           IN  s \in Subs /\ Keeps(s, e)
<1> DEFINE s == [NoSub EXCEPT !.at = "waiting", !.filter = filter, !.start = Len(e), !.pos = Len(e)]
<1>1. <<>> \in Seq(Nat) /\ ToSet(<<>>) = {} /\ Increasing(<<>>) /\ Len(e) \in Nat
  BY EmptySeq, LenProperties DEF ToSet, Increasing
<1>2. /\ s.at = "waiting" /\ s.start = Len(e) /\ s.pos = Len(e)
      /\ s.sent = <<>> /\ s.missed = {}
  BY DEF NoSub
<1>3. s \in Subs
  <2>1. filter \in SUBSET Actions /\ NoSub \in Subs
    BY NoSubKeeps DEF Filters, Actions
  <2> QED
    BY <1>1, <2>1 DEF Subs
<1> HIDE DEF s
<1>4. Wanted(s, e) = {}
  BY <1>1, <1>2 DEF Wanted
<1>5. Keeps(s, e)
  BY <1>1, <1>2, <1>4 DEF Keeps
<1> QED
  BY <1>3, <1>5 DEF s

LEMMA EmitKeeps ==
    ASSUME NEW s \in Subs, NEW e \in Seq(Actions), NEW a \in Actions, Keeps(s, e)
    PROVE  Append(e, a) \in Seq(Actions) /\ Keeps(s, Append(e, a))
<1> DEFINE t == Append(e, a)
<1>1. /\ t \in Seq(Actions) /\ Len(t) = Len(e) + 1 /\ Len(e) \in Nat
      /\ \A i \in 1..Len(e) : t[i] = e[i]
  BY AppendProperties, LenProperties
<1> HIDE DEF t
<1>2. s.start \in Nat /\ s.pos \in Nat /\ s.pos <= Len(e)
  BY DEF Subs, Keeps
<1>3. Wanted(s, t) = Wanted(s, e)
  BY <1>1, <1>2 DEF Wanted
<1>4. Keeps(s, t)
  BY <1>1, <1>2, <1>3 DEF Keeps
<1> QED
  BY <1>1, <1>4 DEF t

LEMMA EndKeeps ==
    ASSUME NEW s \in Subs, NEW e, Keeps(s, e)
    PROVE  [s EXCEPT !.at = "ended"] \in Subs /\ Keeps([s EXCEPT !.at = "ended"], e)
BY DEF Subs, Keeps

(* A receiver that lags skips what the channel dropped, and misses it.     *)
LEMMA LagKeeps ==
    ASSUME NEW s \in Subs, NEW e \in Seq(Actions), Keeps(s, e), s.at = "waiting",
           NEW oldest \in Nat, s.pos < oldest, oldest <= Len(e)
    PROVE  LET t == [s EXCEPT !.pos = oldest, !.missed = @ \cup (s.pos + 1)..oldest]
           IN  t \in Subs /\ Keeps(t, e)
<1> DEFINE t == [s EXCEPT !.pos = oldest, !.missed = @ \cup (s.pos + 1)..oldest]
<1>1. /\ s.start \in Nat /\ s.pos \in Nat /\ s.missed \subseteq Nat
      /\ s.start <= s.pos /\ \A i \in s.missed : i <= s.pos
      /\ ToSet(s.sent) = Wanted(s, e) /\ Increasing(s.sent) /\ Len(e) \in Nat
  BY LenProperties DEF Subs, Keeps
<1>2. /\ t.pos = oldest /\ t.missed = s.missed \cup ((s.pos + 1)..oldest)
      /\ t.start = s.start /\ t.filter = s.filter /\ t.sent = s.sent /\ t.at = "waiting"
  BY DEF Subs
<1>3. t \in Subs
  <2>1. s.missed \cup ((s.pos + 1)..oldest) \in SUBSET Nat
    BY <1>1
  <2> QED
    BY <2>1 DEF Subs
<1> HIDE DEF t
<1>4. Wanted(t, e) = Wanted(s, e)
  <2>1. ASSUME NEW i \in Wanted(t, e) PROVE i \in Wanted(s, e)
    <3>1. i \in (s.start + 1)..oldest /\ e[i] \in s.filter /\ i \notin s.missed
          /\ i \notin (s.pos + 1)..oldest
      BY <1>2, <2>1 DEF Wanted
    <3> QED
      BY <1>1, <3>1 DEF Wanted
  <2>2. ASSUME NEW i \in Wanted(s, e) PROVE i \in Wanted(t, e)
    <3>1. i \in (s.start + 1)..s.pos /\ e[i] \in s.filter /\ i \notin s.missed
      BY <2>2 DEF Wanted
    <3>2. i \in (s.start + 1)..oldest /\ i \notin (s.pos + 1)..oldest
      BY <1>1, <3>1
    <3> QED
      BY <1>2, <3>1, <3>2 DEF Wanted
  <2> QED
    BY <2>1, <2>2
<1>5. /\ t.start <= t.pos /\ t.pos <= Len(e)
      /\ \A i \in t.missed : i <= t.pos
  <2>1. ASSUME NEW i \in t.missed PROVE i <= t.pos
    <3>1. CASE i \in s.missed
      BY <1>1, <1>2, <3>1
    <3>2. CASE i \in (s.pos + 1)..oldest
      BY <1>1, <1>2, <3>2
    <3> QED
      BY <1>2, <2>1, <3>1, <3>2
  <2> QED
    BY <1>1, <1>2, <2>1
<1> QED
  BY <1>1, <1>2, <1>3, <1>4, <1>5 DEF Keeps, t

(* It takes the next event, and is to send it if it wants it.              *)
LEMMA NextEventKeeps ==
    ASSUME NEW s \in Subs, NEW e \in Seq(Actions), Keeps(s, e), s.at = "waiting", s.pos < Len(e)
    PROVE  LET t == [s EXCEPT !.pos = @ + 1,
                              !.at = IF e[s.pos + 1] \in s.filter THEN "sending" ELSE @]
           IN  t \in Subs /\ Keeps(t, e)
<1> DEFINE n == s.pos + 1
           t == [s EXCEPT !.pos = @ + 1, !.at = IF e[s.pos + 1] \in s.filter THEN "sending" ELSE @]
<1>1. /\ s.start \in Nat /\ s.pos \in Nat /\ s.missed \subseteq Nat
      /\ s.start <= s.pos /\ \A i \in s.missed : i <= s.pos
      /\ ToSet(s.sent) = Wanted(s, e) /\ Increasing(s.sent) /\ Len(e) \in Nat
  BY LenProperties DEF Subs, Keeps
<1>2. /\ t.pos = n /\ t.missed = s.missed /\ t.start = s.start /\ t.filter = s.filter
      /\ t.sent = s.sent /\ t.at = IF e[n] \in s.filter THEN "sending" ELSE "waiting"
  BY DEF Subs
<1>3. t \in Subs
  <2>1. t = [s EXCEPT !.pos = n, !.at = IF e[n] \in s.filter THEN "sending" ELSE "waiting"]
    OBVIOUS
  <2>2. n \in Nat /\ (IF e[n] \in s.filter THEN "sending" ELSE "waiting") \in {"waiting", "sending"}
    BY <1>1
  <2> HIDE DEF n, t
  <2> QED
    BY <2>1, <2>2 DEF Subs
<1> HIDE DEF t
<1>4. n \notin s.missed /\ (s.start + 1)..n = (s.start + 1)..s.pos \cup {n}
      /\ n \notin (s.start + 1)..s.pos
  BY <1>1
<1>5. Wanted(t, e) = Wanted(s, e) \cup (IF e[n] \in s.filter THEN {n} ELSE {})
  BY <1>2, <1>4 DEF Wanted
<1>6. n \notin Wanted(s, e)
  BY <1>4 DEF Wanted
<1>7. t.start <= t.pos /\ t.pos <= Len(e) /\ \A i \in t.missed : i <= t.pos
  BY <1>1, <1>2
<1> HIDE DEF n
<1>8. Keeps(t, e)
  <2>1. CASE e[n] \in s.filter
    <3>1. t.at = "sending" /\ Wanted(t, e) = Wanted(s, e) \cup {n}
      BY <1>2, <1>5, <2>1
    <3>2. ToSet(t.sent) = Wanted(t, e) \ {t.pos} /\ t.pos \in Wanted(t, e)
      BY <1>1, <1>2, <1>6, <3>1
    <3> QED
      BY <1>1, <1>2, <1>7, <3>1, <3>2 DEF Keeps
  <2>2. CASE e[n] \notin s.filter
    <3>1. t.at = "waiting" /\ Wanted(t, e) = Wanted(s, e)
      BY <1>2, <1>5, <2>2
    <3> QED
      BY <1>1, <1>2, <1>7, <3>1 DEF Keeps
  <2> QED
    BY <2>1, <2>2
<1> QED
  BY <1>3, <1>8 DEF t, n

LEMMA SendKeeps ==
    ASSUME NEW s \in Subs, NEW e, Keeps(s, e), s.at = "sending"
    PROVE  LET t == [s EXCEPT !.at = "waiting", !.sent = Append(@, s.pos)]
           IN  t \in Subs /\ Keeps(t, e)
<1> DEFINE t == [s EXCEPT !.at = "waiting", !.sent = Append(@, s.pos)]
<1>1. /\ s.start \in Nat /\ s.pos \in Nat /\ s.sent \in Seq(Nat) /\ Increasing(s.sent)
      /\ ToSet(s.sent) = Wanted(s, e) \ {s.pos} /\ s.pos \in Wanted(s, e)
  BY DEF Subs, Keeps
<1>2. \A i \in Wanted(s, e) \ {s.pos} : i < s.pos
  BY <1>1 DEF Wanted
<1>3. /\ Append(s.sent, s.pos) \in Seq(Nat) /\ Increasing(Append(s.sent, s.pos))
      /\ ToSet(Append(s.sent, s.pos)) = Wanted(s, e)
  <2>1. \A i \in ToSet(s.sent) : i < s.pos
    BY <1>1, <1>2
  <2>2. /\ Append(s.sent, s.pos) \in Seq(Nat) /\ Increasing(Append(s.sent, s.pos))
        /\ ToSet(Append(s.sent, s.pos)) = ToSet(s.sent) \cup {s.pos}
    BY <1>1, <2>1, AppendIncreases
  <2> QED
    BY <1>1, <2>2
<1>4. /\ t.pos = s.pos /\ t.missed = s.missed /\ t.start = s.start /\ t.filter = s.filter
      /\ t.sent = Append(s.sent, s.pos) /\ t.at = "waiting"
  BY DEF Subs
<1>5. t \in Subs
  BY <1>3 DEF Subs
<1> HIDE DEF t
<1>6. Wanted(t, e) = Wanted(s, e)
  BY <1>4 DEF Wanted
<1> QED
  BY <1>3, <1>4, <1>5, <1>6 DEF Keeps, t

LEMMA NextFollowed == Typed /\ Followed /\ [Next]_vars => SubsTyped' /\ Followed'
<1> SUFFICES ASSUME Typed, Followed, [Next]_vars PROVE SubsTyped' /\ Followed'
  OBVIOUS
<1>1. /\ subs \in [Collections -> Subs] /\ emitted \in [Collections -> Seq(Actions)]
      /\ \A c \in Collections : Keeps(subs[c], emitted[c])
  BY DEF Typed, SubsTyped, Followed
<1>2. CASE UNCHANGED <<subs, emitted>>
  BY <1>1, <1>2 DEF SubsTyped, Followed
<1>3. ASSUME NEW c \in Collections, NEW s \in Subs, Keeps(s, emitted[c]),
             subs' = [subs EXCEPT ![c] = s], UNCHANGED emitted
      PROVE  SubsTyped' /\ Followed'
  <2>1. subs' \in [Collections -> Subs]
    BY <1>1, <1>3
  <2>2. ASSUME NEW d \in Collections PROVE Keeps(subs'[d], emitted'[d])
    <3>1. CASE d = c
      BY <1>1, <1>3, <3>1
    <3>2. CASE d # c
      BY <1>1, <1>3, <3>2
    <3> QED
      BY <3>1, <3>2
  <2> QED
    BY <1>1, <1>3, <2>1, <2>2 DEF SubsTyped, Followed
<1>4. ASSUME NEW c \in Collections, NEW a \in Actions, UNCHANGED subs,
             emitted' = [emitted EXCEPT ![c] = Append(@, a)]
      PROVE  SubsTyped' /\ Followed'
  <2>1. Append(emitted[c], a) \in Seq(Actions) /\ Keeps(subs[c], Append(emitted[c], a))
    BY <1>1, EmitKeeps
  <2>2. emitted' \in [Collections -> Seq(Actions)]
    BY <1>1, <1>4, <2>1
  <2>3. ASSUME NEW d \in Collections PROVE Keeps(subs'[d], emitted'[d])
    <3>1. CASE d = c
      BY <1>1, <1>4, <2>1, <3>1
    <3>2. CASE d # c
      BY <1>1, <1>4, <3>2
    <3> QED
      BY <3>1, <3>2
  <2> QED
    BY <1>1, <1>4, <2>2, <2>3 DEF SubsTyped, Followed
<1>5. ASSUME NEW c \in Collections, NEW filter \in Filters, ReceiveSubscribe(c, filter)
      PROVE  SubsTyped' /\ Followed'
  <2> DEFINE s == [NoSub EXCEPT !.at = "waiting", !.filter = filter,
                                !.start = Len(emitted[c]), !.pos = Len(emitted[c])]
  <2>1. s \in Subs /\ Keeps(s, emitted[c])
    BY <1>1, SubscribeKeeps
  <2>2. UNCHANGED emitted /\ (UNCHANGED subs \/ subs' = [subs EXCEPT ![c] = s])
    BY <1>5 DEF ReceiveSubscribe
  <2> HIDE DEF s
  <2> QED
    BY <1>2, <1>3, <2>1, <2>2
<1>6. CASE Finish
  <2>1. UNCHANGED emitted
    BY <1>6 DEF Finish
  <2>2. ASSUME NEW d \in Collections PROVE subs'[d] \in Subs /\ Keeps(subs'[d], emitted[d])
    <3>1. subs'[d] = subs[d] \/ subs'[d] = [subs[d] EXCEPT !.at = "ended"]
      BY <1>6 DEF Finish
    <3> QED
      BY <1>1, <3>1, EndKeeps
  <2>3. subs' = [d \in Collections |-> subs'[d]]
    BY <1>6 DEF Finish
  <2>4. subs' \in [Collections -> Subs]
    BY <2>2, <2>3
  <2> QED
    BY <1>1, <2>1, <2>2, <2>4 DEF SubsTyped, Followed
<1>7. ASSUME NEW c \in Collections, ProcessGroup(c) PROVE SubsTyped' /\ Followed'
  <2>1. UNCHANGED subs
    BY <1>7 DEF ProcessGroup
  <2>2. \/ emitted' = [emitted EXCEPT ![c] = Append(@, "upsert")]
        \/ UNCHANGED emitted
    BY <1>7 DEF ProcessGroup
  <2>3. "upsert" \in Actions
    BY DEF Actions
  <2> QED
    BY <1>2, <1>4, <2>1, <2>2, <2>3
<1>8. ASSUME NEW c \in Collections, ForwardEvents(c) PROVE SubsTyped' /\ Followed'
  <2> DEFINE s == subs[c]
             e == emitted[c]
             oldest == Len(e) - EventCapacity
             lagged == [s EXCEPT !.pos = oldest, !.missed = @ \cup (s.pos + 1)..oldest]
             next == [s EXCEPT !.pos = @ + 1,
                               !.at = IF e[s.pos + 1] \in s.filter THEN "sending" ELSE @]
  <2>1. /\ s \in Subs /\ e \in Seq(Actions) /\ Keeps(s, e) /\ s.at = "waiting" /\ s.pos < Len(e)
        /\ Len(e) \in Nat /\ s.pos \in Nat
    BY <1>1, <1>8, LenProperties DEF ForwardEvents, Subs
  <2>2. UNCHANGED emitted /\ subs' = [subs EXCEPT ![c] = IF s.pos < oldest THEN lagged ELSE next]
    BY <1>8 DEF ForwardEvents
  <2>3. CASE s.pos < oldest
    <3>1. oldest \in Nat /\ oldest <= Len(e)
      BY <2>1, <2>3
    <3>2. lagged \in Subs /\ Keeps(lagged, e)
      BY <2>1, <2>3, <3>1, LagKeeps
    <3>3. subs' = [subs EXCEPT ![c] = lagged]
      BY <2>2, <2>3
    <3> HIDE DEF lagged
    <3> QED
      BY <1>3, <2>2, <3>2, <3>3
  <2>4. CASE ~(s.pos < oldest)
    <3>1. next \in Subs /\ Keeps(next, e)
      BY <2>1, NextEventKeeps
    <3>2. subs' = [subs EXCEPT ![c] = next]
      BY <2>2, <2>4
    <3> HIDE DEF next
    <3> QED
      BY <1>3, <2>2, <3>1, <3>2
  <2> QED
    BY <2>3, <2>4
<1>9. ASSUME NEW c \in Collections, SendEvent(c) PROVE SubsTyped' /\ Followed'
  <2> DEFINE s == subs[c]
             sent == [s EXCEPT !.at = "waiting", !.sent = Append(@, s.pos)]
             ended == [s EXCEPT !.at = "ended"]
  <2>1. s \in Subs /\ Keeps(s, emitted[c]) /\ s.at = "sending" /\ UNCHANGED emitted
    BY <1>1, <1>9 DEF SendEvent
  <2>2. sent \in Subs /\ Keeps(sent, emitted[c]) /\ ended \in Subs /\ Keeps(ended, emitted[c])
    BY <2>1, SendKeeps, EndKeeps
  <2>3. subs' = [subs EXCEPT ![c] = sent] \/ subs' = [subs EXCEPT ![c] = ended]
    BY <1>1, <1>9 DEF SendEvent, Subs
  <2> HIDE DEF sent, ended
  <2> QED
    BY <1>3, <2>1, <2>2, <2>3
<1>10. ASSUME NEW c \in Collections, NEW a \in Actions, EmitEvent(c, a) PROVE SubsTyped' /\ Followed'
  BY <1>4, <1>10 DEF EmitEvent
<1> QED
  BY <1>2, <1>5, <1>6, <1>7, <1>8, <1>9, <1>10
  DEF Next, Receive, ReceiveUpsert, ReceivePing, ReceivePongFrame, ReceiveUnreadable, Handler, Enqueue,
      SendReply, Batch, BatchFirst, BatchMore, BatchComplete, SendAnswer, BatchAborted, Heart, Heartbeat,
      SendHeartbeat, Write, Forwarder, TimePasses, ClientCloses, DropCollection, vars

-----------------------------------------------------------------------------
(* The theorems *)

LEMMA InitHolds == Init => IInv
<1> SUFFICES ASSUME Init PROVE IInv
  OBVIOUS
<1>1. /\ <<>> \in Seq(Nat) /\ <<>> \in Seq(Upserts) /\ <<>> \in Seq(Actions) /\ Len(<<>>) = 0
      /\ ToSet(<<>>) = {} /\ Increasing(<<>>)
  BY EmptySeq DEF ToSet, Increasing
<1>2. /\ received = <<>> /\ batchQueue = <<>> /\ batch.taken = <<>> /\ answered = {}
      /\ batch = [at |-> "waiting", taken |-> <<>>, groups |-> {}, answer |-> Nothing]
      /\ handler = [at |-> "receiving", msg |-> Nothing] /\ writer = "running"
      /\ applied = [c \in Collections |-> <<>>]
  BY DEF Init
<1>3. OutTyped
  <2>1. Reply("ping") \in Messages /\ Nothing \in Messages
    BY Replying
  <2>2. <<Reply("ping")>> \in Seq(Messages) /\ Len(<<Reply("ping")>>) = 1
    BY <2>1
  <2> QED
    BY <2>1, <2>2 DEF Init, OutTyped
<1>4. BatchTyped
  BY <1>1, <1>2, Replying DEF BatchTyped, Batches
<1>5. SubsTyped /\ Followed
  BY <1>1, NoSubKeeps DEF Init, SubsTyped, Followed
<1>6. Working /\ Queued /\ Behind
  BY <1>1, <1>2 DEF Working, Queued, Behind
<1>7. Accounted
  <2>1. Pending = {}
    BY <1>1, <1>2 DEF Pending
  <2> QED
    BY <1>1, <1>2, <2>1 DEF Accounted
<1> QED
  BY <1>3, <1>4, <1>5, <1>6, <1>7 DEF IInv, Typed

(* The inductive invariant holds in every reachable state, for all         *)
(* collections, capacities and bounds.                                     *)
THEOREM Invariance == Spec => []IInv
<1>1. Init => IInv
  BY InitHolds
<1>2. IInv /\ [Next]_vars => IInv'
  <2> SUFFICES ASSUME IInv, [Next]_vars PROVE IInv'
    OBVIOUS
  <2>1. Typed /\ Ledger /\ Followed
    BY DEF IInv, Ledger, Typed
  <2>2. OutTyped' /\ Ledger' /\ SubsTyped' /\ Followed'
    BY <2>1, NextOutTyped, NextLedger, NextFollowed
  <2> QED
    BY <2>2 DEF IInv, Ledger, Typed
<1> QED
  BY <1>1, <1>2, PTL DEF Spec

(* The upserts of a client reach each collection in the order it sent      *)
(* them, whatever the debounce, the batches and the groups make of them    *)
(* (process_upsert_batch); and no queue grows beyond its bound.            *)
THEOREM OrderKept == Spec => []ConnectionInv
<1>1. IInv => ConnectionInv
  <2> SUFFICES ASSUME IInv PROVE ConnectionInv
    OBVIOUS
  <2>1. TypeOK
    <3>1. OutTyped /\ BatchTyped /\ SubsTyped
      BY DEF IInv, Typed
    <3> QED
      BY <3>1 DEF TypeOK, OutTyped, BatchTyped, SubsTyped, Batches, Subs
  <2>2. InOrder
    BY DEF IInv, Behind, InOrder
  <2> QED
    BY <2>1, <2>2 DEF ConnectionInv
<1> QED
  BY <1>1, Invariance, PTL

(* While the client can be written to, each upsert it sent is answered or  *)
(* pending, and none is both (handle_streaming_socket, the batch task).    *)
THEOREM NoneForgotten == Spec => []Accounted
<1>1. IInv => Accounted
  BY DEF IInv
<1> QED
  BY <1>1, Invariance, PTL

(* A subscriber gets each event that passes its filter once and in order,  *)
(* but for those its channel dropped (spawn_subscription_forwarder).       *)
THEOREM NoneSkipped == Spec => []NoGap
<1>1. IInv => NoGap
  BY DEF IInv, Followed, Keeps, Wanted, NoGap
<1> QED
  BY <1>1, Invariance, PTL
=============================================================================
