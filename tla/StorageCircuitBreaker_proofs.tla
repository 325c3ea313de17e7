--------------------- MODULE StorageCircuitBreaker_proofs ---------------------
(* Proofs about StorageCircuitBreaker. *)
EXTENDS StorageCircuitBreaker, TLAPS

USE DEF Goto, AtMost

(* The atomics and the callers' steps keep their types, for any callers,   *)
(* threshold and timeout (StorageCircuitBreaker's fields).                 *)
THEOREM TypeCorrect == Spec => []TypeOK
<1>1. Init => TypeOK
  BY CircuitBreakerAssumption DEF Init, TypeOK, Steps
<1>2. TypeOK /\ [Next]_vars => TypeOK'
  <2> SUFFICES ASSUME TypeOK, [Next]_vars PROVE TypeOK'
    OBVIOUS
  <2> USE CircuitBreakerAssumption DEF TypeOK, Steps
  <2>1. ASSUME NEW c \in Callers, Call(c) PROVE TypeOK'
    BY <2>1 DEF Call
  <2>2. ASSUME NEW c \in Callers, Check(c) PROVE TypeOK'
    BY <2>2 DEF Check
  <2>3. ASSUME NEW c \in Callers, Probe(c) PROVE TypeOK'
    BY <2>3 DEF Probe
  <2>4. ASSUME NEW c \in Callers, Run(c) PROVE TypeOK'
    BY <2>4 DEF Run
  <2>5. ASSUME NEW c \in Callers, Zero(c) PROVE TypeOK'
    BY <2>5 DEF Zero
  <2>6. ASSUME NEW c \in Callers, Close(c) PROVE TypeOK'
    BY <2>6 DEF Close
  <2>7. ASSUME NEW c \in Callers, Count(c) PROVE TypeOK'
    BY <2>7 DEF Count
  <2>8. ASSUME NEW c \in Callers, Stamp(c) PROVE TypeOK'
    BY <2>8 DEF Stamp
  <2>9. ASSUME NEW c \in Callers, Decide(c) PROVE TypeOK'
    BY <2>9 DEF Decide, Opens
  <2>10. ASSUME NEW c \in Callers, Look(c) PROVE TypeOK'
    BY <2>10 DEF Look
  <2>11. ASSUME NEW c \in Callers, Reopen(c) PROVE TypeOK'
    BY <2>11 DEF Reopen, Opens
  <2>12. CASE Tick
    BY <2>12 DEF Tick
  <2>13. CASE DiskChanges
    BY <2>13 DEF DiskChanges
  <2>14. CASE UNCHANGED vars
    BY <2>14 DEF vars
  <2> QED
    BY <2>1, <2>2, <2>3, <2>4, <2>5, <2>6, <2>7, <2>8, <2>9, <2>10, <2>11,
       <2>12, <2>13, <2>14 DEF Next, Finish
<1> QED
  BY <1>1, <1>2, PTL DEF Spec

(* However many callers there are, a circuit is half-open only while one   *)
(* of them is making the attempt (Probe): it cannot be left so.            *)
THEOREM NeverLeftHalfOpen == Spec => []HalfOpenHasAttempt
<1>1. Init => HalfOpenHasAttempt
  BY DEF Init, HalfOpenHasAttempt
<1>2. TypeOK /\ HalfOpenHasAttempt /\ [Next]_vars => HalfOpenHasAttempt'
  <2> SUFFICES ASSUME TypeOK, HalfOpenHasAttempt, [Next]_vars,
                      state' = "half-open"
               PROVE  \E d \in Callers : InFlight(d)'
    BY DEF HalfOpenHasAttempt
  <2> USE DEF InFlight
  (* A caller that ends its call leaves the state changed, or has just     *)
  (* read that it is not half-open; any other step keeps callers in flight *)
  (* where they were.                                                      *)
  <2>1. ASSUME NEW c \in Callers, Probe(c) PROVE \E d \in Callers : InFlight(d)'
    BY <2>1 DEF Probe, TypeOK
  <2>2. ASSUME NEW c \in Callers, Close(c) \/ Reopen(c) PROVE FALSE
    BY <2>2 DEF Close, Reopen, Opens
  <2>3. ASSUME NEW c \in Callers, Look(c) PROVE \E d \in Callers : InFlight(d)'
    BY <2>3 DEF Look, HalfOpenHasAttempt, TypeOK
  <2>4. ASSUME NEW c \in Callers, Decide(c) PROVE \E d \in Callers : InFlight(d)'
    BY <2>4 DEF Decide, Opens, HalfOpenHasAttempt, TypeOK
  <2>5. ASSUME NEW c \in Callers, Call(c) \/ Check(c) PROVE \E d \in Callers : InFlight(d)'
    BY <2>5 DEF Call, Check, HalfOpenHasAttempt, TypeOK
  <2>6. ASSUME NEW c \in Callers, Run(c) \/ Zero(c) PROVE \E d \in Callers : InFlight(d)'
    BY <2>6 DEF Run, Zero, HalfOpenHasAttempt, TypeOK
  <2>7. ASSUME NEW c \in Callers, Count(c) \/ Stamp(c) PROVE \E d \in Callers : InFlight(d)'
    BY <2>7 DEF Count, Stamp, HalfOpenHasAttempt, TypeOK
  <2>8. CASE Tick \/ DiskChanges \/ UNCHANGED vars
    BY <2>8 DEF Tick, DiskChanges, vars, HalfOpenHasAttempt
  <2> QED
    BY <2>1, <2>2, <2>3, <2>4, <2>5, <2>6, <2>7, <2>8 DEF Next, Finish
<1> QED
  BY <1>1, <1>2, TypeCorrect, PTL DEF Spec

-----------------------------------------------------------------------------
(***************************************************************************)
(* With one caller, as in VectorDB, the breaker keeps its promise.  The    *)
(* invariant says how far the caller's step and the atomics agree.         *)
(***************************************************************************)
OneCaller == \E c \in Callers : Callers = {c}

Agreement ==
    \A c \in Callers :
       /\ state = "closed" => failures < Threshold \/ pc[c] \in {"stamp", "decide"}
       /\ state = "open" => pc[c] \in {"idle", "check", "probe"}
       /\ state = "half-open" => pc[c] \notin {"idle", "check", "probe"}
       /\ state # "open" => pc[c] \notin {"check", "probe"}
       /\ pc[c] = "probe" => since = Reset
       /\ pc[c] = "close" => failures = 0
       /\ pc[c] \in {"stamp", "decide"} => saw[c] = failures /\ failures > 0
       /\ pc[c] = "look" => failures < Threshold
       /\ pc[c] = "reopen" => state = "half-open" /\ failures < Threshold

THEOREM AgreementHolds == ASSUME OneCaller PROVE Spec => []Agreement
<1>1. Init => Agreement
  <2> SUFFICES ASSUME Init PROVE Agreement
    OBVIOUS
  <2>1. state = "closed" /\ failures < Threshold
    BY CircuitBreakerAssumption DEF Init
  <2>2. \A c \in Callers : pc[c] = "idle"
    BY DEF Init
  <2> QED
    BY <2>1, <2>2 DEF Agreement
<1>2. TypeOK /\ Agreement /\ [Next]_vars => Agreement'
  <2> SUFFICES ASSUME TypeOK, Agreement, [Next]_vars PROVE Agreement'
    OBVIOUS
  <2>c. PICK c \in Callers : Callers = {c}
    BY OneCaller DEF OneCaller
  <2> USE CircuitBreakerAssumption, <2>c DEF Agreement, TypeOK
  <2>1. CASE Call(c)
    BY <2>1 DEF Call
  <2>2. CASE Check(c)
    BY <2>2 DEF Check
  <2>3. CASE Probe(c)
    BY <2>3 DEF Probe
  <2>4. CASE Run(c)
    BY <2>4 DEF Run
  <2>5. CASE Zero(c)
    BY <2>5 DEF Zero
  <2>6. CASE Close(c)
    BY <2>6 DEF Close
  <2>7. CASE Count(c)
    BY <2>7 DEF Count
  <2>8. CASE Stamp(c)
    BY <2>8 DEF Stamp
  <2>9. CASE Decide(c)
    BY <2>9 DEF Decide, Opens
  <2>10. CASE Look(c)
    BY <2>10 DEF Look
  <2>11. CASE Reopen(c)
    BY <2>11 DEF Reopen, Opens
  <2>12. CASE Tick \/ DiskChanges \/ UNCHANGED vars
    BY <2>12 DEF Tick, DiskChanges, vars
  <2> QED
    BY <2>1, <2>2, <2>3, <2>4, <2>5, <2>6, <2>7, <2>8, <2>9, <2>10, <2>11,
       <2>12 DEF Next, Finish
<1> QED
  BY <1>1, <1>2, TypeCorrect, PTL DEF Spec

(* One caller at a time (VectorDB, behind &mut self) sees a circuit that   *)
(* opens after Threshold failures, lets one attempt through after Reset,   *)
(* and closes or opens again on its outcome, as the comments promise.      *)
THEOREM PromiseKept == ASSUME OneCaller PROVE Spec => KeepsPromise
<1>1. Init => Promise!Init
  BY CircuitBreakerAssumption DEF Init, Promise!Init, At
<1>2. TypeOK /\ Agreement /\ [Next]_vars => [Promise!Next]_(Promise!vars)
  <2> SUFFICES ASSUME TypeOK, Agreement, [Next]_vars PROVE [Promise!Next]_(Promise!vars)
    OBVIOUS
  <2>c. PICK c \in Callers : Callers = {c}
    BY OneCaller DEF OneCaller
  <2> USE CircuitBreakerAssumption, <2>c DEF Agreement, TypeOK, At,
      Promise!vars, Promise!AtMost
  <2>1. CASE Call(c) \/ Check(c)
    BY <2>1 DEF Call, Check
  <2>3. CASE Probe(c)
    <3>1. Promise!Attempt
      BY <2>3 DEF Probe, Promise!Attempt
    <3> QED
      BY <3>1 DEF Promise!Next
  <2>4. CASE Run(c)
    BY <2>4 DEF Run
  <2>5. CASE Zero(c)
    <3>1. Promise!Success
      BY <2>5 DEF Zero, Promise!Success
    <3> QED
      BY <3>1 DEF Promise!Next
  <2>6. CASE Close(c)
    BY <2>6 DEF Close
  <2>7. CASE Count(c)
    <3>1. Promise!Failure
      BY <2>7 DEF Count, Promise!Failure
    <3> QED
      BY <3>1 DEF Promise!Next
  <2>8. CASE Stamp(c)
    BY <2>8 DEF Stamp
  <2>9. CASE Decide(c)
    BY <2>9 DEF Decide, Opens
  <2>10. CASE Look(c)
    BY <2>10 DEF Look
  <2>11. CASE Reopen(c)
    BY <2>11 DEF Reopen, Opens
  <2>12. CASE Tick
    <3>1. CASE pc[c] = "stamp"
      BY <2>12, <3>1 DEF Tick
    <3>2. CASE pc[c] # "stamp"
      <4>1. Promise!Time
        BY <2>12, <3>2 DEF Tick, Promise!Time
      <4> QED
        BY <4>1 DEF Promise!Next
    <3> QED
      BY <3>1, <3>2
  <2>13. CASE DiskChanges \/ UNCHANGED vars
    BY <2>13 DEF DiskChanges, vars
  <2> QED
    BY <2>1, <2>3, <2>4, <2>5, <2>6, <2>7, <2>8, <2>9, <2>10, <2>11, <2>12,
       <2>13 DEF Next, Finish
<1> QED
  BY <1>1, <1>2, TypeCorrect, AgreementHolds, PTL DEF Spec, KeepsPromise, Promise!Spec
=============================================================================
