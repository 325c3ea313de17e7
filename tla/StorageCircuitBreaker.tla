------------------------ MODULE StorageCircuitBreaker ------------------------
(***************************************************************************)
(* StorageCircuitBreaker of crates/core/src/storage.rs: three atomics that *)
(* callers read and write without a lock.  VectorDB, behind &mut self, is  *)
(* one caller; in the server, auto-save, POST /save, PATCH and restores    *)
(* call it concurrently.                                                   *)
(*                                                                         *)
(* pc[c] is the step caller c is about to take:                            *)
(*   idle           no call                                                *)
(*   check, probe   it has read OPEN: should_attempt_reset, HALF_OPEN      *)
(*   run            the operation                                          *)
(*   zero, close    on_success                                             *)
(*   count, stamp, decide, look, reopen   on_failure                       *)
(***************************************************************************)
EXTENDS Naturals

CONSTANTS
    Callers,
    Threshold,  \* failure_threshold (5 in the code)
    Reset       \* reset_timeout_secs (60 in the code), in ticks

ASSUME CircuitBreakerAssumption == Threshold \in Nat \ {0} /\ Reset \in Nat

VARIABLES
    pc,
    state,
    failures,  \* failure_count; only whether it is below Threshold matters,
               \* and it is not counted any further
    since,     \* the clock minus last_failure, counted as far as Reset
    saw,       \* of each caller: the count its fetch_add made
    healthy    \* the disk works

vars == <<pc, state, failures, since, saw, healthy>>

AtMost(n, limit) == IF n < limit THEN n ELSE limit

Steps == {"idle", "check", "probe", "run", "zero", "close",
          "count", "stamp", "decide", "look", "reopen"}

Init ==
    /\ pc = [c \in Callers |-> "idle"]
    /\ state = "closed"
    /\ failures = 0
    /\ since = Reset
    /\ saw = [c \in Callers |-> 0]
    /\ healthy \in BOOLEAN

Goto(c, label) == pc' = [pc EXCEPT ![c] = label]

-----------------------------------------------------------------------------
(* call: the state is read once. *)
Call(c) ==
    /\ pc[c] = "idle"
    /\ Goto(c, IF state = "open" THEN "check" ELSE "run")
    /\ UNCHANGED <<state, failures, since, saw, healthy>>

(* Mutant of Check: last_failure is compared the wrong way. *)
CheckNever(c) ==
    /\ pc[c] = "check"
    /\ Goto(c, IF since > Reset THEN "probe" ELSE "idle")
    /\ UNCHANGED <<state, failures, since, saw, healthy>>

Check(c) ==
    /\ pc[c] = "check"
    /\ Goto(c, IF since >= Reset THEN "probe" ELSE "idle")
    /\ UNCHANGED <<state, failures, since, saw, healthy>>

(* Mutant of Probe: the attempt is made by the next call. *)
ProbeLater(c) ==
    /\ pc[c] = "probe"
    /\ state' = "half-open"
    /\ Goto(c, "idle")
    /\ UNCHANGED <<failures, since, saw, healthy>>

Probe(c) ==
    /\ pc[c] = "probe"
    /\ state' = "half-open"
    /\ Goto(c, "run")
    /\ UNCHANGED <<failures, since, saw, healthy>>

Run(c) ==
    /\ pc[c] = "run"
    /\ Goto(c, IF healthy THEN "zero" ELSE "count")
    /\ UNCHANGED <<state, failures, since, saw, healthy>>

(* on_success *)
Zero(c) ==
    /\ pc[c] = "zero"
    /\ failures' = 0
    /\ Goto(c, "close")
    /\ UNCHANGED <<state, since, saw, healthy>>

Close(c) ==
    /\ pc[c] = "close"
    /\ state' = "closed"
    /\ Goto(c, "idle")
    /\ UNCHANGED <<failures, since, saw, healthy>>

(* on_failure *)
Count(c) ==
    /\ pc[c] = "count"
    /\ failures' = AtMost(failures + 1, Threshold)
    /\ saw' = [saw EXCEPT ![c] = failures']
    /\ Goto(c, "stamp")
    /\ UNCHANGED <<state, since, healthy>>

Stamp(c) ==
    /\ pc[c] = "stamp"
    /\ since' = 0
    /\ Goto(c, "decide")
    /\ UNCHANGED <<state, failures, saw, healthy>>

Opens(c) ==
    /\ saw' = [saw EXCEPT ![c] = 0]
    /\ state' = "open"
    /\ Goto(c, "idle")

Decide(c) ==
    /\ pc[c] = "decide"
    /\ \/ saw[c] = Threshold /\ Opens(c)
       \/ saw[c] < Threshold /\ Goto(c, "look") /\ UNCHANGED <<state, saw>>
    /\ UNCHANGED <<failures, since, healthy>>

Look(c) ==
    /\ pc[c] = "look"
    /\ Goto(c, IF state = "half-open" THEN "reopen" ELSE "idle")
    /\ saw' = [saw EXCEPT ![c] = 0]
    /\ UNCHANGED <<state, failures, since, healthy>>

Reopen(c) ==
    /\ pc[c] = "reopen"
    /\ Opens(c)
    /\ UNCHANGED <<failures, since, healthy>>

(* The world *)
Tick ==
    /\ since < Reset
    /\ since' = since + 1
    /\ UNCHANGED <<pc, state, failures, saw, healthy>>

DiskChanges ==
    /\ healthy' = ~healthy
    /\ UNCHANGED <<pc, state, failures, since, saw>>

-----------------------------------------------------------------------------
Finish(c) ==
    \/ Check(c) \/ Probe(c) \/ Run(c) \/ Zero(c) \/ Close(c)
    \/ Count(c) \/ Stamp(c) \/ Decide(c) \/ Look(c) \/ Reopen(c)

Next == (\E c \in Callers : Call(c) \/ Finish(c)) \/ Tick \/ DiskChanges

Spec == Init /\ [][Next]_vars

(* A call returns, time passes, and someone calls again: the auto-save     *)
(* task does while a collection is dirty.                                  *)
FairSpec ==
    /\ Spec
    /\ \A c \in Callers : WF_vars(Call(c) \/ Finish(c))
    /\ WF_vars(Tick)

-----------------------------------------------------------------------------
(***************************************************************************)
(* Properties                                                              *)
(***************************************************************************)
TypeOK ==
    /\ pc \in [Callers -> Steps]
    /\ state \in {"closed", "open", "half-open"}
    /\ failures \in 0..Threshold
    /\ since \in 0..Reset
    /\ saw \in [Callers -> 0..Threshold]
    /\ healthy \in BOOLEAN

InFlight(c) == pc[c] \notin {"idle", "check", "probe"}

(* The circuit is half-open only while an attempt is being made that will  *)
(* close it or open it again, whatever other callers do meanwhile.         *)
HalfOpenHasAttempt == state = "half-open" => \E c \in Callers : InFlight(c)

(* When the disk works again for good the circuit closes for good.         *)
Recovers == <>[]healthy => <>[](state = "closed")

(* One caller sees what Breaker promises.  A result counts once its first  *)
(* atomic operation is done.                                               *)
At(labels) == \E c \in Callers : pc[c] \in labels
Promise == INSTANCE Breaker WITH
    mode <- IF At({"close"}) THEN "closed"
            ELSE IF At({"stamp", "decide"}) /\ failures = Threshold THEN "open"
            ELSE IF At({"stamp", "decide", "look", "reopen"}) /\ state = "half-open" THEN "open"
            ELSE state,
    fails <- failures,
    since <- IF At({"stamp"}) THEN 0 ELSE since
KeepsPromise == Promise!Spec
=============================================================================
