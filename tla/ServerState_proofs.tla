-------------------------- MODULE ServerState_proofs --------------------------
(* Proofs about ServerState. *)
EXTENDS ServerState, FiniteSetTheorems, TLAPS

USE ServerStateAssumption DEF data, locks, files, control

-----------------------------------------------------------------------------
(***************************************************************************)
(* The inductive invariant, for all values of the constants.               *)
(***************************************************************************)
Labels == {"idle", "insert", "rmdir", "apply", "reply", "set",
           "loop", "rlock", "write", "rename", "mark", "stopped"}
Resting == {"idle", "loop", "stopped"}
Writing == {"write", "rename"}
HasArc == {"apply", "reply", "set", "rlock", "write", "rename", "mark"}

Calls == [op : {"none", "create", "delete", "upsert", "patch", "save", "auto", "final"},
          name : Names \cup {Nil}, arc : Arcs \cup {Nil}, ver : Versions]

(* TypeOK, and what each step of a handler finds in the call it is part of. *)
Typed ==
    /\ TypeOK
    /\ pc \in [Tasks -> Labels]
    /\ call \in [Tasks -> Calls]
    /\ \A t \in Tasks :
          /\ pc[t] \in Resting => call[t].ver = 0 /\ call[t].op \in {"none", "save", "auto", "final"}
          /\ pc[t] \notin Resting => call[t].name \in Names
          /\ pc[t] \in HasArc => call[t].arc \in Arcs
          /\ pc[t] = "insert" => call[t].op = "create" /\ call[t].ver = 0
          /\ pc[t] = "set" => call[t].op = "patch"
          /\ pc[t] = "mark" => call[t].op \in {"create", "patch"}
    /\ stage \in {"serving", "draining", "stopping"} => pc[Main] = "idle"

(* There are as many arcs and versions as requests that make one: those    *)
(* about to make one are counted as well.                                  *)
Inserting == {t \in Tasks : pc[t] = "insert"}
Changing(a) == {t \in Tasks : pc[t] \in {"apply", "set"} /\ call[t].arc = a}

Counted ==
    /\ IsFiniteSet(Inserting)
    /\ born + Cardinality(Inserting) <= Cardinality(Loaded) + calls
    /\ \A a \in Arcs : /\ IsFiniteSet(Changing(a))
                       /\ mem[a] + Cardinality(Changing(a)) <= calls

(* A collection is locked while it is written.  A .tmp file, which a save  *)
(* that failed may have left, holds no more than the collection, and no    *)
(* less than its snapshot.                                                 *)
Written ==
    /\ Live => \A t \in Tasks : pc[t] \in Writing => t \in readers[call[t].arc]
    /\ \A n \in Names :
          /\ tmp[n] \in Snapshots => tmp[n].ver <= mem[tmp[n].arc]
          /\ disk[n] \in Snapshots => disk[n].ver <= mem[disk[n].arc]
          /\ tmp[n] \in Snapshots /\ disk[n] \in Snapshots /\ tmp[n].arc = disk[n].arc
             => disk[n].ver <= tmp[n].ver

(* What a request was told of, or is about to be, has happened.            *)
Happened ==
    /\ \A a \in Arcs : acked[a] <= mem[a]
    /\ \A t \in Tasks : pc[t] \in HasArc => call[t].ver <= mem[call[t].arc]

(* A task with a reference into the map works on the collection its name   *)
(* stands for; only create_collection saves without one.                   *)
Referenced ==
    Live => \A t \in Tasks :
        pc[t] \in {"set", "rlock", "write", "rename", "mark"} /\ call[t].op # "create" =>
            /\ t \in refs[call[t].name]
            /\ registry[call[t].name] = call[t].arc

(* No collection has two names.                                            *)
OneName ==
    /\ \A n \in Names : Up(n) => registry[n] <= born
    /\ \A m, n \in Names : Up(m) /\ registry[m] = registry[n] => m = n

IInv == Typed /\ Counted /\ Written /\ Happened /\ Referenced /\ OneName

-----------------------------------------------------------------------------
(* Counting *)

LEMMA OneMore ==
    ASSUME NEW S, IsFiniteSet(S), NEW x, NEW T, T \subseteq S \cup {x}
    PROVE  IsFiniteSet(T) /\ Cardinality(T) \in Nat /\ Cardinality(T) <= Cardinality(S) + 1
<1>1. Cardinality(S) \in Nat
  BY FS_CardinalityType
<1>2. /\ IsFiniteSet(S \cup {x})
      /\ Cardinality(S \cup {x}) = IF x \in S THEN Cardinality(S) ELSE Cardinality(S) + 1
  BY FS_AddElement
<1>3. Cardinality(S \cup {x}) <= Cardinality(S) + 1
  BY <1>1, <1>2
<1>4. IsFiniteSet(T) /\ Cardinality(T) \in Nat /\ Cardinality(T) <= Cardinality(S \cup {x})
  BY <1>2, FS_Subset, FS_CardinalityType
<1> QED
  BY <1>1, <1>2, <1>3, <1>4

LEMMA NoMore ==
    ASSUME NEW S, IsFiniteSet(S), NEW T, T \subseteq S
    PROVE  IsFiniteSet(T) /\ Cardinality(T) \in Nat /\ Cardinality(T) <= Cardinality(S)
BY FS_Subset, FS_CardinalityType

LEMMA OneLess ==
    ASSUME NEW S, IsFiniteSet(S), NEW x \in S
    PROVE  /\ IsFiniteSet(S \ {x}) /\ Cardinality(S \ {x}) = Cardinality(S) - 1
           /\ Cardinality(S) \in Nat /\ Cardinality(S \ {x}) \in Nat
BY FS_RemoveElement, FS_CardinalityType

LEMMA LoadedCounted == Cardinality(Loaded) \in Nat
BY FS_CardinalityType

LEMMA CountersTyped ==
    ASSUME Typed
    PROVE  born \in Nat /\ calls \in Nat /\ \A a \in Arcs : mem[a] \in Nat
<1>1. born \in {0} \cup Arcs /\ calls \in 0..MaxCalls /\ mem \in [Arcs -> Versions]
  BY DEF Typed, TypeOK
<1>2. Arcs \subseteq Nat /\ Versions \subseteq Nat
  BY LoadedCounted DEF Arcs, Versions
<1>3. born \in Nat /\ calls \in Nat
  BY <1>1, <1>2
<1>4. \A a \in Arcs : mem[a] \in Nat
  BY <1>1, <1>2
<1> QED
  BY <1>3, <1>4

(* A step at which no request is made, no collection, and no change.       *)
LEMMA QuietCounts ==
    ASSUME Typed, Counted, Inserting' \subseteq Inserting,
           \A a \in Arcs : Changing(a)' \subseteq Changing(a),
           UNCHANGED <<born, mem, calls>>
    PROVE  Counted'
<1>1. IsFiniteSet(Inserting') /\ Cardinality(Inserting') \in Nat
      /\ Cardinality(Inserting') <= Cardinality(Inserting)
  BY NoMore DEF Counted
<1>2. \A a \in Arcs : /\ IsFiniteSet(Changing(a)') /\ Cardinality(Changing(a)') \in Nat
                      /\ Cardinality(Changing(a)') <= Cardinality(Changing(a))
  BY NoMore DEF Counted
<1>3. Cardinality(Inserting) \in Nat /\ \A a \in Arcs : Cardinality(Changing(a)) \in Nat
  BY FS_CardinalityType DEF Counted
<1>4. born \in Nat /\ calls \in Nat /\ \A a \in Arcs : mem[a] \in Nat
  BY CountersTyped
<1>5. born' + Cardinality(Inserting') <= Cardinality(Loaded) + calls'
  BY <1>1, <1>3, <1>4, LoadedCounted DEF Counted
<1>6. \A a \in Arcs : mem'[a] + Cardinality(Changing(a)') <= calls'
  BY <1>2, <1>3, <1>4 DEF Counted
<1> QED
  BY <1>1, <1>2, <1>5, <1>6 DEF Counted

(* A request arrives: it may be about to make one.                         *)
LEMMA ArrivalCounts ==
    ASSUME Typed, Counted, NEW t, Inserting' \subseteq Inserting \cup {t},
           \A a \in Arcs : Changing(a)' \subseteq Changing(a) \cup {t},
           UNCHANGED <<born, mem>>, calls' = calls + 1
    PROVE  Counted'
<1>1. IsFiniteSet(Inserting') /\ Cardinality(Inserting') \in Nat
      /\ Cardinality(Inserting') <= Cardinality(Inserting) + 1
  BY OneMore DEF Counted
<1>2. \A a \in Arcs : /\ IsFiniteSet(Changing(a)') /\ Cardinality(Changing(a)') \in Nat
                      /\ Cardinality(Changing(a)') <= Cardinality(Changing(a)) + 1
  BY OneMore DEF Counted
<1>3. Cardinality(Inserting) \in Nat /\ \A a \in Arcs : Cardinality(Changing(a)) \in Nat
  BY FS_CardinalityType DEF Counted
<1>4. born \in Nat /\ calls \in Nat /\ \A a \in Arcs : mem[a] \in Nat
  BY CountersTyped
<1>5. born' + Cardinality(Inserting') <= Cardinality(Loaded) + calls'
  BY <1>1, <1>3, <1>4, LoadedCounted DEF Counted
<1>6. \A a \in Arcs : mem'[a] + Cardinality(Changing(a)') <= calls'
  BY <1>2, <1>3, <1>4 DEF Counted
<1> QED
  BY <1>1, <1>2, <1>5, <1>6 DEF Counted

(* The arc or the version that is made is one of those there are.          *)
LEMMA ArcsLeft ==
    ASSUME Typed, Counted, NEW t \in Tasks, pc[t] = "insert"
    PROVE  /\ born + 1 \in Arcs
           /\ born + 1 + Cardinality(Inserting \ {t}) <= Cardinality(Loaded) + calls
           /\ IsFiniteSet(Inserting \ {t})
<1>1. t \in Inserting /\ IsFiniteSet(Inserting)
  BY DEF Inserting, Counted
<1>2. /\ IsFiniteSet(Inserting \ {t}) /\ Cardinality(Inserting \ {t}) = Cardinality(Inserting) - 1
      /\ Cardinality(Inserting) \in Nat /\ Cardinality(Inserting \ {t}) \in Nat
  BY <1>1, OneLess
<1>3. born \in Nat /\ calls \in 0..MaxCalls
  BY LoadedCounted DEF Typed, TypeOK, Arcs
<1>4. born + Cardinality(Inserting) <= Cardinality(Loaded) + calls
  BY DEF Counted
<1> QED
  BY <1>2, <1>3, <1>4, LoadedCounted DEF Arcs

LEMMA VersionsLeft ==
    ASSUME Typed, Counted, NEW t \in Tasks, pc[t] \in {"apply", "set"}
    PROVE  LET arc == call[t].arc IN
           /\ arc \in Arcs
           /\ mem[arc] + 1 \in Versions
           /\ mem[arc] + 1 + Cardinality(Changing(arc) \ {t}) <= calls
           /\ IsFiniteSet(Changing(arc) \ {t})
<1> DEFINE arc == call[t].arc
<1>1. arc \in Arcs
  BY DEF Typed, HasArc
<1>2. t \in Changing(arc) /\ IsFiniteSet(Changing(arc))
  BY <1>1 DEF Changing, Counted
<1>3. /\ IsFiniteSet(Changing(arc) \ {t}) /\ Cardinality(Changing(arc) \ {t}) = Cardinality(Changing(arc)) - 1
      /\ Cardinality(Changing(arc)) \in Nat /\ Cardinality(Changing(arc) \ {t}) \in Nat
  BY <1>2, OneLess
<1>4. mem[arc] \in Versions /\ calls \in 0..MaxCalls
  BY <1>1 DEF Typed, TypeOK
<1>5. mem[arc] + Cardinality(Changing(arc)) <= calls
  BY <1>1 DEF Counted
<1> QED
  BY <1>1, <1>3, <1>4, <1>5 DEF Versions

-----------------------------------------------------------------------------
(* Types *)

LEMMA NextTyped == Typed /\ Counted /\ [Next]_vars => Typed'
<1> SUFFICES ASSUME Typed, Counted, [Next]_vars PROVE Typed'
  OBVIOUS
<1> USE DEF Typed, TypeOK, Calls, Labels, Resting, HasArc, Goto, End, NoCall, Take, Drop, Unlock, Arrives, ArrivesFor, Tasks, Versions, Up
<1>1. ASSUME NEW t \in Tasks, NEW n \in Names, BeginCreate(t, n) PROVE Typed'
  BY <1>1 DEF BeginCreate
<1>2. ASSUME NEW t \in Tasks, Insert(t) PROVE Typed'
  <2>1. born' = born + 1 /\ born' \in Arcs
    BY <1>2, ArcsLeft DEF Insert
  <2> QED
    BY <1>2, <2>1 DEF Insert
<1>3. ASSUME NEW t \in Tasks, NEW n \in Names, BeginDelete(t, n) PROVE Typed'
  BY <1>3 DEF BeginDelete
<1>4. ASSUME NEW t \in Tasks, RemoveDir(t) PROVE Typed'
  BY <1>4 DEF RemoveDir
<1>5. ASSUME NEW t \in Tasks, NEW n \in Names, BeginUpsert(t, n) PROVE Typed'
  BY <1>5 DEF BeginUpsert
<1>6. ASSUME NEW t \in Tasks, Apply(t) PROVE Typed'
  <2>1. LET arc == call[t].arc IN arc \in Arcs /\ mem[arc] + 1 \in Versions
    BY <1>6, VersionsLeft DEF Apply
  <2> QED
    BY <1>6, <2>1 DEF Apply, Change
<1>7. ASSUME NEW t \in Tasks, Reply(t) PROVE Typed'
  BY <1>7 DEF Reply, Acknowledge
<1>8. ASSUME NEW t \in Tasks, NEW n \in Names, BeginPatch(t, n) PROVE Typed'
  BY <1>8 DEF BeginPatch
<1>9. ASSUME NEW t \in Tasks, SetRetention(t) PROVE Typed'
  <2>1. LET arc == call[t].arc IN arc \in Arcs /\ mem[arc] + 1 \in Versions
    BY <1>9, VersionsLeft DEF SetRetention
  <2> QED
    BY <1>9, <2>1 DEF SetRetention, Change
<1>10. ASSUME NEW t \in Tasks, MarkClean(t) PROVE Typed'
  BY <1>10 DEF MarkClean, Acknowledge
<1>11. ASSUME NEW t \in Tasks, BeginSave(t) PROVE Typed'
  BY <1>11 DEF BeginSave
<1>12. ASSUME NEW t \in Tasks, NEW n \in Names, PassOver(t, n) PROVE Typed'
  BY <1>12 DEF PassOver, Visit
<1>13. ASSUME NEW t \in Tasks, NEW n \in Names, VisitToSave(t, n) PROVE Typed'
  BY <1>13 DEF VisitToSave, Visit
<1>14. ASSUME NEW t \in Tasks, ReadLock(t) PROVE Typed'
  BY <1>14 DEF ReadLock
<1>15. ASSUME NEW t \in Tasks, WriteTmp(t) PROVE Typed'
  BY <1>15 DEF WriteTmp, Snapshots
<1>16. ASSUME NEW t \in Tasks, RenameInLoop(t) PROVE Typed'
  BY <1>16 DEF RenameInLoop, AfterRename, Snapshots
<1>17. ASSUME NEW t \in Tasks, RenameInRequest(t) PROVE Typed'
  BY <1>17 DEF RenameInRequest, AfterRename, Snapshots
<1>18. ASSUME NEW t \in Tasks, RenameFails(t) PROVE Typed'
  BY <1>18 DEF RenameFails, Abandon, Leave
<1>19. ASSUME NEW t \in Tasks, EndLoop(t) PROVE Typed'
  BY <1>19 DEF EndLoop, Leave
<1>20. CASE Tick
  BY <1>20 DEF Tick
<1>21. ASSUME NEW n \in Names, TrySave(n) PROVE Typed'
  BY <1>21 DEF TrySave, Visit
<1>22. CASE Signal
  BY <1>22 DEF Signal
<1>23. CASE Drained
  BY <1>23 DEF Drained
<1>24. CASE FinalSave
  BY <1>24 DEF FinalSave
<1>25. CASE UNCHANGED vars
  BY <1>25 DEF vars
<1>26. ASSUME NEW t \in Tasks, SaveFails(t) PROVE Typed'
  <2>1. /\ tmp' \in [Names -> Snapshots \cup {Nil, Broken}]
        /\ disk' \in [Names -> Snapshots \cup {Nil, Broken}]
    BY <1>26 DEF SaveFails
  <2>2. Abandon(t)
    BY <1>26 DEF SaveFails
  <2>3. TypeOK'
    BY <2>1, <2>2 DEF Abandon, Leave
  <2>4. /\ pc' \in [Tasks -> Labels] /\ call' \in [Tasks -> Calls]
        /\ \A u \in Tasks : \/ pc'[u] = pc[u] /\ call'[u] = call[u]
                            \/ pc'[u] = "idle" /\ call'[u] = NoCall
        /\ stage' # stage => stage' = "failed" /\ UNCHANGED pc
        /\ pc[Main] = "idle" => pc'[Main] = "idle"
    BY <2>2 DEF Abandon, Leave
  <2> QED
    BY <2>3, <2>4
<1> QED
  BY <1>1, <1>2, <1>3, <1>4, <1>5, <1>6, <1>7, <1>8, <1>9, <1>10, <1>11, <1>12, <1>13, <1>14, <1>15, <1>16, <1>17, <1>18, <1>19, <1>20, <1>21, <1>22, <1>23, <1>24, <1>25, <1>26 DEF Next, Request, RequestStep, SaveStep, AutoStep

-----------------------------------------------------------------------------
(* Counts *)

LEMMA InsertCounts ==
    ASSUME Typed, Counted, NEW t \in Tasks, Insert(t)
    PROVE  Counted'
<1>1. /\ born + 1 + Cardinality(Inserting \ {t}) <= Cardinality(Loaded) + calls
      /\ IsFiniteSet(Inserting \ {t})
  BY ArcsLeft DEF Insert
<1>2. born' = born + 1 /\ UNCHANGED <<mem, calls>>
  BY DEF Insert
<1>3. Inserting' = Inserting \ {t}
  BY DEF Insert, Goto, Inserting, Typed
<1>4. ASSUME NEW a \in Arcs
      PROVE  IsFiniteSet(Changing(a)') /\ mem'[a] + Cardinality(Changing(a)') <= calls'
  <2>1. Changing(a)' = Changing(a)
    BY DEF Insert, Goto, Changing, Typed
  <2> QED
    BY <1>2, <2>1 DEF Counted
<1> QED
  BY <1>1, <1>2, <1>3, <1>4 DEF Counted

LEMMA ChangeCounts ==
    ASSUME Typed, Counted, NEW t \in Tasks, Apply(t) \/ SetRetention(t)
    PROVE  Counted'
<1>1. pc[t] \in {"apply", "set"}
  BY DEF Apply, SetRetention
<1> PICK arc \in Arcs : arc = call[t].arc
  BY <1>1, VersionsLeft
<1>2. /\ mem[arc] + 1 + Cardinality(Changing(arc) \ {t}) <= calls
      /\ IsFiniteSet(Changing(arc) \ {t})
  BY <1>1, VersionsLeft
<1>3. /\ mem' = [mem EXCEPT ![arc] = @ + 1] /\ UNCHANGED <<born, calls>>
      /\ call' = [call EXCEPT ![t].ver = mem'[arc]]
      /\ pc' = [pc EXCEPT ![t] = "reply"] \/ pc' = [pc EXCEPT ![t] = "rlock"]
  BY DEF Apply, SetRetention, Change, Goto
<1>4. Inserting' = Inserting
  BY <1>1, <1>3 DEF Inserting, Typed
<1>5. /\ mem'[arc] = mem[arc] + 1
      /\ \A a \in Arcs \ {arc} : mem'[a] = mem[a]
  BY <1>2, <1>3 DEF Typed, TypeOK
<1>6. \A u \in Tasks : call'[u].arc = call[u].arc
  BY <1>3 DEF Typed, Calls
<1>7. Changing(arc)' = Changing(arc) \ {t}
  BY <1>1, <1>3, <1>6 DEF Changing, Typed
<1>8. \A a \in Arcs \ {arc} : Changing(a)' = Changing(a)
  BY <1>1, <1>3, <1>6 DEF Changing, Typed
<1>9. ASSUME NEW a \in Arcs
      PROVE  IsFiniteSet(Changing(a)') /\ mem'[a] + Cardinality(Changing(a)') <= calls'
  <2>1. CASE a = arc
    BY <1>2, <1>3, <1>5, <1>7, <2>1
  <2>2. CASE a # arc
    BY <1>3, <1>5, <1>8, <2>2 DEF Counted
  <2> QED
    BY <2>1, <2>2
<1> QED
  BY <1>3, <1>4, <1>9 DEF Counted

LEMMA NextCounted == Typed /\ Counted /\ [Next]_vars => Counted'
<1> SUFFICES ASSUME Typed, Counted, [Next]_vars PROVE Counted'
  OBVIOUS
<1> USE DEF Inserting, Changing, Goto, End, NoCall
<1> DEFINE Quiet == /\ Inserting' \subseteq Inserting
                    /\ \A a \in Arcs : Changing(a)' \subseteq Changing(a)
                    /\ UNCHANGED <<born, mem, calls>>
           Arrival(t) == /\ Inserting' \subseteq Inserting \cup {t}
                         /\ \A a \in Arcs : Changing(a)' \subseteq Changing(a) \cup {t}
                         /\ UNCHANGED <<born, mem>> /\ calls' = calls + 1
<1>1. ASSUME NEW t \in Tasks, NEW n \in Names, BeginCreate(t, n) PROVE Arrival(t)
  BY <1>1 DEF Typed, BeginCreate, Arrives, ArrivesFor
<1>2. ASSUME NEW t \in Tasks, NEW n \in Names, BeginDelete(t, n) PROVE Arrival(t)
  BY <1>2 DEF Typed, BeginDelete, Arrives, ArrivesFor
<1>3. ASSUME NEW t \in Tasks, NEW n \in Names, BeginUpsert(t, n) PROVE Arrival(t)
  BY <1>3 DEF Typed, BeginUpsert, Arrives, ArrivesFor
<1>4. ASSUME NEW t \in Tasks, NEW n \in Names, BeginPatch(t, n) PROVE Arrival(t)
  BY <1>4 DEF Typed, BeginPatch, Arrives, ArrivesFor
<1>5. ASSUME NEW t \in Tasks, BeginSave(t) PROVE Arrival(t)
  BY <1>5 DEF Typed, BeginSave, Arrives
<1>6. ASSUME NEW t \in Tasks, RemoveDir(t) PROVE Quiet
  BY <1>6 DEF Typed, RemoveDir
<1>7. ASSUME NEW t \in Tasks, Reply(t) PROVE Quiet
  BY <1>7 DEF Typed, Reply
<1>8. ASSUME NEW t \in Tasks, MarkClean(t) PROVE Quiet
  BY <1>8 DEF Typed, MarkClean
<1>9. ASSUME NEW t \in Tasks, NEW n \in Names, PassOver(t, n) PROVE Quiet
  BY <1>9 DEF Typed, PassOver, Visit
<1>10. ASSUME NEW t \in Tasks, NEW n \in Names, VisitToSave(t, n) PROVE Quiet
  BY <1>10 DEF Typed, VisitToSave, Visit
<1>11. ASSUME NEW t \in Tasks, ReadLock(t) PROVE Quiet
  BY <1>11 DEF Typed, ReadLock
<1>12. ASSUME NEW t \in Tasks, WriteTmp(t) PROVE Quiet
  BY <1>12 DEF Typed, WriteTmp
<1>13. ASSUME NEW t \in Tasks, RenameInLoop(t) PROVE Quiet
  BY <1>13 DEF Typed, RenameInLoop, AfterRename
<1>14. ASSUME NEW t \in Tasks, RenameInRequest(t) PROVE Quiet
  BY <1>14 DEF Typed, RenameInRequest, AfterRename
<1>15. ASSUME NEW t \in Tasks, RenameFails(t) PROVE Quiet
  BY <1>15 DEF Typed, RenameFails, Abandon, Leave
<1>25. ASSUME NEW t \in Tasks, SaveFails(t) PROVE Quiet
  BY <1>25 DEF Typed, SaveFails, Abandon, Leave
<1>16. ASSUME NEW t \in Tasks, EndLoop(t) PROVE Quiet
  BY <1>16 DEF Typed, EndLoop, Leave
<1>17. ASSUME Tick PROVE Quiet
  BY <1>17 DEF Typed, Tick
<1>18. ASSUME NEW n \in Names, TrySave(n) PROVE Quiet
  BY <1>18 DEF Typed, TrySave, Visit
<1>19. ASSUME Signal PROVE Quiet
  BY <1>19 DEF Typed, Signal
<1>20. ASSUME Drained PROVE Quiet
  BY <1>20 DEF Typed, Drained
<1>21. ASSUME FinalSave PROVE Quiet
  BY <1>21 DEF Typed, FinalSave
<1>22. ASSUME UNCHANGED vars PROVE Quiet
  BY <1>22 DEF vars
<1>23. ASSUME NEW t \in Tasks, Arrival(t) PROVE Counted'
  BY <1>23, ArrivalCounts
<1>24. ASSUME Quiet PROVE Counted'
  BY <1>24, QuietCounts
<1> HIDE DEF Quiet, Arrival
<1> QED
  BY InsertCounts, ChangeCounts, <1>1, <1>2, <1>3, <1>4, <1>5, <1>6, <1>7, <1>8, <1>9, <1>10, <1>11, <1>12, <1>13, <1>14, <1>15, <1>16, <1>17, <1>18, <1>19, <1>20, <1>21, <1>22, <1>23, <1>24, <1>25
  DEF Next, Request, RequestStep, SaveStep, AutoStep, Tasks

-----------------------------------------------------------------------------
(* What is written *)

(* A step that changes no collection and no file, lets go of no read lock, *)
(* and moves no task on to its write without one.                          *)
LEMMA QuietWrites ==
    ASSUME Written, Live,
           UNCHANGED <<mem, tmp, disk>>,
           \A a \in Arcs : readers[a] \subseteq readers'[a],
           \A t \in Tasks : pc'[t] \in Writing =>
               \/ pc[t] = pc'[t] /\ call[t] = call'[t]
               \/ t \in readers'[call'[t].arc],
           Typed
    PROVE  Written'
BY DEF Written, Writing, Typed, HasArc

LEMMA ChangeWrites ==
    ASSUME Typed, Counted, Written, NEW t \in Tasks, Apply(t) \/ SetRetention(t)
    PROVE  Written'
<1> DEFINE arc == call[t].arc
<1>1. pc[t] \in {"apply", "set"} /\ Live
  BY DEF Apply, SetRetention
<1>2. arc \in Arcs
  BY <1>1, VersionsLeft
<1>3. /\ mem' = [mem EXCEPT ![arc] = @ + 1] /\ readers[arc] = {}
      /\ UNCHANGED <<tmp, disk, readers, stage>>
      /\ call' = [call EXCEPT ![t].ver = mem'[arc]]
      /\ pc' = [pc EXCEPT ![t] = "reply"] \/ pc' = [pc EXCEPT ![t] = "rlock"]
  BY DEF Apply, SetRetention, Change, Goto, CanWrite
<1>4. \A u \in Tasks : /\ call'[u].arc = call[u].arc
                       /\ pc'[u] \in Writing <=> pc[u] \in Writing
  BY <1>1, <1>3 DEF Typed, Calls, Writing
<1>5. \A a \in Arcs : mem[a] \in Nat /\ mem'[a] \in Nat /\ mem'[a] >= mem[a]
  BY <1>2, <1>3, CountersTyped DEF Typed, TypeOK
<1>6. \A f \in Snapshots : f.arc \in Arcs /\ f.ver \in Nat
  BY DEF Snapshots, Versions
<1>7. \A u \in Tasks : Live' /\ pc'[u] \in Writing => u \in readers'[call'[u].arc]
  BY <1>1, <1>3, <1>4 DEF Written
<1>8. \A n \in Names : /\ tmp[n] \in Snapshots => tmp[n].ver <= mem'[tmp[n].arc]
                       /\ disk[n] \in Snapshots => disk[n].ver <= mem'[disk[n].arc]
  BY <1>5, <1>6 DEF Written
<1> QED
  BY <1>3, <1>7, <1>8 DEF Written

LEMMA FilesWrites ==
    ASSUME Typed, Written, NEW t \in Tasks,
           \/ RemoveDir(t) \/ WriteTmp(t) \/ RenameInLoop(t) \/ RenameInRequest(t)
           \/ RenameFails(t) \/ SaveFails(t)
    PROVE  Written'
<1> DEFINE name == call[t].name
           new == [arc |-> call[t].arc, ver |-> mem[call[t].arc]]
           Held == Live' => \A u \in Tasks : pc'[u] \in Writing => u \in readers'[call'[u].arc]
<1>1. /\ name \in Names /\ Live /\ UNCHANGED mem
      /\ pc[t] \in Writing => call[t].arc \in Arcs
  BY DEF RemoveDir, WriteTmp, RenameInLoop, RenameInRequest, AfterRename, RenameFails, SaveFails, Abandon,
         Typed, Resting, Writing, HasArc
<1>2. Held
  <2>1. CASE RemoveDir(t)
    BY <2>1 DEF RemoveDir, End, Goto, Written, Typed, Writing
  <2>2. CASE WriteTmp(t)
    BY <2>2 DEF WriteTmp, Goto, Written, Typed, Writing
  <2>3. CASE RenameInLoop(t) \/ RenameInRequest(t) \/ RenameFails(t) \/ SaveFails(t)
    <3>1. /\ \A u \in Tasks \ {t} : pc'[u] = pc[u] /\ call'[u] = call[u]
          /\ Live' => pc'[t] \notin Writing
          /\ \A a \in Arcs : readers'[a] = readers[a] \ {t}
      BY <2>3 DEF RenameInLoop, RenameInRequest, AfterRename, RenameFails, SaveFails, Abandon, Leave, End,
                  Goto, Unlock, Live, Exited, Writing, Typed, TypeOK
    <3> SUFFICES ASSUME Live', NEW u \in Tasks, pc'[u] \in Writing
                 PROVE  u \in readers'[call'[u].arc]
      OBVIOUS
    <3>2. u # t /\ pc[u] \in Writing /\ call'[u] = call[u]
      BY <3>1
    <3>3. call[u].arc \in Arcs /\ u \in readers[call[u].arc]
      BY <1>1, <3>2 DEF Written, Typed, HasArc, Writing
    <3> QED
      BY <3>1, <3>2, <3>3
  <2> QED
    BY <2>1, <2>2, <2>3
<1>3. /\ \A n \in Names \ {name} : tmp'[n] = tmp[n] /\ disk'[n] = disk[n]
      /\ \/ tmp'[name] \in {Nil, Broken, tmp[name]} /\ disk'[name] \in {Nil, Broken, disk[name]}
         \/ tmp'[name] = Nil /\ disk'[name] = tmp[name]
         \/ pc[t] \in Writing /\ tmp'[name] = new /\ disk'[name] = disk[name]
  BY <1>1 DEF RemoveDir, WriteTmp, RenameInLoop, RenameInRequest, AfterRename, RenameFails, SaveFails, Typed,
              TypeOK, Writing
<1>4. /\ Nil \notin Snapshots /\ Broken \notin Snapshots
      /\ \A f \in Snapshots : f.arc \in Arcs /\ f.ver \in Nat
      /\ \A a \in Arcs : mem[a] \in Nat
  BY CountersTyped DEF Snapshots, Versions
<1>5. /\ tmp'[name] \in Snapshots => tmp'[name].ver <= mem[tmp'[name].arc]
      /\ disk'[name] \in Snapshots => disk'[name].ver <= mem[disk'[name].arc]
      /\ tmp'[name] \in Snapshots /\ disk'[name] \in Snapshots /\ tmp'[name].arc = disk'[name].arc
         => disk'[name].ver <= tmp'[name].ver
  BY <1>1, <1>3, <1>4 DEF Written
<1> QED
  BY <1>1, <1>2, <1>3, <1>5 DEF Written

LEMMA NextWritten == Typed /\ Counted /\ Written /\ [Next]_vars => Written'
<1> SUFFICES ASSUME Typed, Counted, Written, [Next]_vars PROVE Written'
  OBVIOUS
<1> USE DEF Writing, Goto, End
<1> DEFINE Quiet ==
        /\ Live /\ UNCHANGED <<mem, tmp, disk>>
        /\ \A a \in Arcs : readers[a] \subseteq readers'[a]
        /\ \A t \in Tasks : pc'[t] \in Writing =>
              \/ pc[t] = pc'[t] /\ call[t] = call'[t]
              \/ t \in readers'[call'[t].arc]
<1>1. ASSUME NEW t \in Tasks, NEW n \in Names, BeginCreate(t, n) PROVE Quiet
  BY <1>1 DEF Typed, BeginCreate, Arrives, ArrivesFor
<1>2. ASSUME NEW t \in Tasks, NEW n \in Names, BeginDelete(t, n) PROVE Quiet
  BY <1>2 DEF Typed, BeginDelete, Arrives, ArrivesFor
<1>3. ASSUME NEW t \in Tasks, NEW n \in Names, BeginUpsert(t, n) PROVE Quiet
  BY <1>3 DEF Typed, BeginUpsert, Arrives, ArrivesFor
<1>4. ASSUME NEW t \in Tasks, NEW n \in Names, BeginPatch(t, n) PROVE Quiet
  BY <1>4 DEF Typed, BeginPatch, Arrives, ArrivesFor
<1>5. ASSUME NEW t \in Tasks, BeginSave(t) PROVE Quiet
  BY <1>5 DEF Typed, BeginSave, Arrives
<1>6. ASSUME NEW t \in Tasks, Insert(t) PROVE Quiet
  BY <1>6 DEF Typed, Insert
<1>7. ASSUME NEW t \in Tasks, Reply(t) PROVE Quiet
  BY <1>7 DEF Typed, Reply
<1>8. ASSUME NEW t \in Tasks, MarkClean(t) PROVE Quiet
  BY <1>8 DEF Typed, MarkClean
<1>9. ASSUME NEW t \in Tasks, NEW n \in Names, PassOver(t, n) PROVE Quiet
  BY <1>9 DEF Typed, PassOver, Visit
<1>10. ASSUME NEW t \in Tasks, NEW n \in Names, VisitToSave(t, n) PROVE Quiet
  BY <1>10 DEF Typed, VisitToSave, Visit
<1>11. ASSUME NEW t \in Tasks, ReadLock(t) PROVE Quiet
  BY <1>11 DEF Typed, ReadLock, TypeOK, HasArc
<1>12. ASSUME NEW t \in Tasks, EndLoop(t) PROVE Written'
  BY <1>12 DEF Typed, EndLoop, Leave, Written, Live, Exited
<1>13. ASSUME Tick PROVE Quiet
  BY <1>13 DEF Typed, Tick
<1>14. ASSUME NEW n \in Names, TrySave(n) PROVE Quiet
  BY <1>14 DEF Typed, TrySave, Visit, TypeOK, Tasks, Up
<1>15. ASSUME Signal PROVE Quiet
  BY <1>15 DEF Typed, Signal, Live, Exited
<1>16. ASSUME Drained PROVE Quiet
  BY <1>16 DEF Typed, Drained, Live, Exited
<1>17. ASSUME FinalSave PROVE Quiet
  BY <1>17 DEF Typed, FinalSave, Live, Exited, Resting
<1>18. CASE UNCHANGED vars
  BY <1>18 DEF vars, Written, Live, Exited
<1>19. ASSUME Quiet PROVE Written'
  BY <1>19, QuietWrites
<1> HIDE DEF Quiet
<1> QED
  BY ChangeWrites, FilesWrites, <1>1, <1>2, <1>3, <1>4, <1>5, <1>6, <1>7, <1>8, <1>9, <1>10, <1>11, <1>12, <1>13, <1>14, <1>15, <1>16, <1>17, <1>18, <1>19
  DEF Next, Request, RequestStep, SaveStep, AutoStep, Tasks

-----------------------------------------------------------------------------
(* Acknowledgements, references and names *)

LEMMA NextHappened == Typed /\ Counted /\ Happened /\ [Next]_vars => Happened'
<1> SUFFICES ASSUME Typed, Counted, Happened, [Next]_vars PROVE Happened'
  OBVIOUS
<1> USE DEF Happened, HasArc, Goto, End, NoCall
<1> DEFINE Quiet ==
        /\ UNCHANGED <<mem, acked>>
        /\ \A t \in Tasks : pc'[t] \in HasArc =>
              \/ pc[t] \in HasArc /\ call'[t].arc = call[t].arc /\ call'[t].ver = call[t].ver
              \/ call'[t].arc \in Arcs /\ call'[t].ver = 0
<1>1. ASSUME NEW t \in Tasks, NEW n \in Names, BeginCreate(t, n) PROVE Quiet
  BY <1>1 DEF Typed, BeginCreate, Arrives, ArrivesFor, TypeOK, Up
<1>2. ASSUME NEW t \in Tasks, NEW n \in Names, BeginDelete(t, n) PROVE Quiet
  BY <1>2 DEF Typed, BeginDelete, Arrives, ArrivesFor, TypeOK, Up
<1>3. ASSUME NEW t \in Tasks, NEW n \in Names, BeginUpsert(t, n) PROVE Quiet
  BY <1>3 DEF Typed, BeginUpsert, Arrives, ArrivesFor, TypeOK, Up
<1>4. ASSUME NEW t \in Tasks, NEW n \in Names, BeginPatch(t, n) PROVE Quiet
  BY <1>4 DEF Typed, BeginPatch, Arrives, ArrivesFor, TypeOK, Up
<1>5. ASSUME NEW t \in Tasks, BeginSave(t) PROVE Quiet
  BY <1>5 DEF Typed, BeginSave, Arrives
<1>6. ASSUME NEW t \in Tasks, Insert(t) PROVE Quiet
  <2>1. born' = born + 1 /\ born' \in Arcs
    BY <1>6, ArcsLeft DEF Insert
  <2> QED
    BY <1>6, <2>1 DEF Insert, Typed, Resting, Calls
<1>7. ASSUME NEW t \in Tasks, RemoveDir(t) PROVE Quiet
  BY <1>7 DEF Typed, RemoveDir
<1>8. ASSUME NEW t \in Tasks, NEW n \in Names, PassOver(t, n) PROVE Quiet
  BY <1>8 DEF Typed, PassOver, Visit
<1>9. ASSUME NEW t \in Tasks, NEW n \in Names, VisitToSave(t, n) PROVE Quiet
  BY <1>9 DEF Typed, VisitToSave, Visit, TypeOK, Up, Calls, Resting
<1>10. ASSUME NEW t \in Tasks, ReadLock(t) PROVE Quiet
  BY <1>10 DEF Typed, ReadLock
<1>11. ASSUME NEW t \in Tasks, WriteTmp(t) PROVE Quiet
  BY <1>11 DEF Typed, WriteTmp
<1>12. ASSUME NEW t \in Tasks, RenameInLoop(t) PROVE Quiet
  BY <1>12 DEF Typed, RenameInLoop, AfterRename
<1>13. ASSUME NEW t \in Tasks, RenameInRequest(t) PROVE Quiet
  BY <1>13 DEF Typed, RenameInRequest, AfterRename
<1>14. ASSUME NEW t \in Tasks, RenameFails(t) PROVE Quiet
  BY <1>14 DEF Typed, RenameFails, Abandon, Leave
<1>25. ASSUME NEW t \in Tasks, SaveFails(t) PROVE Quiet
  BY <1>25 DEF Typed, SaveFails, Abandon, Leave
<1>15. ASSUME NEW t \in Tasks, EndLoop(t) PROVE Quiet
  BY <1>15 DEF Typed, EndLoop, Leave
<1>16. ASSUME Tick PROVE Quiet
  BY <1>16 DEF Typed, Tick
<1>17. ASSUME NEW n \in Names, TrySave(n) PROVE Quiet
  BY <1>17 DEF Typed, TrySave, Visit, TypeOK, Tasks, Up
<1>18. ASSUME Signal PROVE Quiet
  BY <1>18 DEF Typed, Signal, Live, Exited
<1>19. ASSUME Drained PROVE Quiet
  BY <1>19 DEF Typed, Drained, Live, Exited
<1>20. ASSUME FinalSave PROVE Quiet
  BY <1>20 DEF Typed, FinalSave, Live, Exited, Resting, Calls
<1>21. ASSUME UNCHANGED vars PROVE Quiet
  BY <1>21 DEF vars
<1>22. ASSUME Quiet PROVE Happened'
  BY <1>22, CountersTyped DEF Typed
<1>23. ASSUME NEW t \in Tasks, Reply(t) \/ MarkClean(t) PROVE Happened'
  <2>1. /\ acked' = [acked EXCEPT ![call[t].arc] = IF call[t].ver > @ THEN call[t].ver ELSE @]
        /\ pc' = [pc EXCEPT ![t] = "idle"] /\ call' = [call EXCEPT ![t] = NoCall]
        /\ UNCHANGED mem /\ pc[t] \in HasArc
    BY <1>23 DEF Reply, MarkClean, Acknowledge
  <2> QED
    BY <2>1 DEF Typed, TypeOK
<1>24. ASSUME NEW t \in Tasks, Apply(t) \/ SetRetention(t) PROVE Happened'
  <2>1. pc[t] \in {"apply", "set"}
    BY <1>24 DEF Apply, SetRetention
  <2>2. PICK arc \in Arcs : arc = call[t].arc
    BY <2>1, VersionsLeft
  <2>3. /\ mem' = [mem EXCEPT ![arc] = @ + 1] /\ UNCHANGED acked
        /\ call' = [call EXCEPT ![t].ver = mem'[arc]]
        /\ \A u \in Tasks : pc'[u] \in HasArc => pc[u] \in HasArc
    BY <1>24, <2>2 DEF Apply, SetRetention, Change, Typed
  <2>4. \A a \in Arcs : mem[a] \in Nat /\ mem'[a] \in Nat /\ mem[a] <= mem'[a]
    BY <2>2, <2>3, CountersTyped DEF Typed, TypeOK
  <2>5. \A a \in Arcs : acked[a] \in Nat
    BY DEF Typed, TypeOK, Versions
  <2>6. ASSUME NEW u \in Tasks, pc'[u] \in HasArc PROVE call'[u].ver <= mem'[call'[u].arc]
    <3>1. /\ call'[u].arc = call[u].arc /\ call[u].arc \in Arcs
          /\ call'[u].ver = IF u = t THEN mem'[arc] ELSE call[u].ver
          /\ call[u].ver \in Nat
      BY <2>3, <2>6 DEF Typed, Calls, Versions
    <3> QED
      BY <2>2, <2>3, <2>4, <2>6, <3>1
  <2> QED
    BY <2>3, <2>4, <2>5, <2>6
<1> HIDE DEF Quiet
<1> QED
  BY <1>1, <1>2, <1>3, <1>4, <1>5, <1>6, <1>7, <1>8, <1>9, <1>10, <1>11, <1>12, <1>13, <1>14, <1>15, <1>16, <1>17, <1>18, <1>19, <1>20, <1>21, <1>22, <1>23, <1>24, <1>25
  DEF Next, Request, RequestStep, SaveStep, AutoStep, Tasks

LEMMA NextReferenced == Typed /\ Referenced /\ [Next]_vars => Referenced'
<1> SUFFICES ASSUME Typed, Referenced, [Next]_vars PROVE Referenced'
  OBVIOUS
<1> USE DEF Typed, Referenced, Goto, End, NoCall, Take, Drop, TypeOK, Live, Exited
<1>1. ASSUME NEW t \in Tasks, NEW n \in Names, BeginCreate(t, n) PROVE Referenced'
  BY <1>1 DEF BeginCreate, Arrives, ArrivesFor, Resting
<1>2. ASSUME NEW t \in Tasks, NEW n \in Names, BeginDelete(t, n) PROVE Referenced'
  BY <1>2 DEF BeginDelete, Arrives, ArrivesFor, Resting
<1>3. ASSUME NEW t \in Tasks, NEW n \in Names, BeginUpsert(t, n) PROVE Referenced'
  BY <1>3 DEF BeginUpsert, Arrives, ArrivesFor, Resting
<1>4. ASSUME NEW t \in Tasks, NEW n \in Names, BeginPatch(t, n) PROVE Referenced'
  BY <1>4 DEF BeginPatch, Arrives, ArrivesFor, Resting
<1>5. ASSUME NEW t \in Tasks, BeginSave(t) PROVE Referenced'
  BY <1>5 DEF BeginSave, Arrives
<1>6. ASSUME NEW t \in Tasks, Insert(t) PROVE Referenced'
  BY <1>6 DEF Insert, Calls, Resting
<1>7. ASSUME NEW t \in Tasks, RemoveDir(t) PROVE Referenced'
  BY <1>7 DEF RemoveDir, Resting
<1>8. ASSUME NEW t \in Tasks, Apply(t) PROVE Referenced'
  BY <1>8 DEF Apply, Change, Calls
<1>9. ASSUME NEW t \in Tasks, Reply(t) PROVE Referenced'
  BY <1>9 DEF Reply
<1>10. ASSUME NEW t \in Tasks, SetRetention(t) PROVE Referenced'
  BY <1>10 DEF SetRetention, Change, Calls, Resting
<1>11. ASSUME NEW t \in Tasks, MarkClean(t) PROVE Referenced'
  BY <1>11 DEF MarkClean, Resting
<1>12. ASSUME NEW t \in Tasks, ReadLock(t) PROVE Referenced'
  BY <1>12 DEF ReadLock
<1>13. ASSUME NEW t \in Tasks, WriteTmp(t) PROVE Referenced'
  BY <1>13 DEF WriteTmp
<1>14. ASSUME NEW t \in Tasks, RenameInLoop(t) PROVE Referenced'
  BY <1>14 DEF RenameInLoop, AfterRename, Resting
<1>15. ASSUME NEW t \in Tasks, RenameInRequest(t) PROVE Referenced'
  BY <1>15 DEF RenameInRequest, AfterRename
<1>16. ASSUME NEW t \in Tasks, RenameFails(t) PROVE Referenced'
  BY <1>16 DEF RenameFails, Abandon, Leave, Resting
<1>26. ASSUME NEW t \in Tasks, SaveFails(t) PROVE Referenced'
  BY <1>26 DEF SaveFails, Abandon, Leave, Resting
<1>17. ASSUME NEW t \in Tasks, EndLoop(t) PROVE Referenced'
  BY <1>17 DEF EndLoop, Leave
<1>18. ASSUME NEW t \in Tasks, NEW n \in Names, PassOver(t, n) PROVE Referenced'
  BY <1>18 DEF PassOver, Visit
<1>19. ASSUME NEW t \in Tasks, NEW n \in Names, VisitToSave(t, n) PROVE Referenced'
  BY <1>19 DEF VisitToSave, Visit, Calls, Resting
<1>20. ASSUME Tick PROVE Referenced'
  BY <1>20 DEF Tick
<1>21. ASSUME NEW n \in Names, TrySave(n) PROVE Referenced'
  BY <1>21 DEF TrySave, Visit, Tasks
<1>22. ASSUME Signal PROVE Referenced'
  BY <1>22 DEF Signal, Tasks
<1>23. ASSUME Drained PROVE Referenced'
  BY <1>23 DEF Drained, Tasks
<1>24. ASSUME FinalSave PROVE Referenced'
  BY <1>24 DEF FinalSave, Tasks, Resting, Calls
<1>25. CASE UNCHANGED vars
  BY <1>25 DEF vars
<1> QED
  BY <1>1, <1>2, <1>3, <1>4, <1>5, <1>6, <1>7, <1>8, <1>9, <1>10, <1>11, <1>12, <1>13, <1>14, <1>15, <1>16, <1>17, <1>18, <1>19, <1>20, <1>21, <1>22, <1>23, <1>24, <1>25, <1>26
  DEF Next, Request, RequestStep, SaveStep, AutoStep, Tasks

LEMMA NextOneName == Typed /\ Counted /\ OneName /\ [Next]_vars => OneName'
<1> SUFFICES ASSUME Typed, Counted, OneName, [Next]_vars PROVE OneName'
  OBVIOUS
<1>1. ASSUME NEW t \in Tasks, Insert(t) PROVE OneName'
  <2>1. born' = born + 1 /\ born' \in Arcs /\ registry' = [registry EXCEPT ![call[t].name] = born']
    BY <1>1, ArcsLeft DEF Insert
  <2>2. \A n \in Names : Up(n) => registry[n] \in Nat
    BY LoadedCounted DEF Up, Arcs, Typed, TypeOK
  <2> QED
    BY <2>1, <2>2, CountersTyped DEF OneName, Up, Typed, TypeOK
<1>2. ASSUME NEW t \in Tasks, NEW n \in Names, BeginDelete(t, n) PROVE OneName'
  BY <1>2 DEF BeginDelete, OneName, Up, Typed, TypeOK
<1>3. CASE UNCHANGED <<registry, born>>
  BY <1>3 DEF OneName, Up
<1> QED
  BY <1>1, <1>2, <1>3
  DEF Next, Request, RequestStep, SaveStep, AutoStep, Tasks, vars, BeginCreate, RemoveDir, BeginUpsert,
      Apply, Reply, BeginPatch, SetRetention, Change, MarkClean, BeginSave, PassOver, VisitToSave, ReadLock,
      WriteTmp, RenameInLoop, RenameInRequest, AfterRename, RenameFails, SaveFails, Abandon, EndLoop, Tick,
      TrySave, Signal, Drained, FinalSave

-----------------------------------------------------------------------------
(* The initial states *)

LEMMA InitHolds == Init => IInv
<1> SUFFICES ASSUME Init PROVE IInv
  OBVIOUS
<1>1. PICK arcOf \in [Loaded -> 1..Cardinality(Loaded)] :
         /\ \A m, n \in Loaded : arcOf[m] = arcOf[n] => m = n
         /\ registry = [n \in Names |-> IF n \in Loaded THEN arcOf[n] ELSE Nil]
         /\ disk = [n \in Names |-> IF n \in Loaded THEN [arc |-> arcOf[n], ver |-> 0] ELSE Nil]
  BY DEF Init
<1>2. \A n \in Loaded : arcOf[n] \in Arcs /\ arcOf[n] <= Cardinality(Loaded)
  BY LoadedCounted DEF Arcs
<1>3. 0 \in Versions /\ Cardinality(Loaded) \in {0} \cup Arcs
  BY LoadedCounted DEF Versions, Arcs
<1>4. Typed
  <2>1. TypeOK
    BY <1>1, <1>2, <1>3 DEF Init, TypeOK, Snapshots
  <2>2. pc \in [Tasks -> Labels] /\ call \in [Tasks -> Calls]
    BY <1>3 DEF Init, Labels, Calls, NoCall
  <2> QED
    BY <2>1, <2>2 DEF Init, Typed, Resting, HasArc, NoCall, Tasks
<1>5. Counted
  <2>1. Inserting = {} /\ \A a \in Arcs : Changing(a) = {}
    BY DEF Init, Inserting, Changing
  <2>2. IsFiniteSet({}) /\ Cardinality({}) = 0
    BY FS_EmptySet
  <2>3. born + Cardinality(Inserting) <= Cardinality(Loaded) + calls
    BY <2>1, <2>2, LoadedCounted DEF Init
  <2>4. ASSUME NEW a \in Arcs PROVE mem[a] + Cardinality(Changing(a)) <= calls
    <3>1. Cardinality(Changing(a)) = 0 /\ mem[a] = 0 /\ calls = 0
      BY <2>1, <2>2 DEF Init
    <3> QED
      BY <3>1
  <2> QED
    BY <2>1, <2>2, <2>3, <2>4 DEF Counted
<1>6. Written
  <2>1. /\ tmp = [n \in Names |-> Nil] /\ \A t \in Tasks : pc[t] = "idle"
        /\ \A n \in Names : disk[n] \in Snapshots => disk[n].ver = mem[disk[n].arc]
    BY <1>1, <1>2 DEF Init
  <2> QED
    BY <2>1, <1>3 DEF Written, Writing, Init
<1>7. Happened /\ Referenced
  BY DEF Init, Happened, Referenced, HasArc
<1>8. OneName
  BY <1>1, <1>2 DEF Init, OneName, Up
<1> QED
  BY <1>4, <1>5, <1>6, <1>7, <1>8 DEF IInv

(* The invariant holds whatever requests, streams and timeouts there are.  *)
THEOREM Invariance == Spec => []IInv
<1>1. IInv /\ [Next]_vars => IInv'
  BY NextTyped, NextCounted, NextWritten, NextHappened, NextReferenced, NextOneName DEF IInv
<1> QED
  BY <1>1, InitHolds, PTL DEF Spec

(* The variables of the server keep their types; the arcs and versions     *)
(* that Cardinality(Loaded) and MaxCalls allow for are never exceeded.     *)
THEOREM TypeCorrect == Spec => []TypeOK
<1>1. IInv => TypeOK
  BY DEF IInv, Typed
<1> QED
  BY <1>1, Invariance, PTL

-----------------------------------------------------------------------------
(***************************************************************************)
(* The snapshot of a collection is never replaced by an older one of the   *)
(* same collection, whoever saves it: requests, the auto-save task, the    *)
(* shutdown (Collection::save under the read lock).                        *)
(***************************************************************************)
THEOREM NeverOlder == Spec => SnapshotsAdvance
<1> DEFINE Advance == \A n \in Names :
              disk[n] \in Snapshots /\ disk'[n] \in Snapshots /\ disk'[n].arc = disk[n].arc
              => disk'[n].ver >= disk[n].ver
<1>1. ASSUME IInv, [Next]_vars PROVE [Advance]_disk
  <2>1. /\ disk \in [Names -> Snapshots \cup {Nil, Broken}]
        /\ \A f \in Snapshots : f.ver \in Nat
        /\ Nil \notin Snapshots /\ Broken \notin Snapshots
    BY <1>1 DEF IInv, Typed, TypeOK, Snapshots, Versions
  <2>2. ASSUME NEW t \in Tasks,
               RemoveDir(t) \/ RenameInLoop(t) \/ RenameInRequest(t) \/ SaveFails(t)
        PROVE  Advance
    <3> DEFINE name == call[t].name
    <3>1. name \in Names
      BY <1>1, <2>2 DEF RemoveDir, RenameInLoop, RenameInRequest, SaveFails, Resting, IInv, Typed
    <3>2. \E whole \in {disk[name], tmp[name], Nil, Broken} : disk' = [disk EXCEPT ![name] = whole]
      BY <2>1, <2>2 DEF RemoveDir, RenameInLoop, RenameInRequest, AfterRename, SaveFails
    <3>3. /\ \A n \in Names \ {name} : disk'[n] = disk[n]
          /\ disk'[name] \in {disk[name], tmp[name], Nil, Broken}
      BY <2>1, <3>1, <3>2
    <3> QED
      BY <1>1, <2>1, <3>1, <3>3 DEF IInv, Written
  <2>3. CASE UNCHANGED disk
    BY <2>1, <2>3
  <2> QED
    BY <1>1, <2>1, <2>2, <2>3
    DEF Next, Request, RequestStep, SaveStep, AutoStep, Tasks, vars, BeginCreate, Insert, BeginDelete,
        BeginUpsert, Apply, Reply, BeginPatch, SetRetention, MarkClean, BeginSave, PassOver,
        VisitToSave, ReadLock, WriteTmp, RenameFails, EndLoop, Tick, TrySave, Signal, Drained, FinalSave
<1> QED
  BY <1>1, Invariance, PTL DEF Spec, SnapshotsAdvance

-----------------------------------------------------------------------------
(***************************************************************************)
(* Without create_collection, which saves without a reference into the map *)
(* and so may write after the collection was deleted: files without a      *)
(* collection are about to be removed.                                     *)
(***************************************************************************)
Never(op) == \A t \in Tasks : call[t].op # op

Deleting(n) == \E t \in Tasks : pc[t] = "rmdir" /\ call[t].name = n

Tidy ==
    /\ \A n \in Names : Up(n) => ~Deleting(n)
    /\ \A n \in Names : ~Up(n) => disk[n] = Nil \/ Deleting(n)

LEMMA NextNever ==
    ASSUME NEW op \in {"create", "patch"}, op \notin Ops
    PROVE  Typed /\ Never(op) /\ [Next]_vars => Never(op)'
<1> SUFFICES ASSUME Typed, Never(op), [Next]_vars, NEW u \in Tasks PROVE call'[u].op # op
  BY DEF Never
<1> USE DEF Never, Typed, Calls, Goto, End, NoCall
<1>1. ASSUME NEW t \in Tasks, NEW n \in Names, BeginCreate(t, n) PROVE call'[u].op # op
  BY <1>1 DEF BeginCreate, ArrivesFor, Arrives
<1>2. ASSUME NEW t \in Tasks, NEW n \in Names, BeginDelete(t, n) PROVE call'[u].op # op
  BY <1>2 DEF BeginDelete, ArrivesFor, Arrives
<1>3. ASSUME NEW t \in Tasks, NEW n \in Names, BeginUpsert(t, n) PROVE call'[u].op # op
  BY <1>3 DEF BeginUpsert, ArrivesFor, Arrives
<1>4. ASSUME NEW t \in Tasks, NEW n \in Names, BeginPatch(t, n) PROVE call'[u].op # op
  BY <1>4 DEF BeginPatch, ArrivesFor, Arrives
<1>5. ASSUME NEW t \in Tasks, BeginSave(t) PROVE call'[u].op # op
  BY <1>5 DEF BeginSave, Arrives
<1>6. ASSUME NEW t \in Tasks, Insert(t) PROVE call'[u].op # op
  BY <1>6 DEF Insert
<1>7. ASSUME NEW t \in Tasks, RemoveDir(t) PROVE call'[u].op # op
  BY <1>7 DEF RemoveDir
<1>8. ASSUME NEW t \in Tasks, Reply(t) PROVE call'[u].op # op
  BY <1>8 DEF Reply
<1>9. ASSUME NEW t \in Tasks, MarkClean(t) PROVE call'[u].op # op
  BY <1>9 DEF MarkClean
<1>10. ASSUME NEW t \in Tasks, RenameInLoop(t) PROVE call'[u].op # op
  BY <1>10 DEF RenameInLoop
<1>11. ASSUME NEW t \in Tasks, RenameInRequest(t) PROVE call'[u].op # op
  BY <1>11 DEF RenameInRequest
<1>12. ASSUME NEW t \in Tasks, RenameFails(t) PROVE call'[u].op # op
  BY <1>12 DEF RenameFails, Abandon, Leave
<1>20. ASSUME NEW t \in Tasks, SaveFails(t) PROVE call'[u].op # op
  BY <1>20 DEF SaveFails, Abandon, Leave
<1>13. ASSUME NEW t \in Tasks, EndLoop(t) PROVE call'[u].op # op
  BY <1>13 DEF EndLoop, Leave
<1>14. ASSUME NEW t \in Tasks, Apply(t) PROVE call'[u].op # op
  BY <1>14 DEF Apply, Change
<1>15. ASSUME NEW t \in Tasks, SetRetention(t) PROVE call'[u].op # op
  BY <1>15 DEF SetRetention, Change
<1>16. ASSUME NEW t \in Tasks, NEW n \in Names, VisitToSave(t, n) PROVE call'[u].op # op
  BY <1>16 DEF VisitToSave
<1>17. ASSUME NEW n \in Names, TrySave(n) PROVE call'[u].op # op
  BY <1>17 DEF TrySave, Tasks
<1>18. ASSUME FinalSave PROVE call'[u].op # op
  BY <1>18 DEF FinalSave, Tasks
<1>19. CASE UNCHANGED call
  BY <1>19
<1> QED
  BY <1>1, <1>2, <1>3, <1>4, <1>5, <1>6, <1>7, <1>8, <1>9, <1>10, <1>11, <1>12, <1>13, <1>14, <1>15, <1>16, <1>17, <1>18, <1>19, <1>20
  DEF Next, Request, RequestStep, SaveStep, AutoStep, Tasks, vars, PassOver, ReadLock, WriteTmp, Tick,
      Signal, Drained

LEMMA NextTidy == IInv /\ Never("create") /\ Tidy /\ [Next]_vars => Tidy'
<1> SUFFICES ASSUME IInv, Never("create"), Tidy, [Next]_vars PROVE Tidy'
  OBVIOUS
<1> USE DEF IInv, Typed, Never, Goto, End, NoCall
<1> DEFINE Quiet == /\ UNCHANGED <<registry, disk>>
                    /\ \A u \in Tasks : /\ pc'[u] = "rmdir" <=> pc[u] = "rmdir"
                                        /\ pc[u] = "rmdir" => call'[u] = call[u]
<1>1. ASSUME Quiet PROVE Tidy'
  BY <1>1 DEF Tidy, Up, Deleting
<1>2. ASSUME NEW t \in Tasks, Insert(t) PROVE FALSE
  BY <1>2 DEF Insert
<1>3. ASSUME NEW t \in Tasks, NEW n \in Names, BeginDelete(t, n) PROVE Tidy'
  BY <1>3 DEF BeginDelete, ArrivesFor, Arrives, TypeOK, Tidy, Up, Deleting
<1>4. ASSUME NEW t \in Tasks, RemoveDir(t) PROVE Tidy'
  BY <1>4 DEF RemoveDir, TypeOK, Tidy, Up, Deleting, Resting
<1>5. ASSUME NEW t \in Tasks, RenameInLoop(t) \/ RenameInRequest(t) \/ SaveFails(t) PROVE Tidy'
  <2>1. /\ pc[t] \in {"write", "rename"} /\ Live
        /\ \E whole : disk' = [disk EXCEPT ![call[t].name] = whole]
        /\ UNCHANGED registry
        /\ \A u \in Tasks : /\ pc'[u] = "rmdir" <=> pc[u] = "rmdir"
                            /\ pc[u] = "rmdir" => call'[u] = call[u]
    <3>1. \E whole : disk' = [disk EXCEPT ![call[t].name] = whole]
      <4>1. CASE RenameInLoop(t) \/ RenameInRequest(t)
        BY <4>1 DEF RenameInLoop, RenameInRequest, AfterRename
      <4>2. CASE SaveFails(t)
        <5>1. disk = [disk EXCEPT ![call[t].name] = disk[call[t].name]]
          BY DEF TypeOK
        <5> QED
          BY <4>2, <5>1 DEF SaveFails
      <4> QED
        BY <1>5, <4>1, <4>2
    <3>2. /\ pc[t] \in {"write", "rename"} /\ Live /\ UNCHANGED registry
          /\ \A u \in Tasks : /\ pc'[u] = "rmdir" <=> pc[u] = "rmdir"
                              /\ pc[u] = "rmdir" => call'[u] = call[u]
      BY <1>5 DEF RenameInLoop, RenameInRequest, AfterRename, SaveFails, Abandon, Leave
    <3> QED
      BY <3>1, <3>2
  <2>2. call[t].name \in Names /\ Up(call[t].name)
    BY <2>1 DEF Referenced, Resting, HasArc, Up
  <2> QED
    BY <2>1, <2>2 DEF TypeOK, Tidy, Up, Deleting
<1>6. ASSUME NEW t \in Tasks, NEW n \in Names, BeginCreate(t, n) PROVE Quiet
  BY <1>6 DEF BeginCreate, ArrivesFor, Arrives
<1>7. ASSUME NEW t \in Tasks, NEW n \in Names, BeginUpsert(t, n) PROVE Quiet
  BY <1>7 DEF BeginUpsert, ArrivesFor, Arrives
<1>8. ASSUME NEW t \in Tasks, NEW n \in Names, BeginPatch(t, n) PROVE Quiet
  BY <1>8 DEF BeginPatch, ArrivesFor, Arrives
<1>9. ASSUME NEW t \in Tasks, BeginSave(t) PROVE Quiet
  BY <1>9 DEF BeginSave, Arrives
<1>10. ASSUME NEW t \in Tasks, Apply(t) PROVE Quiet
  BY <1>10 DEF Apply, Change, Calls
<1>11. ASSUME NEW t \in Tasks, Reply(t) PROVE Quiet
  BY <1>11 DEF Reply
<1>12. ASSUME NEW t \in Tasks, SetRetention(t) PROVE Quiet
  BY <1>12 DEF SetRetention, Change, Calls
<1>13. ASSUME NEW t \in Tasks, MarkClean(t) PROVE Quiet
  BY <1>13 DEF MarkClean
<1>14. ASSUME NEW t \in Tasks, ReadLock(t) PROVE Quiet
  BY <1>14 DEF ReadLock
<1>15. ASSUME NEW t \in Tasks, WriteTmp(t) PROVE Quiet
  BY <1>15 DEF WriteTmp
<1>16. ASSUME NEW t \in Tasks, RenameFails(t) PROVE Quiet
  BY <1>16 DEF RenameFails, Abandon, Leave
<1>17. ASSUME NEW t \in Tasks, EndLoop(t) PROVE Quiet
  BY <1>17 DEF EndLoop, Leave
<1>18. ASSUME NEW t \in Tasks, NEW n \in Names, PassOver(t, n) PROVE Quiet
  BY <1>18 DEF PassOver, Visit
<1>19. ASSUME NEW t \in Tasks, NEW n \in Names, VisitToSave(t, n) PROVE Quiet
  BY <1>19 DEF VisitToSave, Visit
<1>20. ASSUME Tick PROVE Quiet
  BY <1>20 DEF Tick
<1>21. ASSUME NEW n \in Names, TrySave(n) PROVE Quiet
  BY <1>21 DEF TrySave, Visit
<1>22. ASSUME Signal PROVE Quiet
  BY <1>22 DEF Signal
<1>23. ASSUME Drained PROVE Quiet
  BY <1>23 DEF Drained
<1>24. ASSUME FinalSave PROVE Quiet
  BY <1>24 DEF FinalSave
<1>25. ASSUME UNCHANGED vars PROVE Quiet
  BY <1>25 DEF vars
<1> HIDE DEF Quiet
<1> QED
  BY <1>1, <1>2, <1>3, <1>4, <1>5, <1>6, <1>7, <1>8, <1>9, <1>10, <1>11, <1>12, <1>13, <1>14, <1>15, <1>16, <1>17, <1>18, <1>19, <1>20, <1>21, <1>22, <1>23, <1>24, <1>25
  DEF Next, Request, RequestStep, SaveStep, AutoStep, Tasks

(* What the files of a collection hold is the collection.                  *)
Same(n) == disk[n] = [arc |-> registry[n], ver |-> mem[registry[n]]]

LEMMA InitNever == ASSUME NEW op \in {"create", "patch"} PROVE Init => Never(op)
BY DEF Init, Never, NoCall

LEMMA InitSame == Init => \A n \in Names : IF Up(n) THEN Same(n) ELSE disk[n] = Nil
<1> SUFFICES ASSUME Init PROVE \A n \in Names : IF Up(n) THEN Same(n) ELSE disk[n] = Nil
  OBVIOUS
<1>1. PICK arcOf \in [Loaded -> 1..Cardinality(Loaded)] :
         /\ registry = [n \in Names |-> IF n \in Loaded THEN arcOf[n] ELSE Nil]
         /\ disk = [n \in Names |-> IF n \in Loaded THEN [arc |-> arcOf[n], ver |-> 0] ELSE Nil]
  BY DEF Init
<1>2. \A n \in Loaded : arcOf[n] \in Arcs
  BY LoadedCounted DEF Arcs
<1>3. mem = [a \in Arcs |-> 0]
  BY DEF Init
<1> QED
  BY <1>1, <1>2, <1>3 DEF Up, Same

(* When no collection is created, a deleted one leaves no files once       *)
(* nobody is at work on them (delete_collection: map first, directory      *)
(* next), however it is saved and patched meanwhile.                       *)
THEOREM DeletedLeavesNothing == ASSUME "create" \notin Ops PROVE Spec => []ServerInv
<1>1. Init => Never("create") /\ Tidy
  BY InitNever, InitSame DEF Tidy, Up, Deleting, Init
<1>2. IInv /\ Never("create") /\ Tidy /\ [Next]_vars => Never("create")' /\ Tidy'
  BY NextNever, NextTidy DEF IInv
<1>3. IInv /\ Tidy => ServerInv
  BY DEF IInv, Typed, Tidy, Deleting, ServerInv, NoGhost
<1> QED
  BY <1>1, <1>2, <1>3, Invariance, PTL DEF Spec

-----------------------------------------------------------------------------
(***************************************************************************)
(* Nor are collections patched: they are marked clean where they are saved,*)
(* under one lock.  The other two handlers let go of it in between, and    *)
(* may mark clean what was changed since.                                  *)
(***************************************************************************)
Marked == \A n \in Names : Up(n) /\ ~dirty[registry[n]] => Same(n) \/ disk[n] = Broken

(* The task that renames a .tmp file finds there what it would write, even *)
(* if another task wrote it, or what a save that failed left of it.        *)
Fresh ==
    \A t \in Tasks : pc[t] = "rename" =>
        tmp[call[t].name] \in {Nil, Broken, [arc |-> call[t].arc, ver |-> mem[call[t].arc]]}

LEMMA NextFresh == IInv /\ Never("create") /\ Fresh /\ [Next]_vars => Fresh'
<1> SUFFICES ASSUME IInv, Never("create"), Fresh, [Next]_vars PROVE Fresh'
  OBVIOUS
<1> USE DEF IInv, Typed, TypeOK
<1> DEFINE new(t) == [arc |-> call[t].arc, ver |-> mem[call[t].arc]]
           Kept == /\ \A u \in Tasks : pc'[u] = "rename" => pc[u] = "rename" /\ call'[u] = call[u]
                   /\ UNCHANGED mem
           Quiet == Kept /\ \A n \in Names : tmp'[n] \in {tmp[n], Nil, Broken}
<1>1. ASSUME Quiet PROVE Fresh'
  BY <1>1 DEF Fresh, Resting
<1>2. ASSUME NEW t \in Tasks, Apply(t) \/ SetRetention(t) PROVE Fresh'
  <2>1. PICK arc \in Arcs : arc = call[t].arc
    BY <1>2, VersionsLeft DEF Apply, SetRetention
  <2>2. /\ mem' = [mem EXCEPT ![arc] = @ + 1] /\ readers[arc] = {} /\ Live /\ UNCHANGED tmp
        /\ \A u \in Tasks : pc'[u] = "rename" => pc[u] = "rename" /\ call'[u] = call[u]
    BY <1>2, <2>1 DEF Apply, SetRetention, Change, CanWrite, Goto
  <2>3. \A u \in Tasks : pc[u] = "rename" => call[u].arc \in Arcs /\ call[u].arc # arc
    BY <2>1, <2>2 DEF Written, Writing, HasArc
  <2> QED
    BY <2>1, <2>2, <2>3 DEF Fresh
<1>3. ASSUME NEW t \in Tasks, WriteTmp(t) PROVE Fresh'
  <2>1. /\ pc[t] = "write" /\ Live /\ UNCHANGED <<mem, call>>
        /\ tmp' = [tmp EXCEPT ![call[t].name] = new(t)]
        /\ \A u \in Tasks : pc'[u] = "rename" => u = t \/ pc[u] = "rename"
    BY <1>3 DEF WriteTmp, Goto
  <2>2. \A u \in Tasks : pc[u] \in {"write", "rename"} =>
           call[u].name \in Names /\ registry[call[u].name] = call[u].arc
    BY <2>1 DEF Referenced, Never, Resting
  <2> QED
    BY <2>1, <2>2 DEF Fresh
<1>4. ASSUME NEW t \in Tasks, RenameInLoop(t) \/ RenameInRequest(t) \/ RemoveDir(t) PROVE Quiet
  BY <1>4 DEF RenameInLoop, RenameInRequest, AfterRename, RemoveDir, End, Goto
<1>5. ASSUME NEW t \in Tasks, RenameFails(t) \/ SaveFails(t) PROVE Quiet
  <2>1. \A n \in Names : tmp'[n] \in {tmp[n], Nil, Broken}
    BY <1>5 DEF RenameFails, SaveFails
  <2>2. Kept
    BY <1>5 DEF RenameFails, SaveFails, Abandon, Leave, End, Goto
  <2> QED
    BY <2>1, <2>2
<1>6. ASSUME NEW t \in Tasks, Request(t) PROVE Quiet
  BY <1>6 DEF Request, BeginCreate, BeginDelete, BeginUpsert, BeginPatch, BeginSave, ArrivesFor, Arrives, Goto
<1>7. ASSUME NEW t \in Tasks, Insert(t) \/ Reply(t) \/ MarkClean(t) PROVE Quiet
  BY <1>7 DEF Insert, Reply, MarkClean, End, Goto
<1>8. ASSUME NEW t \in Tasks, NEW n \in Names, PassOver(t, n) \/ VisitToSave(t, n) PROVE Quiet
  BY <1>8 DEF PassOver, VisitToSave, Visit, Goto
<1>9. ASSUME NEW t \in Tasks, ReadLock(t) \/ EndLoop(t) PROVE Quiet
  BY <1>9 DEF ReadLock, EndLoop, Leave, End, Goto
<1>10. ASSUME NEW n \in Names, TrySave(n) PROVE Quiet
  BY <1>10 DEF TrySave, Visit, Goto
<1>11. ASSUME Tick \/ Signal \/ Drained \/ FinalSave PROVE Quiet
  BY <1>11 DEF Tick, Signal, Drained, FinalSave, Goto, Tasks
<1>12. ASSUME UNCHANGED vars PROVE Quiet
  BY <1>12 DEF vars
<1> HIDE DEF Quiet
<1> QED
  BY <1>1, <1>2, <1>3, <1>4, <1>5, <1>6, <1>7, <1>8, <1>9, <1>10, <1>11, <1>12
  DEF Next, RequestStep, SaveStep, AutoStep, Tasks

LEMMA NextMarked ==
    /\ IInv /\ Never("create") /\ Never("patch") /\ Tidy /\ Fresh /\ Marked
    /\ [Next]_vars
    => Marked'
<1> SUFFICES ASSUME IInv, Never("create"), Never("patch"), Tidy, Fresh, Marked, [Next]_vars PROVE Marked'
  OBVIOUS
<1> USE DEF IInv, Typed, TypeOK, Never
<1>1. ASSUME NEW t \in Tasks, NEW n \in Names, BeginDelete(t, n) PROVE Marked'
  BY <1>1 DEF BeginDelete, Marked, Same, Up
<1>2. ASSUME NEW t \in Tasks, RemoveDir(t) PROVE Marked'
  BY <1>2 DEF RemoveDir, Marked, Same, Up, Tidy, Deleting
<1>3. ASSUME NEW t \in Tasks, Apply(t) PROVE Marked'
  <2>1. /\ dirty' = [dirty EXCEPT ![call[t].arc] = TRUE]
        /\ mem' = [mem EXCEPT ![call[t].arc] = @ + 1]
        /\ UNCHANGED <<registry, disk>>
    BY <1>3 DEF Apply, Change
  <2> QED
    BY <2>1 DEF Marked, Same, Up
<1>4. ASSUME NEW t \in Tasks, RenameInLoop(t) \/ SaveFails(t) PROVE Marked'
  <2>1. pc[t] \in {"write", "rename"} /\ Live /\ UNCHANGED <<registry, mem>>
    BY <1>4 DEF RenameInLoop, AfterRename, SaveFails, Abandon
  <2>2. PICK name \in Names : name = call[t].name /\ registry[name] = call[t].arc /\ Up(name)
    BY <2>1 DEF Referenced, Resting, HasArc, Up
  <2>3. ASSUME disk'[name] = tmp[name], tmp[name] # Nil, pc[t] = "rename"
        PROVE  Same(name)' \/ disk'[name] = Broken
    BY <2>1, <2>2, <2>3 DEF Fresh, Same
  <2>4. /\ \A n \in Names \ {name} : disk'[n] = disk[n]
        /\ \/ disk'[name] = disk[name] /\ UNCHANGED dirty
           \/ Same(name)' \/ disk'[name] = Broken
    <3>1. CASE RenameInLoop(t)
      <4>1. disk' = [disk EXCEPT ![name] = tmp[name]] /\ tmp[name] # Nil /\ pc[t] = "rename"
        BY <2>2, <3>1 DEF RenameInLoop, AfterRename
      <4> QED
        BY <2>2, <2>3, <4>1
    <3>2. CASE SaveFails(t)
      <4>1. /\ UNCHANGED dirty
            /\ \/ UNCHANGED disk
               \/ disk' = [disk EXCEPT ![name] = disk[name]]
               \/ disk' = [disk EXCEPT ![name] = Broken]
               \/ disk' = [disk EXCEPT ![name] = tmp[name]] /\ tmp[name] # Nil /\ pc[t] = "rename"
        BY <2>2, <3>2 DEF SaveFails, Abandon
      <4> QED
        BY <2>2, <2>3, <4>1
    <3> QED
      BY <1>4, <3>1, <3>2
  <2>5. dirty' = [dirty EXCEPT ![registry[name]] = FALSE] \/ UNCHANGED dirty
    BY <1>4, <2>2 DEF RenameInLoop, SaveFails, Abandon
  <2>6. ASSUME NEW n \in Names \ {name}, Up(n), ~dirty'[registry[n]] PROVE Same(n)' \/ disk'[n] = Broken
    <3>1. registry[n] # registry[name]
      BY <2>2, <2>6 DEF OneName
    <3>2. ~dirty[registry[n]]
      BY <2>2, <2>5, <2>6, <3>1 DEF Up
    <3> QED
      BY <2>1, <2>4, <2>6, <3>2 DEF Marked, Same
  <2>7. ASSUME ~dirty'[registry[name]] PROVE Same(name)' \/ disk'[name] = Broken
    BY <2>1, <2>2, <2>4, <2>7 DEF Marked, Same
  <2> QED
    BY <2>1, <2>6, <2>7 DEF Marked, Up
<1>5. ASSUME NEW t \in Tasks, Insert(t) \/ SetRetention(t) \/ MarkClean(t) \/ RenameInRequest(t) PROVE FALSE
  BY <1>5 DEF Insert, SetRetention, MarkClean, RenameInRequest
<1>6. CASE UNCHANGED <<registry, mem, dirty, disk>>
  BY <1>6 DEF Marked, Same, Up
<1> QED
  BY <1>1, <1>2, <1>3, <1>4, <1>5, <1>6
  DEF Next, Request, RequestStep, SaveStep, AutoStep, Tasks, vars, BeginCreate, BeginUpsert, BeginPatch,
      Reply, BeginSave, PassOver, VisitToSave, ReadLock, WriteTmp, RenameFails, Abandon, EndLoop, Tick,
      TrySave, Signal, Drained, FinalSave

(* A collection that is not marked dirty and that nobody is saving is what *)
(* its files hold, so that save_dirty_collections has nothing to add; or a *)
(* save of it has failed and broken them.                                  *)
THEOREM CleanHeld ==
    ASSUME "create" \notin Ops, "patch" \notin Ops
    PROVE  Spec => []CleanIsSaved
<1>1. Init => Never("create") /\ Never("patch") /\ Tidy /\ Fresh /\ Marked
  BY InitNever, InitSame DEF Tidy, Up, Deleting, Init, Fresh, Marked
<1>2. IInv /\ Never("create") /\ Never("patch") /\ Tidy /\ Fresh /\ Marked /\ [Next]_vars
      => Never("create")' /\ Never("patch")' /\ Tidy' /\ Fresh' /\ Marked'
  BY NextNever, NextTidy, NextFresh, NextMarked DEF IInv
<1>3. IInv /\ Marked => CleanIsSaved
  <2> SUFFICES ASSUME IInv, Marked, NEW n \in Names, Up(n), ~dirty[registry[n]], disk[n] # Broken
               PROVE  Holds(n, mem[registry[n]])
    BY DEF CleanIsSaved, BrokenFor
  <2>1. registry[n] \in Arcs /\ disk[n] = [arc |-> registry[n], ver |-> mem[registry[n]]]
    BY DEF Marked, Same, Up, IInv, Typed, TypeOK
  <2>2. disk[n] \in Snapshots /\ disk[n].arc = registry[n] /\ disk[n].ver = mem[registry[n]]
    BY <2>1 DEF IInv, Typed, TypeOK, Snapshots
  <2> QED
    BY <2>1, <2>2, CountersTyped DEF Holds, IInv
<1> QED
  BY <1>1, <1>2, <1>3, Invariance, PTL DEF Spec

-----------------------------------------------------------------------------
(***************************************************************************)
(* The shutdown, where there are no streams and no timeout is exceeded:    *)
(* when the last save begins only the main task is at work, and what it    *)
(* has not yet saved is before it.                                         *)
(***************************************************************************)
StillToSave(n) ==
    \/ n \in todo[Main]
    \/ pc[Main] \in {"rlock", "write", "rename"} /\ call[Main].name = n

Quitting ==
    /\ ShuttingDown => \A t \in Requests : pc[t] = "idle"
    /\ stage = "saving" => pc[AutoSave] \in {"idle", "stopped"}
    /\ stage = "saving" =>
          /\ pc[Main] \in {"loop", "rlock", "write", "rename"} /\ call[Main].op = "final"
          /\ pc[Main] = "rename" =>
                tmp[call[Main].name] = [arc |-> call[Main].arc, ver |-> mem[call[Main].arc]]
          /\ \A n \in Names : Up(n) => StillToSave(n) \/ Same(n)
    /\ stage = "exited" => \A n \in Names : Up(n) => Same(n)

(* Who takes a step at which stage.                                        *)
LEMMA OnlyMainSaves ==
    ASSUME Streams = {}, Typed, Quitting, Next
    PROVE  /\ Live
           /\ stage = "saving" => SaveStep(Main)
           /\ stage = "stopping" => FinalSave \/ AutoStep
<1>1. ASSUME NEW t \in Requests, Request(t) PROVE stage = "serving"
  BY <1>1 DEF Request, BeginCreate, BeginDelete, BeginUpsert, BeginPatch, BeginSave, ArrivesFor, Arrives
<1>2. ASSUME NEW t \in Tasks, RequestStep(t) PROVE Live /\ pc[t] \notin {"idle", "stopped"}
  BY <1>2 DEF RequestStep, Insert, RemoveDir, Apply, Reply, SetRetention, MarkClean
<1>3. ASSUME NEW t \in Tasks, SaveStep(t) PROVE Live /\ pc[t] \notin {"idle", "stopped"}
  BY <1>3 DEF SaveStep, PassOver, VisitToSave, Visit, ReadLock, WriteTmp, RenameInLoop, RenameInRequest,
              RenameFails, SaveFails, EndLoop
<1>4. ASSUME NEW n \in Names, TrySave(n) PROVE Live /\ pc[AutoSave] \notin {"idle", "stopped"}
  BY <1>4 DEF TrySave, Visit
<1>5. /\ Tick => ~ShuttingDown /\ Live
      /\ Signal => stage = "serving"
      /\ Drained => stage = "draining"
      /\ FinalSave => stage = "stopping"
  BY DEF Tick, Signal, Drained, FinalSave
<1>6. {AutoSave, Main} \subseteq Tasks /\ Requests \subseteq Tasks
  BY DEF Tasks
<1>7. /\ stage \in {"stopping", "saving"} => \A t \in Requests : pc[t] = "idle"
      /\ stage = "saving" => pc[AutoSave] \in {"idle", "stopped"}
      /\ stage = "stopping" => pc[Main] = "idle"
  BY DEF Quitting, ShuttingDown, Typed
<1>8. Live
  BY <1>1, <1>2, <1>3, <1>4, <1>5, <1>6 DEF Next, AutoStep, Live, Exited
<1>9. ASSUME stage \in {"stopping", "saving"}, NEW t \in Requests
      PROVE  ~(Request(t) \/ RequestStep(t) \/ SaveStep(t))
  BY <1>1, <1>2, <1>3, <1>6, <1>7, <1>9
<1>10. stage = "saving" => SaveStep(Main)
  BY <1>3, <1>4, <1>5, <1>6, <1>7, <1>9 DEF Next, AutoStep, ShuttingDown
<1>11. stage = "stopping" => FinalSave \/ AutoStep
  BY <1>3, <1>5, <1>6, <1>7, <1>9 DEF Next, ShuttingDown
<1> QED
  BY <1>8, <1>10, <1>11

(* The steps of the last save.                                             *)
LEMMA LastSaveQuits ==
    ASSUME Streams = {}, IInv, Quitting, stage = "saving", SaveStep(Main)
    PROVE  Quitting'
<1> USE DEF IInv, Typed, Goto
<1>1. /\ \A t \in Requests : pc[t] = "idle"
      /\ pc[AutoSave] \in {"idle", "stopped"}
      /\ pc[Main] = "rename" =>
            tmp[call[Main].name] = [arc |-> call[Main].arc, ver |-> mem[call[Main].arc]]
      /\ pc[Main] \in {"loop", "rlock", "write", "rename"} /\ call[Main].op = "final"
      /\ \A n \in Names : Up(n) => StillToSave(n) \/ Same(n)
  BY DEF Quitting, ShuttingDown
<1>2. /\ Main \in Tasks /\ Main # AutoSave /\ Main \notin Requests
      /\ Tasks = Requests \cup {AutoSave, Main}
      /\ AutoSave \notin Requests
  BY DEF Tasks
<1>3. ASSUME pc' = [pc EXCEPT ![Main] = pc'[Main]] \/ UNCHANGED pc
      PROVE  (\A t \in Requests : pc'[t] = "idle") /\ pc'[AutoSave] \in {"idle", "stopped"}
  BY <1>1, <1>2, <1>3
<1>4. ASSUME NEW n \in Names, PassOver(Main, n) PROVE Quitting'
  <2>1. ~Up(n) /\ UNCHANGED <<registry, mem, disk, tmp, pc, call, stage>>
    BY <1>2, <1>4 DEF PassOver
  <2>2. todo'[Main] = todo[Main] \ {n}
    BY <1>2, <1>4 DEF PassOver, Visit, TypeOK
  <2> QED
    BY <1>1, <2>1, <2>2 DEF Quitting, ShuttingDown, StillToSave, Same, Up
<1>5. ASSUME NEW n \in Names, VisitToSave(Main, n) PROVE Quitting'
  <2>1. /\ pc' = [pc EXCEPT ![Main] = "rlock"] /\ pc[Main] = "loop"
        /\ call'[Main].name = n /\ call'[Main].op = "final"
        /\ UNCHANGED <<registry, mem, disk, tmp, stage>>
    BY <1>1, <1>2, <1>5 DEF VisitToSave, Visit, Calls
  <2>2. todo'[Main] = todo[Main] \ {n}
    BY <1>2, <1>5 DEF VisitToSave, Visit, TypeOK
  <2>3. \A m \in Names : StillToSave(m) => StillToSave(m)'
    BY <1>2, <2>1, <2>2 DEF StillToSave
  <2> QED
    BY <1>1, <1>2, <1>3, <2>1, <2>3 DEF Quitting, ShuttingDown, Same, Up
<1>6. ASSUME ReadLock(Main) \/ WriteTmp(Main) PROVE Quitting'
  <2>1. /\ UNCHANGED <<registry, mem, disk, call, todo, stage>>
        /\ \/ pc[Main] = "rlock" /\ pc' = [pc EXCEPT ![Main] = "write"]
           \/ /\ pc[Main] = "write" /\ pc' = [pc EXCEPT ![Main] = "rename"]
              /\ tmp' = [tmp EXCEPT ![call[Main].name] = [arc |-> call[Main].arc, ver |-> mem[call[Main].arc]]]
    BY <1>6 DEF ReadLock, WriteTmp
  <2>2. \A m \in Names : StillToSave(m) => StillToSave(m)'
    BY <1>2, <2>1 DEF StillToSave
  <2>3. pc'[Main] = "rename" =>
           tmp'[call'[Main].name] = [arc |-> call'[Main].arc, ver |-> mem'[call'[Main].arc]]
    <3> SUFFICES ASSUME pc'[Main] = "rename"
                 PROVE  tmp'[call[Main].name] = [arc |-> call[Main].arc, ver |-> mem[call[Main].arc]]
      BY <2>1
    <3>1. pc[Main] = "write"
      BY <1>2, <2>1
    <3>2. call[Main].name \in Names
      BY <1>2, <3>1 DEF Resting
    <3> QED
      BY <2>1, <3>1, <3>2 DEF TypeOK
  <2> QED
    BY <1>1, <1>2, <1>3, <2>1, <2>2, <2>3 DEF Quitting, ShuttingDown, Same, Up
<1>7. ASSUME RenameInLoop(Main) PROVE Quitting'
  <2>1. pc[Main] = "rename" /\ Live /\ disk' = [disk EXCEPT ![call[Main].name] = tmp[call[Main].name]]
    BY <1>7 DEF RenameInLoop, AfterRename
  <2>6. PICK name \in Names : name = call[Main].name /\ Up(name) /\ registry[name] = call[Main].arc
    BY <1>1, <1>2, <2>1 DEF Referenced, Resting, HasArc, Up
  <2>2. /\ name = call[Main].name /\ Up(name)
        /\ disk' = [disk EXCEPT ![name] = [arc |-> registry[name], ver |-> mem[registry[name]]]]
    BY <1>1, <2>1, <2>6
  <2>3. /\ UNCHANGED <<registry, mem, todo, stage>>
        /\ pc' = [pc EXCEPT ![Main] = "loop"] /\ call'[Main].op = "final"
    BY <1>1, <1>2, <1>7 DEF RenameInLoop, AfterRename, NoCall
  <2>4. Same(name)'
    BY <2>2, <2>3 DEF Same, TypeOK
  <2>5. \A n \in Names \ {name} : /\ Same(n) => Same(n)'
                                  /\ StillToSave(n) => StillToSave(n)'
    BY <2>2, <2>3 DEF Same, StillToSave
  <2> QED
    BY <1>1, <1>2, <1>3, <2>3, <2>4, <2>5 DEF Quitting, ShuttingDown, Up
<1>8. ASSUME RenameInRequest(Main) PROVE FALSE
  BY <1>1, <1>8 DEF RenameInRequest
<1>10. ASSUME RenameFails(Main) \/ SaveFails(Main) PROVE Quitting'
  <2>1. stage' = "failed" /\ UNCHANGED pc
    BY <1>10 DEF RenameFails, SaveFails, Abandon, Leave
  <2> QED
    BY <1>1, <2>1 DEF Quitting, ShuttingDown
<1>9. ASSUME EndLoop(Main) PROVE Quitting'
  <2>1. /\ pc[Main] = "loop" /\ todo[Main] = {} /\ stage' = "exited"
        /\ UNCHANGED <<registry, mem, disk, pc>>
    BY <1>9 DEF EndLoop, Leave
  <2>2. \A n \in Names : Up(n) => Same(n)
    BY <1>1, <2>1 DEF StillToSave
  <2> QED
    BY <1>1, <2>1, <2>2 DEF Quitting, ShuttingDown, Same, Up
<1> QED
  BY <1>4, <1>5, <1>6, <1>7, <1>8, <1>9, <1>10 DEF SaveStep

LEMMA NextQuitting ==
    ASSUME Streams = {}, Slow = {}
    PROVE  IInv /\ Quitting /\ [Next]_vars => Quitting'
<1> SUFFICES ASSUME IInv, Quitting, [Next]_vars PROVE Quitting'
  OBVIOUS
<1>1. CASE UNCHANGED vars
  BY <1>1 DEF vars, Quitting, ShuttingDown, Exited, StillToSave, Same, Up
<1>2. CASE Next
  <2>1. Typed /\ Main \in Tasks /\ AutoSave \in Tasks /\ AutoSave # Main
    BY DEF IInv, Tasks
  <2>2. CASE stage \in {"serving", "draining"}
    <3>1. Drained => Quitting'
      <4> SUFFICES ASSUME Drained PROVE Quitting'
        OBVIOUS
      <4>1. stage' = "stopping" /\ \A t \in Requests : pc[t] = "idle"
        BY DEF Drained
      <4>2. \A t \in Requests : pc'[t] = "idle"
        BY <2>1, <4>1 DEF Drained, Typed
      <4> QED
        BY <4>1, <4>2 DEF Quitting, ShuttingDown, Exited
    <3>2. ASSUME NEW t \in Tasks, SaveStep(t) PROVE stage' = stage
      <4>1. t = Main => pc[t] = "idle"
        BY <2>1, <2>2 DEF Typed
      <4> QED
        BY <3>2, <4>1
        DEF SaveStep, PassOver, VisitToSave, ReadLock, WriteTmp, RenameInLoop, RenameInRequest,
            AfterRename, RenameFails, SaveFails, Abandon, EndLoop, Leave
    <3>3. stage' \in {"serving", "draining"} => Quitting'
      BY DEF Quitting, ShuttingDown, Exited
    <3>4. ASSUME NEW t \in Tasks, Request(t) \/ RequestStep(t) PROVE stage' = stage
      BY <3>4 DEF Request, BeginCreate, BeginDelete, BeginUpsert, BeginPatch, BeginSave, ArrivesFor,
                  Arrives, RequestStep, Insert, RemoveDir, Apply, Reply, SetRetention, MarkClean
    <3>5. stage' \in {"serving", "draining"} \/ Drained
      BY <1>2, <2>2, <3>2, <3>4
      DEF Next, AutoStep, Tasks, Tick, TrySave, Signal, FinalSave
    <3> QED
      BY <3>1, <3>3, <3>5
  <2>3. CASE stage = "stopping" /\ FinalSave
    <3>1. /\ pc[AutoSave] \in {"idle", "stopped"} /\ pc[Main] = "idle"
          /\ \A t \in Requests : pc[t] = "idle"
      BY <2>1, <2>3 DEF FinalSave, Quitting, ShuttingDown, Typed
    <3>2. /\ stage' = "saving" /\ pc' = [pc EXCEPT ![Main] = "loop"]
          /\ call'[Main].op = "final" /\ todo'[Main] = Names
      BY <2>1, <2>3 DEF FinalSave, Goto, Typed, TypeOK, Calls
    <3>3. \A t \in Tasks \ {Main} : pc'[t] = pc[t]
      BY <2>1, <3>2 DEF Typed
    <3>4. /\ pc'[Main] = "loop" /\ pc'[AutoSave] \in {"idle", "stopped"}
          /\ \A t \in Requests : pc'[t] = "idle"
      BY <2>1, <3>1, <3>2, <3>3 DEF Typed, Tasks
    <3> QED
      BY <3>2, <3>4 DEF Quitting, ShuttingDown, Exited, StillToSave
  <2>4. CASE stage = "stopping" /\ AutoStep
    <3>1. stage' = "stopping" /\ \A t \in Tasks \ {AutoSave} : pc'[t] = pc[t]
      BY <2>1, <2>4
      DEF AutoStep, TrySave, Visit, SaveStep, PassOver, VisitToSave, ReadLock, WriteTmp, RenameInLoop,
          RenameInRequest, AfterRename, RenameFails, SaveFails, Abandon, EndLoop, Leave, End, Goto, Typed
    <3> QED
      BY <2>4, <3>1 DEF Quitting, ShuttingDown, Exited, Tasks
  <2>5. CASE stage = "saving"
    BY <1>2, <2>1, <2>5, OnlyMainSaves, LastSaveQuits
  <2> QED
    BY <1>2, <2>1, <2>2, <2>3, <2>4, <2>5, OnlyMainSaves DEF Typed, TypeOK, Live, Exited
<1> QED
  BY <1>1, <1>2

(* A server that has exited after a last save without an error has saved   *)
(* all that it acknowledged, whichever saves failed before, and deleted or *)
(* created meanwhile as its collections may be (drain, notify, join, save).*)
(* Of a last save that fails it says nothing: main logs the error and      *)
(* exits.  A stream may still change a collection after it was saved, and  *)
(* so may what outlasts its timeout.                                       *)
THEOREM ExitIsSafe == ASSUME Streams = {}, Slow = {} PROVE Spec => []ExitSaves
<1>1. Init => Quitting
  BY DEF Init, Quitting, ShuttingDown, Exited
<1>2. IInv /\ Quitting /\ [Next]_vars => Quitting'
  BY NextQuitting
<1>3. IInv /\ Quitting => ExitSaves
  <2> SUFFICES ASSUME IInv, Quitting, stage = "exited", NEW n \in Names, Up(n)
               PROVE  Holds(n, acked[registry[n]])
    BY DEF ExitSaves
  <2>1. registry[n] \in Arcs /\ disk[n] = [arc |-> registry[n], ver |-> mem[registry[n]]]
    BY DEF Quitting, Same, Up, IInv, Typed, TypeOK
  <2>2. disk[n] \in Snapshots /\ disk[n].arc = registry[n] /\ disk[n].ver = mem[registry[n]]
    BY <2>1 DEF IInv, Typed, TypeOK, Snapshots
  <2>3. acked[registry[n]] <= mem[registry[n]]
    BY <2>1 DEF IInv, Happened
  <2> QED
    BY <2>2, <2>3 DEF Holds
<1> QED
  BY <1>1, <1>2, <1>3, Invariance, PTL DEF Spec
=============================================================================
