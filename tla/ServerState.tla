----------------------------- MODULE ServerState -----------------------------
(***************************************************************************)
(* The server's collections (crates/server/src/state.rs), the request      *)
(* handlers that change them, the auto-save task and the shutdown of       *)
(* main.rs.                                                                *)
(*                                                                         *)
(* The server keeps a DashMap of Arc<RwLock<Collection>>.  A name may be   *)
(* deleted and created again, and a handler may hold an Arc that is no     *)
(* longer in the map: arcs are numbered as they are made.  The points of a *)
(* collection are abstracted to a version, the number of changes made.     *)
(* A section under the write lock touches nothing else and is one step;    *)
(* read locks are held over the files' writing, and so are references      *)
(* into the map (refs), which keep insert and remove out.                  *)
(*                                                                         *)
(* pc[t] is the step task t is about to take:                              *)
(*   idle           no request (AutoSave: waiting for its tick)            *)
(*   insert, rmdir  create_collection past its check, delete_collection    *)
(*                  past the map's remove                                  *)
(*   apply, reply   an upsert, waiting for the lock and to be answered     *)
(*   set            patch_collection_retention, waiting for the lock       *)
(*   loop, rlock    the loop over collections, waiting for a read lock     *)
(*   write, rename  save_collection, until its files are written to .tmp,  *)
(*                  and from the first rename on                           *)
(*   mark           waiting for the lock to mark the collection clean      *)
(*   stopped        AutoSave has left its loop                             *)
(***************************************************************************)
EXTENDS Naturals, FiniteSets

CONSTANTS
    Names,      \* names of collections
    Requests,   \* tasks that serve HTTP requests
    Streams,    \* tasks that serve WebSocket and gRPC streams
    AutoSave,   \* the auto-save task
    Main,       \* the main task
    Ops,        \* what requests may ask
    Slow,       \* what may outlast its timeout at shutdown
    Loaded,     \* names the server has loaded from disk when it starts
    Nil,        \* no collection, no name
    Broken,     \* files that a save which failed left cut off or half replaced
    MaxCalls    \* bound: requests made

Arcs == 1..(Cardinality(Loaded) + MaxCalls)
Versions == 0..MaxCalls
Tasks == Requests \cup Streams \cup {AutoSave, Main}
Snapshots == [arc : Arcs, ver : Versions]

ASSUME ServerStateAssumption ==
    /\ MaxCalls \in Nat
    /\ Ops \subseteq {"create", "delete", "upsert", "patch", "save"}
    /\ Slow \subseteq {"request", "save"}
    /\ Loaded \subseteq Names
    /\ IsFiniteSet(Loaded)
    /\ Nil \notin Arcs /\ Nil \notin Snapshots
    /\ Broken \notin Snapshots /\ Broken # Nil
    /\ Requests \cap Streams = {} /\ AutoSave # Main
    /\ {AutoSave, Main} \cap (Requests \cup Streams) = {}

VARIABLES
    registry,  \* the map of collections
    born,      \* how many collections were made
    mem,       \* the version of each in memory
    dirty,     \* its dirty flag
    acked,     \* ghost: the last version a request was told of
    refs,      \* the tasks holding a reference to a name's entry in the map
    readers,   \* the tasks holding a collection's read lock
    tmp,       \* the .tmp file of a name's directory, one for each of its files
    disk,      \* its snapshot, which one file stands for as well
    pc,
    call,      \* of each task: op, name, arc and version
    todo,      \* the names a loop over collections has before it
    calls,     \* requests made
    stage      \* how far the shutdown is

data == <<registry, born, mem, dirty, acked>>
locks == <<refs, readers>>
files == <<tmp, disk>>
control == <<pc, call, todo, calls, stage>>
vars == <<data, locks, files, control>>

-----------------------------------------------------------------------------
(* It exits whether the last save went well ("exited") or not ("failed").  *)
Exited == stage \in {"exited", "failed"}
Live == ~Exited
ShuttingDown == stage \in {"stopping", "saving"} \/ Exited
Up(name) == registry[name] # Nil

(* std::sync::RwLock: a reader waits behind a waiting writer. *)
Waiting(arc) == {t \in Tasks : pc[t] \in {"apply", "set", "mark"} /\ call[t].arc = arc}
CanRead(arc) == Waiting(arc) = {}
CanWrite(arc) == readers[arc] = {}

Goto(t, label) == pc' = [pc EXCEPT ![t] = label]
NoCall == [op |-> "none", name |-> Nil, arc |-> Nil, ver |-> 0]
End(t) == Goto(t, "idle") /\ call' = [call EXCEPT ![t] = NoCall]
Take(t, name) == refs' = [refs EXCEPT ![name] = @ \cup {t}]
Drop(t) == refs' = [n \in Names |-> refs[n] \ {t}]
Unlock(t) == readers' = [a \in Arcs |-> readers[a] \ {t}]

(* A request arrives: HTTP ones until the server drains. *)
Arrives(t, op) ==
    /\ Live /\ pc[t] = "idle" /\ calls < MaxCalls
    /\ \/ t \in Requests /\ op \in Ops /\ stage = "serving"
       \/ t \in Streams /\ op = "upsert"
    /\ calls' = calls + 1
    /\ UNCHANGED stage

ArrivesFor(t, op, name) ==
    /\ Arrives(t, op)
    /\ call' = [call EXCEPT ![t] = [op |-> op, name |-> name, arc |-> registry[name], ver |-> 0]]

Init ==
    /\ \E arcOf \in [Loaded -> 1..Cardinality(Loaded)] :
          /\ \A m, n \in Loaded : arcOf[m] = arcOf[n] => m = n
          /\ registry = [n \in Names |-> IF n \in Loaded THEN arcOf[n] ELSE Nil]
          /\ disk = [n \in Names |-> IF n \in Loaded THEN [arc |-> arcOf[n], ver |-> 0] ELSE Nil]
    /\ born = Cardinality(Loaded)
    /\ mem = [a \in Arcs |-> 0] /\ dirty = [a \in Arcs |-> FALSE] /\ acked = [a \in Arcs |-> 0]
    /\ refs = [n \in Names |-> {}] /\ readers = [a \in Arcs |-> {}]
    /\ tmp = [n \in Names |-> Nil]
    /\ pc = [t \in Tasks |-> "idle"]
    /\ call = [t \in Tasks |-> NoCall]
    /\ todo = [t \in Tasks |-> {}]
    /\ calls = 0
    /\ stage = "serving"

-----------------------------------------------------------------------------
(* Requests *)

(* create_collection looks for the name before it inserts. *)
BeginCreate(t, name) ==
    /\ ArrivesFor(t, "create", name)
    /\ ~Up(name)
    /\ Goto(t, "insert")
    /\ UNCHANGED <<data, locks, files, todo>>

Insert(t) ==
    LET name == call[t].name IN
    /\ Live /\ pc[t] = "insert" /\ refs[name] = {}
    /\ born' = born + 1
    /\ registry' = [registry EXCEPT ![name] = born']
    /\ call' = [call EXCEPT ![t].arc = born']
    /\ Goto(t, "rlock")
    /\ UNCHANGED <<mem, dirty, acked, locks, files, todo, calls, stage>>

BeginDelete(t, name) ==
    /\ ArrivesFor(t, "delete", name)
    /\ Up(name) /\ refs[name] = {}
    /\ registry' = [registry EXCEPT ![name] = Nil]
    /\ Goto(t, "rmdir")
    /\ UNCHANGED <<born, mem, dirty, acked, locks, files, todo>>

RemoveDir(t) ==
    LET name == call[t].name IN
    /\ Live /\ pc[t] = "rmdir"
    /\ disk' = [disk EXCEPT ![name] = Nil]
    /\ tmp' = [tmp EXCEPT ![name] = Nil]
    /\ End(t)
    /\ UNCHANGED <<data, locks, todo, calls, stage>>

(* upsert_points clones the Arc and drops the reference into the map. *)
BeginUpsert(t, name) ==
    /\ ArrivesFor(t, "upsert", name)
    /\ Up(name)
    /\ Goto(t, "apply")
    /\ UNCHANGED <<data, locks, files, todo>>

Change(t, marks) ==
    LET arc == call[t].arc IN
    /\ CanWrite(arc)
    /\ mem' = [mem EXCEPT ![arc] = @ + 1]
    /\ dirty' = IF marks THEN [dirty EXCEPT ![arc] = TRUE] ELSE dirty
    /\ call' = [call EXCEPT ![t].ver = mem'[arc]]
    /\ UNCHANGED <<registry, born, acked>>

(* Mutant of Apply: the collection is not marked dirty. *)
ApplyUnmarked(t) ==
    /\ Live /\ pc[t] = "apply"
    /\ Change(t, FALSE)
    /\ Goto(t, "reply")
    /\ UNCHANGED <<locks, files, todo, calls, stage>>

Apply(t) ==
    /\ Live /\ pc[t] = "apply"
    /\ Change(t, TRUE)
    /\ Goto(t, "reply")
    /\ UNCHANGED <<locks, files, todo, calls, stage>>

Acknowledge(t) ==
    LET arc == call[t].arc IN
    acked' = [acked EXCEPT ![arc] = IF call[t].ver > @ THEN call[t].ver ELSE @]

Reply(t) ==
    /\ Live /\ pc[t] = "reply"
    /\ Acknowledge(t)
    /\ End(t)
    /\ UNCHANGED <<registry, born, mem, dirty, locks, files, todo, calls, stage>>

(* patch_collection_retention keeps its reference into the map; the        *)
(* retention it sets does not mark the collection dirty.                   *)
BeginPatch(t, name) ==
    /\ ArrivesFor(t, "patch", name)
    /\ Up(name)
    /\ Take(t, name)
    /\ Goto(t, "set")
    /\ UNCHANGED <<data, readers, files, todo>>

SetRetention(t) ==
    /\ Live /\ pc[t] = "set"
    /\ Change(t, FALSE)
    /\ Goto(t, "rlock")
    /\ UNCHANGED <<locks, files, todo, calls, stage>>

(* create_collection and patch_collection_retention mark the collection    *)
(* clean under a lock of its own, after the one they saved it under.       *)
MarkClean(t) ==
    LET arc == call[t].arc IN
    /\ Live /\ pc[t] = "mark" /\ CanWrite(arc)
    /\ dirty' = [dirty EXCEPT ![arc] = FALSE]
    /\ Acknowledge(t)
    /\ Drop(t)
    /\ End(t)
    /\ UNCHANGED <<registry, born, mem, readers, files, todo, calls, stage>>

(* POST /save. *)
BeginSave(t) ==
    /\ Arrives(t, "save")
    /\ call' = [call EXCEPT ![t] = [NoCall EXCEPT !.op = "save"]]
    /\ todo' = [todo EXCEPT ![t] = Names]
    /\ Goto(t, "loop")
    /\ UNCHANGED <<data, locks, files>>

-----------------------------------------------------------------------------
(* Saving *)

(* The auto-save task's timer. *)
Tick ==
    /\ Live /\ pc[AutoSave] = "idle" /\ ~ShuttingDown
    /\ \E n \in Names : Up(n) /\ dirty[registry[n]]
    /\ todo' = [todo EXCEPT ![AutoSave] = Names]
    /\ Goto(AutoSave, "loop")
    /\ UNCHANGED <<data, locks, files, call, calls, stage>>

Visit(t, name) ==
    /\ Live /\ pc[t] = "loop" /\ name \in todo[t]
    /\ todo' = [todo EXCEPT ![t] = @ \ {name}]

PassOver(t, name) ==
    /\ Visit(t, name)
    /\ Up(name) => t = AutoSave /\ (~dirty[registry[name]] \/ ~CanRead(registry[name]))
    /\ UNCHANGED <<data, locks, files, pc, call, calls, stage>>

(* Mutant of TrySave: the Arc is cloned, as upsert_points does, and the    *)
(* reference into the map let go of.                                       *)
TrySaveCloned(name) ==
    LET arc == registry[name] IN
    /\ Visit(AutoSave, name)
    /\ Up(name) /\ CanRead(arc) /\ dirty[arc]
    /\ call' = [call EXCEPT ![AutoSave] = [op |-> "auto", name |-> name, arc |-> arc, ver |-> 0]]
    /\ readers' = [readers EXCEPT ![arc] = @ \cup {AutoSave}]
    /\ Goto(AutoSave, "write")
    /\ UNCHANGED <<data, refs, files, calls, stage>>

(* save_dirty_collections: try_read, and the dirty flag. *)
TrySave(name) ==
    LET arc == registry[name] IN
    /\ Visit(AutoSave, name)
    /\ Up(name) /\ CanRead(arc) /\ dirty[arc]
    /\ call' = [call EXCEPT ![AutoSave] = [op |-> "auto", name |-> name, arc |-> arc, ver |-> 0]]
    /\ Take(AutoSave, name)
    /\ readers' = [readers EXCEPT ![arc] = @ \cup {AutoSave}]
    /\ Goto(AutoSave, "write")
    /\ UNCHANGED <<data, files, calls, stage>>

(* save_all_collections: every collection, dirty or not. *)
VisitToSave(t, name) ==
    /\ t # AutoSave
    /\ Visit(t, name)
    /\ Up(name)
    /\ call' = [call EXCEPT ![t].name = name, ![t].arc = registry[name]]
    /\ Take(t, name)
    /\ Goto(t, "rlock")
    /\ UNCHANGED <<data, readers, files, calls, stage>>

(* Mutant of ReadLock: the lock is let go of before the files are written. *)
ReadLockLetGo(t) ==
    LET arc == call[t].arc IN
    /\ Live /\ pc[t] = "rlock" /\ CanRead(arc)
    /\ Goto(t, "write")
    /\ UNCHANGED <<data, locks, files, call, todo, calls, stage>>

ReadLock(t) ==
    LET arc == call[t].arc IN
    /\ Live /\ pc[t] = "rlock" /\ CanRead(arc)
    /\ readers' = [readers EXCEPT ![arc] = @ \cup {t}]
    /\ Goto(t, "write")
    /\ UNCHANGED <<data, refs, files, call, todo, calls, stage>>

(* Mutant of WriteTmp: patch_collection_retention saves a copy, made when  *)
(* it set the retention.                                                   *)
WriteTmpOfCopy(t) ==
    LET ver == IF call[t].op = "patch" THEN call[t].ver ELSE mem[call[t].arc] IN
    /\ Live /\ pc[t] = "write"
    /\ tmp' = [tmp EXCEPT ![call[t].name] = [arc |-> call[t].arc, ver |-> ver]]
    /\ Goto(t, "rename")
    /\ UNCHANGED <<data, locks, disk, call, todo, calls, stage>>

(* atomic_write writes the .tmp file, and renames it.  Two tasks that save *)
(* one collection use the same .tmp file.                                  *)
WriteTmp(t) ==
    /\ Live /\ pc[t] = "write"
    /\ tmp' = [tmp EXCEPT ![call[t].name] = [arc |-> call[t].arc, ver |-> mem[call[t].arc]]]
    /\ Goto(t, "rename")
    /\ UNCHANGED <<data, locks, disk, call, todo, calls, stage>>

AfterRename(t) ==
    /\ tmp[call[t].name] # Nil
    /\ disk' = [disk EXCEPT ![call[t].name] = tmp[call[t].name]]
    /\ tmp' = [tmp EXCEPT ![call[t].name] = Nil]
    /\ Unlock(t)
    /\ UNCHANGED <<registry, born, mem, acked, todo, calls, stage>>

(* In save_dirty_collections and save_all_collections the collection is    *)
(* marked clean under the read lock it was saved under.                    *)
RenameInLoop(t) ==
    /\ Live /\ pc[t] = "rename" /\ call[t].op \in {"auto", "save", "final"}
    /\ AfterRename(t)
    /\ dirty' = [dirty EXCEPT ![call[t].arc] = FALSE]
    /\ Drop(t)
    /\ Goto(t, "loop")
    /\ call' = [call EXCEPT ![t] = [NoCall EXCEPT !.op = call[t].op]]

(* Mutant of RenameInRequest: the read lock is still held when the         *)
(* collection is to be marked clean.                                       *)
RenameKeepsLock(t) ==
    /\ Live /\ pc[t] = "rename" /\ call[t].op \in {"create", "patch"}
    /\ tmp[call[t].name] # Nil
    /\ disk' = [disk EXCEPT ![call[t].name] = tmp[call[t].name]]
    /\ tmp' = [tmp EXCEPT ![call[t].name] = Nil]
    /\ Goto(t, "mark")
    /\ UNCHANGED <<data, locks, call, todo, calls, stage>>

RenameInRequest(t) ==
    /\ Live /\ pc[t] = "rename" /\ call[t].op \in {"create", "patch"}
    /\ AfterRename(t)
    /\ Goto(t, "mark")
    /\ UNCHANGED <<dirty, refs, call>>

Leave(t, end) ==
    IF t = Main THEN stage' = end /\ UNCHANGED <<pc, call>>
    ELSE End(t) /\ UNCHANGED stage

(* An error ends the request, or the loop with what it has before it; the  *)
(* main task logs it and goes on to exit.                                  *)
Abandon(t) ==
    /\ Drop(t) /\ Unlock(t)
    /\ Leave(t, "failed")
    /\ todo' = [todo EXCEPT ![t] = {}]
    /\ UNCHANGED <<data, calls>>

(* The .tmp file is gone. *)
RenameFails(t) ==
    /\ Live /\ pc[t] = "rename" /\ tmp[call[t].name] = Nil
    /\ Abandon(t)
    /\ UNCHANGED files

(* An I/O error, or an open circuit breaker: the .tmp file may be cut off, *)
(* or some of the files renamed, the points among them or not.             *)
SaveFails(t) ==
    LET name == call[t].name
        Leaves(part, whole) == /\ tmp' = [tmp EXCEPT ![name] = part]
                               /\ disk' = [disk EXCEPT ![name] = whole] IN
    /\ Live
    /\ \/ pc[t] = "write" /\ \E part \in {tmp[name], Broken} : Leaves(part, disk[name])
       \/ /\ pc[t] = "rename" /\ tmp[name] # Nil
          /\ \/ UNCHANGED files
             \/ \E whole \in {tmp[name], Broken} : Leaves(Nil, whole)
    /\ Abandon(t)

EndLoop(t) ==
    /\ Live /\ pc[t] = "loop" /\ todo[t] = {}
    /\ Leave(t, "exited")
    /\ UNCHANGED <<data, locks, files, todo, calls>>

-----------------------------------------------------------------------------
(* Shutdown *)

(* The signal: no more HTTP requests. *)
Signal ==
    /\ stage = "serving"
    /\ stage' = "draining"
    /\ UNCHANGED <<data, locks, files, pc, call, todo, calls>>

(* The requests in flight have ended, or took more than 30 s.  AutoSave   *)
(* hears notify_waiters only if it is waiting.                             *)
Drained ==
    /\ stage = "draining"
    /\ (\A t \in Requests : pc[t] = "idle") \/ "request" \in Slow
    /\ stage' = "stopping"
    /\ pc' = IF pc[AutoSave] = "idle" THEN [pc EXCEPT ![AutoSave] = "stopped"] ELSE pc
    /\ UNCHANGED <<data, locks, files, call, todo, calls>>

(* Mutant of FinalSave: main does not wait for the auto-save task. *)
FinalSaveAtOnce ==
    /\ stage = "stopping"
    /\ stage' = "saving"
    /\ call' = [call EXCEPT ![Main].op = "final"]
    /\ todo' = [todo EXCEPT ![Main] = Names]
    /\ Goto(Main, "loop")
    /\ UNCHANGED <<data, locks, files, calls>>

(* Mutant of FinalSave: main waits for the auto-save task without limit. *)
FinalSaveNoTimeout ==
    /\ stage = "stopping"
    /\ pc[AutoSave] = "stopped"
    /\ stage' = "saving"
    /\ call' = [call EXCEPT ![Main].op = "final"]
    /\ todo' = [todo EXCEPT ![Main] = Names]
    /\ Goto(Main, "loop")
    /\ UNCHANGED <<data, locks, files, calls>>

(* AutoSave has stopped, or 10 s have passed. *)
FinalSave ==
    /\ stage = "stopping"
    /\ pc[AutoSave] \in {"stopped", "idle"} \/ "save" \in Slow
    /\ stage' = "saving"
    /\ call' = [call EXCEPT ![Main].op = "final"]
    /\ todo' = [todo EXCEPT ![Main] = Names]
    /\ Goto(Main, "loop")
    /\ UNCHANGED <<data, locks, files, calls>>

-----------------------------------------------------------------------------
SaveStep(t) ==
    \/ \E n \in Names : PassOver(t, n) \/ VisitToSave(t, n)
    \/ ReadLock(t) \/ WriteTmp(t)
    \/ RenameInLoop(t) \/ RenameInRequest(t) \/ RenameFails(t) \/ SaveFails(t)
    \/ EndLoop(t)

RequestStep(t) ==
    \/ Insert(t) \/ RemoveDir(t) \/ Apply(t) \/ Reply(t)
    \/ SetRetention(t) \/ MarkClean(t)

Request(t) ==
    \/ \E n \in Names : \/ BeginCreate(t, n) \/ BeginDelete(t, n)
                        \/ BeginUpsert(t, n) \/ BeginPatch(t, n)
    \/ BeginSave(t)

AutoStep == SaveStep(AutoSave) \/ \E n \in Names : TrySave(n)

Next ==
    \/ \E t \in Requests \cup Streams : Request(t) \/ RequestStep(t) \/ SaveStep(t)
    \/ Tick \/ AutoStep
    \/ Signal \/ Drained \/ FinalSave \/ SaveStep(Main)

Spec == Init /\ [][Next]_vars

(* A handler runs until it returns, the timer ticks, and the shutdown,     *)
(* once signalled, goes on; that requests or a signal arrive is not        *)
(* assumed.                                                                *)
Fairness ==
    /\ \A t \in Requests \cup Streams : WF_vars(RequestStep(t) \/ SaveStep(t))
    /\ WF_vars(Tick) /\ WF_vars(AutoStep)
    /\ WF_vars(Drained) /\ WF_vars(FinalSave) /\ WF_vars(SaveStep(Main))

FairSpec == Spec /\ Fairness

-----------------------------------------------------------------------------
(***************************************************************************)
(* Properties                                                              *)
(***************************************************************************)
TypeOK ==
    /\ registry \in [Names -> Arcs \cup {Nil}]
    /\ born \in {0} \cup Arcs
    /\ mem \in [Arcs -> Versions]
    /\ dirty \in [Arcs -> BOOLEAN]
    /\ acked \in [Arcs -> Versions]
    /\ refs \in [Names -> SUBSET Tasks]
    /\ readers \in [Arcs -> SUBSET Tasks]
    /\ tmp \in [Names -> Snapshots \cup {Nil, Broken}]
    /\ disk \in [Names -> Snapshots \cup {Nil, Broken}]
    /\ todo \in [Tasks -> SUBSET Names]
    /\ calls \in 0..MaxCalls
    /\ stage \in {"serving", "draining", "stopping", "saving", "exited", "failed"}

Holds(name, version) ==
    disk[name] \in Snapshots /\ disk[name].arc = registry[name] /\ disk[name].ver >= version

(* A save that failed leaves a collection dirty if it was, and broken      *)
(* files even if it was not: save_all_collections saves clean ones too.    *)
BrokenFor(name) == disk[name] = Broken

(* A collection nobody is saving is what its files hold, unless it is      *)
(* marked dirty: the flag is the only thing that makes save_dirty_         *)
(* collections write it again.  A save that failed loses no mark; it may   *)
(* leave broken files.                                                     *)
CleanIsSaved ==
    \A n \in Names :
       Up(n) /\ ~dirty[registry[n]]
       /\ (\A t \in Tasks : call[t].arc = registry[n] => pc[t] \in {"apply", "reply"})
       => Holds(n, mem[registry[n]]) \/ BrokenFor(n)

(* What requests were told of is saved, again and again, unless its        *)
(* collection is deleted or the server exits first (auto-save), or saves   *)
(* fail again and again: one that does ends the loop for the collections   *)
(* behind it too.  After failures that come to an end only a clean         *)
(* collection may have broken files for good.                              *)
AckedIsSaved ==
    \A n \in Names :
       \/ []<>(\/ Exited
               \/ Up(n) => \/ Holds(n, acked[registry[n]])
                           \/ BrokenFor(n) /\ ~dirty[registry[n]])
       \/ []<><<\E t \in Tasks : SaveFails(t)>>_vars

(* The snapshot of a collection is never replaced by an older one of the   *)
(* same collection, whoever saves it, and whichever saves fail.            *)
SnapshotsAdvance ==
    [][\A n \in Names :
          disk[n] \in Snapshots /\ disk'[n] \in Snapshots /\ disk'[n].arc = disk[n].arc
          => disk'[n].ver >= disk[n].ver]_disk

(* Every request is answered: no handler waits for ever for a collection   *)
(* or for its entry in the map.                                            *)
RequestsEnd == \A t \in Requests : pc[t] # "idle" ~> (pc[t] = "idle" \/ Exited)

(* A deleted collection leaves no files, once nobody is at work on them    *)
(* (delete_collection: map first, directory next).                         *)
NoGhost ==
    \A n \in Names :
       ~Up(n) /\ (\A t \in Tasks : call[t].name = n => pc[t] \in {"apply", "reply"})
       => disk[n] = Nil

(* So it is, and the variables keep their types.                           *)
ServerInv == TypeOK /\ NoGhost

(* A server that has exited after a last save without an error has saved   *)
(* what it acknowledged, whichever saves before failed.                    *)
ExitSaves == stage = "exited" => \A n \in Names : Up(n) => Holds(n, acked[registry[n]])

(* A signalled server exits (drain, notify, join, save).                   *)
Exits == stage = "draining" ~> Exited
=============================================================================
