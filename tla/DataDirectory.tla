---------------------------- MODULE DataDirectory ----------------------------
(***************************************************************************)
(* The directory of one collection over its life: the programs that use it *)
(* one after the other, the embedded engine (crates/core/src/lib.rs) and   *)
(* the server (crates/server), and what each leaves in it.  The engine     *)
(* logs every write; the server never writes the log: its gRPC handlers    *)
(* change the memory, saves write snapshots, and only point-in-time        *)
(* recovery and the retention worker read the log.                         *)
(*                                                                         *)
(* CollectionStore has the engine's I/O step by step, and ServerState the  *)
(* server's locks and dirty flag; here an append and a truncation are one  *)
(* step, a save one step per file, and a batch is one point.               *)
(*                                                                         *)
(* Left out, and named in the guards: two saves at a time (they share      *)
(* their temporary files), a start with another layout than before, and a  *)
(* start without binary snapshots after one with them.                     *)
(***************************************************************************)
EXTENDS CollectionFiles

CONSTANTS
    Retentions,  \* the values of retention_days, in units of the clock
    NoLimit,     \* retention_days is None
    Threshold,   \* DEFAULT_SNAPSHOT_THRESHOLD
    Idle,        \* nothing to finish
    LastSecond,  \* bound: seconds that pass
    Workloads,   \* bound: the sets of calls that are made together ("refused":
                 \* with points that the index refuses), each with the options
                 \* a program may be started with, and how many calls, seconds
                 \* and starts there are
    MaxFailures  \* bound: files that cannot be written

ASSUME DataDirectoryAssumption ==
    /\ Retentions \subseteq Nat \cup {NoLimit}
    /\ NoFile \notin Retentions \cup {NoLimit}
    /\ Idle \notin {"truncate", "clean", "restored"}
    /\ {Threshold, LastSecond} \subseteq Nat \ {0}
    /\ MaxFailures \in Nat
    /\ \A w \in Workloads :
          /\ w.options \subseteq [binary : BOOLEAN, isolated : BOOLEAN, compress : BOOLEAN]
          /\ {w.ops, w.starts} \subseteq Nat /\ w.seconds \in 1..LastSecond

Seconds == 1..LastSecond

VARIABLES
    now,        \* unix_now()
    dir, log,   \* the files
    program,    \* "none", "engine" or "server"
    options,    \* what it was started with (or the last one was)
    points,     \* the collection in memory, or NoCollection
    retention,  \* its retention_days
    since,      \* ops_since_snapshot of the engine's log
    todo,       \* the writes left of a save
    after,      \* what they are for: Idle, "truncate", "clean", "restored"
    restore,    \* of a restore: <<>>, or <<map, retention>> as it has read them
    past,       \* ghost: what clients saw at the end of each second
    kept,       \* ghost: what the directory must give back
    lapses,     \* ghost: what has happened that the code does not survive
    load,       \* which of the workloads
    ops, starts, failures

files == <<dir, log>>
saving == <<todo, after>>
ghosts == <<past, kept, lapses>>
bounds == <<load, ops, starts, failures>>
dirVars == <<now, files, program, options, points, retention, since, saving, restore, ghosts, bounds>>

DirInit ==
    /\ now = 1
    /\ log = NoLog
    /\ load \in Workloads /\ options \in load.options
    /\ \E old \in BOOLEAN : \* a directory older than last_snapshot_timestamp
          dir = IF ~old THEN NoDirectory ELSE
                    [NoDirectory EXCEPT !.config = NoLimit,
                                        !.at[Root].jsonl = EmptyMap,
                                        !.at[Root].sum = <<"jsonl", EmptyMap>>]
    /\ program = "none" /\ points = NoCollection /\ retention = NoLimit
    /\ since = 0 /\ todo = <<>> /\ after = Idle /\ restore = <<>>
    /\ kept = Recovered(dir, log)
    /\ past = [t \in Seconds |-> kept]
    /\ lapses = {}
    /\ ops = 0 /\ starts = 0 /\ failures = 0

-----------------------------------------------------------------------------
(***************************************************************************)
(* What the code does not survive, and the properties excuse:              *)
(*                                                                         *)
(*   torn       a save cut off between a points file and its checksum      *)
(*   half       a save cut off after last_snapshot_timestamp: recovery to  *)
(*              a time leaves out entries that no snapshot has             *)
(*   second     a write in the second of the snapshot, after it            *)
(*   emptied    a save of a namespace without points: its old file stays   *)
(*   mixed      a save of a server, or of a new collection, beside entries *)
(*              that an engine has left in the log                         *)
(*   undone     a restore cut off before it has truncated the log          *)
(*   compacted  entries the retention worker removed                       *)
(*   encoding   an entry appended to a log of the other encoding           *)
(***************************************************************************)
SavedLapses(d) ==
    (lapses \ {"torn", "half", "second", "emptied"})
    \cup (IF options.isolated /\ \E n \in Namespaces : /\ PartOf(points, n, TRUE) = EmptyMap
                                                       /\ PointsIn(d.at[n]) # EmptyMap
          THEN {"emptied"} ELSE {})

SavingLapses ==
    lapses
    \cup (IF ReadEntries(log) # <<>> /\ (program = "server" \/ points = NoCollection)
          THEN {"mixed"} ELSE {})

CutLapses ==
    lapses
    \cup (IF todo # <<>> /\ Head(todo).file = "sum" /\ ~Loads(dir) THEN {"torn"} ELSE {})
    \cup (IF todo # <<>> /\ \A i \in DOMAIN todo : todo[i].file # "stamp" THEN {"half"} ELSE {})
    \cup (IF after = "restored" THEN {"undone"} ELSE {})

SameSecond(entries) == now = dir.stamp \/ \E i \in DOMAIN entries : entries[i].ts = now

(* What clients see from now on. *)
Seen(map) == past' = [t \in Seconds |-> IF t >= now THEN map ELSE past[t]]

-----------------------------------------------------------------------------
Tick ==
    /\ now < load.seconds
    /\ now' = now + 1
    /\ UNCHANGED <<files, program, options, points, retention, since, saving, restore, ghosts, bounds>>

Call(name) == name \in load.calls /\ ops < load.ops /\ ops' = ops + 1

ServerCall(name) == program = "server" /\ Call(name)

Tried(val) == val \in Refused => "refused" \in load.calls

Saving == todo # <<>> \/ after # Idle

(* A save starts: the lock is held, or it is &self, until it ends. *)
StartSave(map, days, what) ==
    \E order \in Orders(map, options.isolated) :
        /\ todo' = SaveWrites(map, days, options, order)
        /\ after' = what

WriteFile ==
    /\ todo # <<>>
    /\ dir' = Put(dir, Head(todo), now)
    /\ todo' = Tail(todo)
    /\ lapses' = IF todo' = <<>> THEN SavedLapses(dir') ELSE lapses
    /\ kept' = IF todo' = <<>> /\ after # "restored" THEN points ELSE kept
    /\ after' = IF todo' = <<>> /\ after = "clean" THEN Idle ELSE after
    /\ UNCHANGED <<now, log, program, options, points, retention, since, restore, past, bounds>>

(* A save the server cannot finish is logged, and the collection stays     *)
(* dirty; one of an engine at its start makes the open fail.               *)
WriteFails ==
    /\ todo # <<>> /\ failures < MaxFailures /\ program = "server"
    /\ failures' = failures + 1
    /\ todo' = <<>> /\ after' = Idle
    /\ lapses' = CutLapses
    /\ kept' = IF Loads(dir) THEN Recovered(dir, log) ELSE kept
    /\ UNCHANGED <<now, files, program, options, points, retention, since, restore, past, load, ops, starts>>

(* The process ends.  Of a server's save that was cut off, some files are  *)
(* new and some old.                                                       *)
Stop ==
    /\ program # "none"
    /\ program' = "none"
    /\ points' = NoCollection
    /\ retention' = NoLimit
    /\ since' = 0 /\ todo' = <<>> /\ after' = Idle /\ restore' = <<>>
    /\ lapses' = CutLapses
    /\ kept' = IF Saving /\ Loads(dir) THEN Recovered(dir, log) ELSE kept
    /\ UNCHANGED <<now, files, options, past, bounds>>

-----------------------------------------------------------------------------
(* The engine. *)
MayStart(new) ==
    /\ program = "none" /\ starts < load.starts
    /\ starts' = starts + 1
    /\ new.isolated = options.isolated
    /\ options.binary => new.binary
    /\ options' = new

(* load_collections_from_disk: a directory without a config is no          *)
(* collection, one that does not load is skipped; recovered entries are    *)
(* put into a snapshot, and the log is truncated.                          *)
StartEngine(new) ==
    /\ MayStart(new)
    /\ program' = "engine"
    /\ IF Loads(dir)
       THEN LET map == Recovered(dir, log)
                count == Len(ReadEntries(log))
            IN  /\ points' = map /\ kept' = map /\ Seen(map)
                /\ retention' = dir.config
                /\ log' = OpenLog(log, new.compress)
                /\ since' = count
                /\ IF count = 0 THEN UNCHANGED saving
                   ELSE /\ \E order \in Orders(map, new.isolated) :
                              todo' = SaveWrites(map, dir.config, new, order)
                        /\ after' = "truncate"
       ELSE UNCHANGED <<points, kept, past, retention, log, since, saving>>
    /\ UNCHANGED <<now, dir, restore, lapses, load, ops, failures>>

(* What a directory that did not load still has is written over; not the  *)
(* log.  (retention_days is left to PATCH.)                                *)
EngineCreate ==
    /\ program = "engine" /\ points = NoCollection /\ ~Saving
    /\ Call("create")
    /\ points' = EmptyMap /\ retention' = NoLimit
    /\ log' = OpenLog(log, options.compress)
    /\ since' = Len(ReadEntries(log))
    /\ StartSave(EmptyMap, NoLimit, "clean")
    /\ lapses' = SavingLapses
    /\ Seen(EmptyMap)
    /\ UNCHANGED <<now, dir, program, options, restore, kept, load, starts, failures>>

(* An upsert, or the delete of a point it has: appended, then applied.  An *)
(* upsert that insert refuses stays in the log, and ends the call there.   *)
SnapshotDue(val) == val \notin Refused /\ since + 1 >= Threshold

EngineWrite(id, val) ==
    /\ program = "engine" /\ points # NoCollection /\ ~Saving
    /\ val = None => points[id] # None
    /\ Call("write") /\ Tried(val)
    /\ log' = AppendTo(log, id, val, now, options.compress)
    /\ since' = since + 1
    /\ LET map == Replay(points, <<[id |-> id, val |-> val]>>)
       IN  /\ points' = map /\ kept' = map /\ Seen(map)
           /\ lapses' = (IF SnapshotDue(val) THEN SavingLapses ELSE lapses)
                        \cup (IF now = dir.stamp THEN {"second"} ELSE {})
                        \cup (IF options.compress # log.magic THEN {"encoding"} ELSE {})
           /\ IF SnapshotDue(val) THEN StartSave(map, retention, "truncate")
                                  ELSE UNCHANGED saving
    /\ UNCHANGED <<now, dir, program, options, retention, restore, load, starts, failures>>

Truncate ==
    /\ after = "truncate" /\ todo = <<>>
    /\ log' = TruncatedLog(options.compress)
    /\ since' = 0
    /\ after' = Idle
    /\ lapses' = lapses \cap {"emptied"}
    /\ UNCHANGED <<now, dir, program, options, points, retention, todo, restore, past, kept, bounds>>

-----------------------------------------------------------------------------
(* The server. *)

(* AppState::new: the snapshot only. *)
StartServer(new) ==
    /\ MayStart(new)
    /\ program' = "server"
    /\ IF Loads(dir)
       THEN /\ points' = Loaded(dir)
            /\ retention' = dir.config
            /\ IF ReadEntries(log) = <<>> THEN Seen(Loaded(dir)) ELSE UNCHANGED past
       ELSE UNCHANGED <<points, retention, past>>
    /\ UNCHANGED <<now, files, since, saving, restore, kept, lapses, load, ops, failures>>

Serving == program = "server" /\ points # NoCollection

(* save_dirty_collections, save_all_collections. *)
Save ==
    /\ Serving /\ ~Saving
    /\ StartSave(points, retention, "clean")
    /\ lapses' = SavingLapses
    /\ UNCHANGED <<now, files, program, options, points, retention, since, restore, past, kept, bounds>>

(* A change of the map under the write lock, which a save excludes. *)
Changed(map) ==
    /\ Serving /\ todo = <<>>
    /\ points' = map
    /\ Seen(map)
    /\ lapses' = lapses \cup (IF SameSecond(ReadEntries(log)) THEN {"second"} ELSE {})
    /\ UNCHANGED <<now, files, program, options, retention, since, saving, restore, kept, load, starts, failures>>

(* upsert_points, of one point, which insert_batch may refuse. *)
GrpcUpsert(id, val) ==
    /\ ServerCall("upsert") /\ Tried(val) /\ points # NoCollection
    /\ Changed(Replay(points, <<[id |-> id, val |-> val]>>))

(* do_upsert_points of the MCP server: its own batch, no event, and no     *)
(* look at whether this is a follower.                                     *)
McpUpsert(id, val) ==
    /\ ServerCall("mcp") /\ Tried(val) /\ points # NoCollection
    /\ Changed(Replay(points, <<[id |-> id, val |-> val]>>))

(* do_upsert_sync, the upsert of a stream: the request's namespace is lost. *)
StreamUpsert(id, val) ==
    /\ ServerCall("stream") /\ Tried(val) /\ points # NoCollection
    /\ <<Root, id[2]>> \in Ids
    /\ Changed(Replay(points, <<[id |-> <<Root, id[2]>>, val |-> val]>>))

GrpcDelete(id) ==
    ServerCall("delete") /\ points # NoCollection /\ Changed([points EXCEPT ![id] = None])

(* The collection is in the map before it is saved; what an older one left *)
(* in the directory is written over.                                       *)
GrpcCreate ==
    /\ ServerCall("grpcCreate") /\ points = NoCollection /\ ~Saving
    /\ points' = EmptyMap /\ retention' = NoLimit
    /\ StartSave(EmptyMap, NoLimit, "clean")
    /\ lapses' = SavingLapses
    /\ Seen(EmptyMap)
    /\ UNCHANGED <<now, files, program, options, since, restore, kept, load, starts, failures>>

(* The map's entry is locked while a save runs. *)
GrpcDeleteCollection ==
    /\ ServerCall("drop") /\ Serving /\ todo = <<>>
    /\ points' = NoCollection /\ retention' = NoLimit
    /\ dir' = NoDirectory /\ log' = NoLog
    /\ kept' = NoCollection /\ Seen(NoCollection) /\ lapses' = {}
    /\ UNCHANGED <<now, program, options, since, saving, restore, load, starts, failures>>

(* The config in memory, then a save of everything. *)
PatchRetention(days) ==
    /\ ServerCall("patch") /\ Serving /\ ~Saving
    /\ retention' = days
    /\ StartSave(points, days, "clean")
    /\ lapses' = SavingLapses
    /\ UNCHANGED <<now, files, program, options, points, since, restore, past, kept, load, starts, failures>>

(* run_retention_cycle, which no lock keeps from the log. *)
RetentionCycle ==
    /\ Serving /\ retention # NoLimit
    /\ LET cutoff == IF now > retention THEN now - retention ELSE 0
           shorter == Compacted(log, cutoff, options.compress)
       IN  shorter # log /\ log' = shorter
    /\ lapses' = lapses \cup {"compacted"}
    /\ UNCHANGED <<now, dir, program, options, points, retention, since, saving, restore, past, kept, bounds>>

-----------------------------------------------------------------------------
(* restore_collection_to_timestamp, to any time. *)

(* What a client is offered: a directory without a config is left out.     *)
GetRestorePoints == IF dir.config = NoFile THEN {} ELSE RestorePoints(dir, log)

(* The files are read without a lock; an error ends the call. *)
RestoreRead(target) ==
    /\ ServerCall("restore") /\ Serving /\ restore = <<>>
    /\ Loads(dir)
    /\ restore' = <<RecoveredTo(dir, log, target), dir.config>>
    /\ UNCHANGED <<now, files, program, options, points, retention, since, saving, ghosts, load, starts, failures>>

(* The request names a collection that is there, or means each in turn. *)
RestoreToTimestamp(target) == points # NoCollection /\ RestoreRead(target)

(* The collection is replaced under the write lock, its config too, and    *)
(* then saved under the read lock.                                         *)
RestoreSwap ==
    /\ restore # <<>> /\ Serving /\ ~Saving
    /\ points' = restore[1] /\ retention' = restore[2]
    /\ restore' = <<>>
    /\ Seen(restore[1])
    /\ StartSave(restore[1], restore[2], "restored")
    /\ lapses' = SavingLapses
    /\ UNCHANGED <<now, files, program, options, since, kept, bounds>>

RestoreAborts ==
    /\ restore # <<>> /\ points = NoCollection
    /\ restore' = <<>>
    /\ UNCHANGED <<now, files, program, options, points, retention, since, saving, ghosts, bounds>>

(* The log is opened and truncated with no lock held. *)
RestoreTruncates ==
    /\ after = "restored" /\ todo = <<>>
    /\ log' = TruncatedLog(options.compress)
    /\ after' = Idle
    /\ IF dir.config = NoFile THEN UNCHANGED <<kept, lapses>>
       ELSE /\ kept' = Recovered(dir, log')
            /\ lapses' = lapses \ {"mixed", "undone", "compacted", "encoding"}
    /\ UNCHANGED <<now, dir, program, options, points, retention, since, todo, restore, past, bounds>>

-----------------------------------------------------------------------------
DirNext ==
    \/ Tick \/ WriteFile \/ WriteFails \/ Stop
    \/ \E new \in load.options : StartEngine(new) \/ StartServer(new)
    \/ \E days \in Retentions : PatchRetention(days)
    \/ \E id \in Ids, val \in PointOrNone : EngineWrite(id, val)
    \/ \E id \in Ids, val \in Vals : GrpcUpsert(id, val) \/ StreamUpsert(id, val) \/ McpUpsert(id, val)
    \/ \E id \in Ids : GrpcDelete(id)
    \/ EngineCreate \/ Truncate \/ Save
    \/ GrpcCreate \/ GrpcDeleteCollection \/ RetentionCycle
    \/ \E target \in 0..now : RestoreToTimestamp(target)
    \/ RestoreSwap \/ RestoreAborts \/ RestoreTruncates

-----------------------------------------------------------------------------
(***************************************************************************)
(* Whatever is started on the directory after a kill, at any step, finds   *)
(* what it must give back: all that an engine acknowledged and, of a       *)
(* server, what the last save that ended wrote; while a save runs, of each *)
(* point that or what is being saved.                                      *)
(***************************************************************************)
Spared == {"torn", "mixed", "undone", "compacted", "emptied", "encoding"}

BetweenFileAndSum == todo # <<>> /\ Head(todo).file = "sum"

Recoverable ==
    lapses \cap Spared = {} /\ ~BetweenFileAndSum /\ after # "restored" =>
        IF dir.config = NoFile THEN kept = NoCollection
        ELSE /\ Loads(dir)
             /\ LET promised == IF kept = NoCollection THEN EmptyMap ELSE kept
                IN  \A id \in Ids : \/ Recovered(dir, log)[id] = promised[id]
                                    \/ (todo # <<>> /\ Recovered(dir, log)[id] = points[id])

(***************************************************************************)
(* Point-in-time recovery: to each of the restore points that are offered, *)
(* the snapshot's second or a later one, it recovers what clients saw at   *)
(* the end of that second.                                                 *)
(***************************************************************************)
RestoresPast ==
    todo = <<>> /\ lapses = {} =>
        \A t \in GetRestorePoints :
            t >= dir.stamp /\ t # 0 => RecoveredTo(dir, log, t) = past[t]
=============================================================================
