--------------------------- MODULE CollectionStore ---------------------------
(***************************************************************************)
(* One collection of VectorDB (crates/core/src/lib.rs), with its           *)
(* write-ahead log (wal.rs) and its snapshot files (storage.rs), under     *)
(* crashes of the process and I/O errors.                                  *)
(*                                                                         *)
(* Every operation takes &mut self, so one runs at a time; its steps are   *)
(* separated wherever the process may die or an I/O call may fail between  *)
(* them.  pc names the step the process is about to take:                  *)
(*                                                                         *)
(*   down                      no process                                  *)
(*   idle                      no operation in progress                    *)
(*   log, apply, done          an upsert or a delete: append each entry,   *)
(*                             change the memory, return Ok                *)
(*   config, points, checksum, FileStorage::save_collection, file by file  *)
(*   index                     (temporary file and rename)                 *)
(*   truncate                  Wal::truncate_after_snapshot                *)
(*   drop                      remove_dir_all of the collection            *)
(*                                                                         *)
(* why says on whose behalf a snapshot is written: op, create or recover.  *)
(***************************************************************************)
EXTENDS LogReplay

CONSTANTS
    NoFile,       \* the points file does not exist
    Unknown,      \* the client cannot know a point's value
    Threshold,    \* snapshot_threshold (1000 in the code)
    Cap,          \* MAX_WAL_OPS_BEFORE_BACKPRESSURE (10000 in the code)
    TornKinds,    \* how an append cut short may leave the end of the log
    CrashPoints,  \* the steps before which the process may be killed
    FailPoints,   \* the steps whose I/O may fail
    MaxBatch,     \* bound: points of one call
    MaxLog        \* bound: a call begins only if its entries keep the log,
                  \* with what is buffered for it, within this length

(***************************************************************************)
(* The end of wal.log after an append was cut short:                       *)
(*   line   a JSONL line without its end: not an entry, but counted as one *)
(*   bytes  a JSONL line cut inside a character, or a compressed frame cut *)
(*          inside its length: replay stops there, and it is not counted   *)
(*   frame  a compressed frame cut inside its payload: reading it fails    *)
(* A JSONL log can show the first two, the first only if all text is       *)
(* ASCII; a log with wal_compression the last two.                         *)
(***************************************************************************)
Tears == {"line", "bytes", "frame"}

SaveSteps == {"config", "points", "checksum", "index", "truncate"}
Steps == {"idle", "log", "apply", "done", "drop"} \cup SaveSteps
IOSteps == {"append", "tear", "create", "load"} \cup SaveSteps

ASSUME CollectionStoreAssumption ==
    /\ Threshold \in Nat \ {0}
    /\ Cap \in Nat
    /\ MaxBatch \in Nat
    /\ MaxLog \in Nat
    /\ TornKinds \subseteq Tears
    /\ NoFile \notin Maps
    /\ Unknown \notin PointOrNone
    /\ CrashPoints \subseteq Steps
    /\ FailPoints \subseteq IOSteps

VARIABLES
    pc, why,
    open,    \* the collection is in the map of collections
    mem,     \* its points in memory
    batch,   \* the entries of the call in progress
    logged,  \* how many of them are in the log
    ops,     \* ops_since_snapshot
    writer,  \* the log's writer: open, closed (None), or missing from wals
    stuck,   \* entries a failed flush left in the BufWriter
    config,  \* config.json exists
    points,  \* the points file, as a map
    sum,     \* checksum.md5: none, or whether it is the points file's
    wal,     \* the entries of wal.log, as far as replay reads it
    skipped, \* the lines between them that replay skips
    torn,    \* how they end: in one of Tears, or whole ("no")
    acked    \* what the client knows of each point

memory == <<open, mem, ops, writer, stuck>>
snapshot == <<config, points, sum>>
logFile == <<wal, skipped, torn>>
files == <<config, points, sum, wal, skipped, torn>>
vars == <<pc, why, memory, batch, logged, files, acked>>

-----------------------------------------------------------------------------
PointsOnDisk == IF points = NoFile THEN EmptyMap ELSE points

(* Mutant of Stable: recovery forgets to replay the log. *)
StableUnreplayed == PointsOnDisk

(* What recover_collection would load, were the files readable. *)
Stable == IF config THEN Overlay(PointsOnDisk, wal, Len(wal)) ELSE EmptyMap

(* load_collection refuses a points file that does not match its checksum, *)
(* and read_entries fails at a frame cut inside its payload.               *)
Readable == sum # "stale" /\ torn # "frame"

(* Wal::count_entries. *)
LogCount == Len(wal) + skipped + (IF torn = "line" THEN 1 ELSE 0)

(***************************************************************************)
(* wal.log when entries are written, and behind them an entry is cut short *)
(* as tear says.  What is written after a torn line shares its line and is *)
(* skipped with it; nothing behind torn bytes is ever read, and behind a   *)
(* torn length it may be taken for a payload too short.                    *)
(***************************************************************************)
Write(entries, tear) ==
    \/ /\ torn = "no"
       /\ wal' = wal \o entries /\ torn' = tear
       /\ UNCHANGED skipped
    \/ /\ torn = "line" /\ entries # <<>>
       /\ wal' = wal \o Tail(entries) /\ skipped' = skipped + 1
       /\ torn' = tear
    \/ /\ torn = "line" /\ entries = <<>>
       /\ torn' = IF tear = "no" THEN "line" ELSE tear
       /\ UNCHANGED <<wal, skipped>>
    \/ /\ torn \in {"bytes", "frame"}
       /\ torn' \in IF entries = <<>> /\ tear = "no" THEN {torn}
                    ELSE {"bytes"} \cup (TornKinds \cap {"frame"})
       /\ UNCHANGED <<wal, skipped>>

(* Mutant of Flush: Ok is returned with the entry still in the BufWriter. *)
FlushSkipped(entries) == UNCHANGED logFile

Flush(entries) == Write(entries, "no")

(* Some of entries reach the file, and perhaps a part of the next. *)
PartWritten(entries) ==
    \E n \in 0..Len(entries) :
        \E tear \in {"no"} \cup (IF n < Len(entries) THEN TornKinds ELSE {}) :
            Write(SubSeq(entries, 1, n), tear)

(* What the process may be handing to the file: the BufWriter's content,   *)
(* and the entry it is appending.                                          *)
InFlight ==
    stuck \o (IF pc = "log" /\ writer = "open" /\ ops < Cap
              THEN <<batch[logged + 1]>> ELSE <<>>)

EmptyLog == wal' = <<>> /\ skipped' = 0 /\ torn' = "no"

BatchIds == {batch[i].id : i \in 1..Len(batch)}

(* insert_point is called in order until one vector is refused. *)
Accepted == {n \in 0..Len(batch) :
                /\ \A i \in 1..n : batch[i].val \notin Refused
                /\ n < Len(batch) => batch[n + 1].val \in Refused}

Init ==
    /\ pc = "down" /\ why = "op"
    /\ open = FALSE /\ mem = EmptyMap
    /\ batch = <<>> /\ logged = 0
    /\ ops = 0 /\ writer = "missing" /\ stuck = <<>>
    /\ config = FALSE /\ points = NoFile /\ sum = "none"
    /\ wal = <<>> /\ skipped = 0 /\ torn = "no"
    /\ acked = EmptyMap

-----------------------------------------------------------------------------
(* Starting and stopping the process *)

(* load_collections_from_disk finds no collection here: there is no        *)
(* config.json, or recover_collection failed and the directory is skipped  *)
(* with a warning.                                                         *)
StartWithout ==
    /\ pc = "down"
    /\ ~config \/ ~Readable \/ "load" \in FailPoints
    /\ pc' = "idle"
    /\ UNCHANGED <<why, memory, batch, logged, files, acked>>

(* The collection is recovered, and consolidated by a snapshot and a       *)
(* truncation if its log was not empty.                                    *)
StartWith ==
    /\ pc = "down"
    /\ config /\ Readable
    /\ open' = TRUE
    /\ mem' = Stable
    /\ ops' = LogCount
    /\ writer' = "open"
    /\ why' = "recover"
    /\ pc' = IF LogCount > 0 THEN "config" ELSE "idle"
    /\ UNCHANGED <<stuck, batch, logged, files, acked>>

Stopped ==
    /\ pc' = "down"
    /\ open' = FALSE /\ mem' = EmptyMap
    /\ batch' = <<>> /\ logged' = 0
    /\ ops' = 0 /\ writer' = "missing" /\ stuck' = <<>>
    /\ UNCHANGED <<why, acked>>

(* The process is killed, perhaps while it writes the log. *)
Crash ==
    /\ pc \in CrashPoints /\ pc # "drop"
    /\ Stopped
    /\ PartWritten(InFlight)
    /\ UNCHANGED snapshot

(* The process is killed with the directory half removed. *)
CrashInDrop ==
    /\ pc = "drop" /\ pc \in CrashPoints
    /\ Stopped
    /\ config' \in {config, FALSE}
    /\ UNCHANGED logFile \/ EmptyLog
    /\ points' \in {points, NoFile}
    /\ sum' \in {sum, "none"}

(* The engine is dropped: the log's BufWriter flushes what it holds, as    *)
(* far as the disk takes it.                                               *)
Shutdown ==
    /\ pc = "idle"
    /\ Stopped
    /\ PartWritten(stuck)
    /\ UNCHANGED snapshot

-----------------------------------------------------------------------------
(* create_collection and delete_collection *)

(* The collection enters the map before its log is opened.  A log that     *)
(* cannot be opened, or read to be counted, ends the call with an error    *)
(* and leaves the collection without one.                                  *)
Create ==
    /\ pc = "idle" /\ ~open
    /\ open' = TRUE
    /\ mem' = EmptyMap
    /\ acked' = EmptyMap
    /\ \/ /\ torn # "frame"
          /\ writer' = "open"
          /\ ops' = LogCount
          /\ why' = "create"
          /\ pc' = "config"
       \/ /\ torn = "frame" \/ "create" \in FailPoints
          /\ UNCHANGED <<pc, why, writer, ops>>
    /\ UNCHANGED <<stuck, batch, logged, files>>

Delete ==
    /\ pc = "idle" /\ open
    /\ pc' = "drop"
    /\ acked' = [id \in Ids |-> Unknown]
    /\ UNCHANGED <<why, memory, batch, logged, files>>

(* Mutant of Removed: wal.log is left in the directory. *)
RemovedButLog ==
    /\ pc = "drop"
    /\ pc' = "idle"
    /\ config' = FALSE /\ points' = NoFile /\ sum' = "none"
    /\ open' = FALSE /\ mem' = EmptyMap
    /\ ops' = 0 /\ writer' = "missing" /\ stuck' = <<>>
    /\ acked' = EmptyMap
    /\ UNCHANGED <<why, batch, logged, logFile>>

Removed ==
    /\ pc = "drop"
    /\ pc' = "idle"
    /\ config' = FALSE /\ points' = NoFile /\ sum' = "none"
    /\ EmptyLog
    /\ open' = FALSE /\ mem' = EmptyMap
    /\ ops' = 0 /\ writer' = "missing" /\ stuck' = <<>>
    /\ acked' = EmptyMap
    /\ UNCHANGED <<why, batch, logged>>

-----------------------------------------------------------------------------
(* upsert_points and delete_points *)

Begin(entries) ==
    /\ pc = "idle" /\ open
    /\ Len(wal) + skipped + Len(stuck) + Len(entries) <= MaxLog
    /\ batch' = entries
    /\ logged' = 0
    /\ acked' = [id \in Ids |-> IF \E i \in 1..Len(entries) : entries[i].id = id
                                THEN Unknown ELSE acked[id]]
    /\ pc' = IF writer = "missing" \/ entries = <<>> THEN "apply" ELSE "log"
    /\ UNCHANGED <<why, memory, files>>

BeginUpsert == \E n \in 0..MaxBatch :
                  \E entries \in [1..n -> [id : Ids, val : Vals]] : Begin(entries)

BeginDelete == \E n \in 0..MaxBatch :
                  \E entries \in [1..n -> [id : Ids, val : {None}]] : Begin(entries)

EndCall == pc' = "idle" /\ batch' = <<>> /\ logged' = 0

(* append_upsert, append_delete. *)
LogEntry ==
    /\ pc = "log"
    /\ writer = "open" /\ ops < Cap
    /\ Flush(stuck \o <<batch[logged + 1]>>)
    /\ stuck' = <<>>
    /\ ops' = ops + 1
    /\ logged' = logged + 1
    /\ pc' = IF logged + 1 = Len(batch) THEN "apply" ELSE "log"
    /\ UNCHANGED <<why, open, mem, writer, batch, snapshot, acked>>

(* Mutant of LogEntryFails: its error is dropped, the call goes on. *)
LogEntryFailsUnseen ==
    /\ pc = "log" /\ "append" \in FailPoints
    /\ writer = "open" /\ ops < Cap
    /\ stuck' = stuck \o <<batch[logged + 1]>>
    /\ logged' = logged + 1
    /\ pc' = IF logged + 1 = Len(batch) THEN "apply" ELSE "log"
    /\ UNCHANGED <<why, open, mem, ops, writer, batch, files, acked>>

(***************************************************************************)
(* The append fails.  Nothing of the call has reached the memory; of its   *)
(* entry                                                                   *)
(*   all is left in the BufWriter, behind what was stuck there before;     *)
(*   all is in the file, but not synced;                                   *)
(*   nothing is left: it was too large for the room in the BufWriter, which *)
(*   could not be emptied, or for the whole of it (8 KiB) and was not      *)
(*   taken by the file; or                                                 *)
(*   part is in the file ("tear"): it was too large for the BufWriter and  *)
(*   was taken by the file in part.  The process lives on, and the next    *)
(*   entry is appended to that part.  An entry that fills the BufWriter to *)
(*   the last byte and loses its newline ends the same way.                *)
(***************************************************************************)
LogEntryFails ==
    /\ pc = "log" /\ writer = "open" /\ ops < Cap
    /\ \/ /\ "append" \in FailPoints
          /\ stuck' \in {stuck, stuck \o <<batch[logged + 1]>>}
          /\ UNCHANGED logFile
       \/ /\ "append" \in FailPoints
          /\ stuck' = <<>>
          /\ Flush(stuck) \/ Flush(stuck \o <<batch[logged + 1]>>)
       \/ /\ "tear" \in FailPoints
          /\ stuck' = <<>>
          /\ \E tear \in TornKinds : Write(stuck, tear)
    /\ EndCall
    /\ UNCHANGED <<why, open, mem, ops, writer, snapshot, acked>>

(* Backpressure, or a writer a failed truncation has closed. *)
LogEntryRefused ==
    /\ pc = "log"
    /\ writer = "closed" \/ ops >= Cap
    /\ EndCall
    /\ UNCHANGED <<why, memory, files, acked>>

(* Mutant of NextAfterApply: the log is truncated before the snapshot. *)
TruncateFirst ==
    IF writer # "missing" /\ ops >= Threshold
    THEN pc' = "truncate" /\ why' = "op"
    ELSE pc' = "done" /\ UNCHANGED why

NextAfterApply ==
    IF writer # "missing" /\ ops >= Threshold
    THEN pc' = "config" /\ why' = "op"
    ELSE pc' = "done" /\ UNCHANGED why

(* A refused vector ends the call with an error, the points before it in   *)
(* place and the snapshot not considered.                                  *)
ApplyUpsert ==
    /\ pc = "apply"
    /\ \A i \in 1..Len(batch) : batch[i].val # None
    /\ \E n \in Accepted :
          /\ mem' = Overlay(mem, batch, n)
          /\ IF n = Len(batch)
             THEN NextAfterApply /\ UNCHANGED <<batch, logged>>
             ELSE EndCall /\ UNCHANGED why
    /\ UNCHANGED <<open, ops, writer, stuck, files, acked>>

(* PointNotFound is returned when no id was present, the snapshot again    *)
(* not considered; it tells the client as much as Ok does.                 *)
ApplyDelete ==
    /\ pc = "apply"
    /\ \A i \in 1..Len(batch) : batch[i].val = None
    /\ mem' = Overlay(mem, batch, Len(batch))
    /\ IF batch # <<>> /\ \A id \in BatchIds : mem[id] = None
       THEN pc' = "done" /\ UNCHANGED why
       ELSE NextAfterApply
    /\ UNCHANGED <<batch, logged, open, ops, writer, stuck, files, acked>>

Reply ==
    /\ pc = "done"
    /\ acked' = Overlay(acked, batch, Len(batch))
    /\ EndCall
    /\ UNCHANGED <<why, memory, files>>

-----------------------------------------------------------------------------
(* FileStorage::save_collection and Wal::truncate_after_snapshot *)

SaveConfig ==
    /\ pc = "config"
    /\ config' = TRUE
    /\ pc' = "points"
    /\ UNCHANGED <<why, memory, batch, logged, points, sum, logFile, acked>>

(* The order of the points in the file is that of a HashMap: equal maps    *)
(* may give different bytes.                                               *)
SavePoints ==
    /\ pc = "points"
    /\ points' = mem
    /\ sum' \in IF sum = "none" THEN {"none"}
                ELSE IF points = mem THEN {sum, "stale"} ELSE {"stale"}
    /\ pc' = "checksum"
    /\ UNCHANGED <<why, memory, batch, logged, config, logFile, acked>>

(* Mutant of SaveChecksum: written only if there is none. *)
ChecksumKept ==
    /\ pc = "checksum"
    /\ sum' = IF sum = "none" THEN "match" ELSE sum
    /\ pc' = "index"
    /\ UNCHANGED <<why, memory, batch, logged, config, points, logFile, acked>>

SaveChecksum ==
    /\ pc = "checksum"
    /\ sum' = "match"
    /\ pc' = "index"
    /\ UNCHANGED <<why, memory, batch, logged, config, points, logFile, acked>>

(* index.bin is never needed to load. *)
SaveIndex ==
    /\ pc = "index"
    /\ pc' = IF why = "create" THEN "idle" ELSE "truncate"
    /\ UNCHANGED <<why, memory, batch, logged, files, acked>>

(* A closed writer is open again. *)
Truncate ==
    /\ pc = "truncate"
    /\ EmptyLog
    /\ writer' = "open" /\ stuck' = <<>>
    /\ ops' = 0
    /\ pc' = IF why = "op" THEN "done" ELSE "idle"
    /\ UNCHANGED <<why, open, mem, batch, logged, snapshot, acked>>

(* A file cannot be written (or the circuit breaker is open): the call     *)
(* returns an error with its points in memory and in the log.  At recovery *)
(* the whole engine fails to start.                                        *)
SaveFails ==
    /\ pc \in SaveSteps \cap FailPoints
    /\ why = "create" => "create" \in FailPoints
    /\ IF pc = "truncate" THEN PartWritten(stuck) \/ EmptyLog ELSE UNCHANGED logFile
    /\ UNCHANGED snapshot
    /\ IF why = "recover"
       THEN Stopped
       ELSE /\ EndCall
            /\ IF pc = "truncate"
               THEN writer' = "closed" /\ stuck' = <<>>
               ELSE UNCHANGED <<writer, stuck>>
            /\ UNCHANGED <<why, open, mem, ops, acked>>

-----------------------------------------------------------------------------
Next ==
    \/ StartWithout \/ StartWith
    \/ Crash \/ CrashInDrop \/ Shutdown
    \/ Create \/ Delete \/ Removed
    \/ BeginUpsert \/ BeginDelete
    \/ LogEntry \/ LogEntryFails \/ LogEntryRefused
    \/ ApplyUpsert \/ ApplyDelete \/ Reply
    \/ SaveConfig \/ SavePoints \/ SaveChecksum \/ SaveIndex \/ Truncate
    \/ SaveFails

Spec == Init /\ [][Next]_vars

-----------------------------------------------------------------------------
(***************************************************************************)
(* Properties                                                              *)
(***************************************************************************)
TypeOK ==
    /\ pc \in Steps \cup {"down"}
    /\ why \in {"op", "create", "recover"}
    /\ open \in BOOLEAN
    /\ mem \in Maps
    /\ batch \in Seq(Entry)
    /\ logged \in Nat
    /\ ops \in Nat
    /\ writer \in {"open", "closed", "missing"}
    /\ stuck \in Seq(Entry)
    /\ config \in BOOLEAN
    /\ points \in Maps \cup {NoFile}
    /\ sum \in {"none", "match", "stale"}
    /\ wal \in Seq(Entry)
    /\ skipped \in Nat
    /\ torn \in {"no"} \cup Tears
    /\ acked \in [Ids -> PointOrNone \cup {Unknown}]

(* Whatever snapshot or recovery is under way, and whichever calls failed  *)
(* before without leaving part of an entry in the log, a restart from the  *)
(* files as they are gives each point the value last acknowledged          *)
(* (upsert_points, delete_points, recover_collection).                     *)
AckedSurvives == \A id \in Ids : acked[id] # Unknown => Stable[id] = acked[id]

(* A point reads back as it was last acknowledged, across failed calls,    *)
(* restarts and consolidations.                                            *)
AckedVisible == open => \A id \in Ids : acked[id] # Unknown => mem[id] = acked[id]

(* "Antes de modificar uma colecao em memoria, a operacao e registrada no  *)
(* WAL": no value becomes visible that is not in the log.                  *)
WriteAhead ==
    [][open /\ open' => \A id \in Ids :
          mem'[id] # mem[id] =>
             \E i \in 1..Len(wal) : wal[i] = [id |-> id, val |-> mem'[id]]]_vars

(* The log loses entries only once the snapshot, checksum included, holds  *)
(* what is in memory (save_collection before truncate_after_snapshot), or  *)
(* with the whole collection.                                              *)
LogOutlivesSnapshot ==
    [][Len(wal') < Len(wal) => \/ pc = "truncate" /\ points = mem /\ sum = "match"
                               \/ pc = "drop"]_vars

(* Whenever the process dies but between the renames of the points and of  *)
(* their checksum, recover_collection can load what it left.               *)
StartsReadable == pc = "down" => Readable
=============================================================================
