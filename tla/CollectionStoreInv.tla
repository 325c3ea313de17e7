------------------------- MODULE CollectionStoreInv --------------------------
(***************************************************************************)
(* The inductive invariant behind the properties of CollectionStore, for   *)
(* the faults under which they hold.                                       *)
(***************************************************************************)
EXTENDS CollectionStoreRefinement

(***************************************************************************)
(* The faults the code survives: crashes and failing writes at every step  *)
(* but between the renames of the points file and of its checksum, and in  *)
(* the middle of the removal of the directory; a new collection's first    *)
(* snapshot and log, and the reading of the files at a start, do not fail; *)
(* a failing append leaves nothing or a whole entry behind, never a part   *)
(* to which the next, acknowledged, entry would be glued; and an append    *)
(* cut short by a crash leaves no more than a line of text without its end *)
(* (no compression, ASCII text).                                           *)
(***************************************************************************)
SafeFaults ==
    /\ CrashPoints \cap {"checksum", "drop"} = {}
    /\ FailPoints \cap {"checksum", "create", "load", "tear"} = {}
    /\ TornKinds \subseteq {"line"}

Saving(cause) == pc \in SaveSteps /\ why = cause

(* Control: what each step says of the collection and of its call. *)
ControlInv ==
    /\ pc = "down" => ~open
    /\ ~open => /\ pc \in {"down", "idle"}
                /\ writer = "missing" /\ stuck = <<>> /\ batch = <<>>
    /\ ~open /\ pc = "idle" => ~config
    /\ open => writer # "missing"
    /\ pc \in {"idle", "drop"} => batch = <<>>
    /\ pc \in SaveSteps /\ why # "op" => batch = <<>> /\ stuck = <<>>
    /\ logged <= Len(batch)
    /\ pc = "log" => logged < Len(batch)
    /\ pc \in {"apply", "done"} \/ Saving("op") => logged = Len(batch)

(* Files: before the first snapshot there is nothing, a checksum is stale  *)
(* only between two renames, and no entry is appended to a torn one: it    *)
(* lasts until the recovery is consolidated, or in a closed log.           *)
FilesInv ==
    /\ ~config => /\ wal = <<>> /\ torn = "no" /\ points = NoFile
                  /\ mem = EmptyMap /\ acked = EmptyMap
                  /\ open => pc = "config" /\ why = "create"
    /\ Saving("create") => /\ wal = <<>> /\ torn = "no" /\ PointsOnDisk = EmptyMap
                           /\ mem = EmptyMap /\ acked = EmptyMap
                           /\ pc # "truncate"
    /\ sum = "stale" => pc = "checksum"
    /\ torn \in {"no", "line"}
    /\ skipped = 0
    /\ torn = "line" => /\ stuck = <<>>
                        /\ pc = "down" \/ Saving("recover") \/ writer = "closed"
    /\ pc \in {"checksum", "index", "truncate"} => points = mem

(* Writes: a submitted write is Unknown until it is acknowledged, also     *)
(* while it waits in the BufWriter, and it is in the log before it is      *)
(* applied.                                                                *)
WritesInv ==
    /\ \A i \in 1..Len(batch) : acked[batch[i].id] = Unknown
    /\ \A i \in 1..Len(stuck) : acked[stuck[i].id] = Unknown
    /\ pc \in {"log", "apply"} =>
          /\ logged <= Len(wal)
          /\ \A i \in 1..logged : wal[Len(wal) - logged + i] = batch[i]
    /\ logged > 0 => stuck = <<>>
    /\ pc = "done" \/ Saving("op") =>
          \A id \in Ids : Hits(batch, Len(batch), id) # {} =>
             LET v == batch[Last(Hits(batch, Len(batch), id))].val
             IN  mem[id] = v /\ Stable[id] = v

(* Memory and files agree on every point the log says nothing of. *)
AgreeInv ==
    open => \A id \in Ids :
               Hits(wal, Len(wal), id) = {} => mem[id] = PointsOnDisk[id]

IInv == /\ TypeOK /\ ControlInv /\ FilesInv /\ WritesInv /\ AgreeInv
        /\ AckedSurvives /\ AckedVisible
=============================================================================
