----------------------------- MODULE Replication -----------------------------
(***************************************************************************)
(* A follower of the server (crates/server/src/replication.rs): every two  *)
(* seconds it asks the leader for its collections, creates what it does    *)
(* not have, and applies the leader's whole log from its first entry.  The *)
(* leader's log is that of the directory: what an engine left in it.  The  *)
(* answers to one collection's requests are one step.                      *)
(***************************************************************************)
EXTENDS Backup

VARIABLES
    replica,  \* the follower's collection, or NoCollection
    stream    \* the entries it has received and not applied

follower == <<replica, stream>>
vars == <<dirVars, archive, follower>>

Init == DirInit /\ archive = NoArchive /\ replica = NoCollection /\ stream = <<>>

(* What the leader answers.  list_collections and get_collection take the  *)
(* collection's lock, stream_wal reads the file with none.                 *)
ListsCollection == Serving

(* Of an entry the point's id, namespace, vector, metadata and date.       *)
Message(e) == [ts |-> e.ts, id |-> e.id, val |-> e.val]

StreamWal(position) ==
    LET all == ReadEntries(log)
    IN  [i \in 1..(Len(all) - position) |-> Message(all[position + i])]

(* A collection it lacks is created from what get_collection tells, and    *)
(* saved.                                                                  *)
CreatedLike(mine) == IF mine = NoCollection THEN EmptyMap ELSE mine

(* replicate_collection, from position 0 each time.                        *)
ReplicateCollection ==
    /\ "follow" \in load.calls
    /\ ListsCollection /\ stream = <<>>
    /\ replica' = CreatedLike(replica)
    /\ stream' = StreamWal(0)
    /\ UNCHANGED <<dirVars, archive>>

(* Mutant of ApplyWalEntry: the delete of an absent point is an error, and *)
(* ends the cycle.                                                         *)
ApplyWalEntryOrFail ==
    /\ stream # <<>>
    /\ LET e == Head(stream)
       IN  IF e.val \in Refused \/ (e.val = None /\ replica[e.id] = None)
           THEN stream' = <<>> /\ UNCHANGED replica
           ELSE stream' = Tail(stream) /\ replica' = Replay(replica, <<e>>)
    /\ UNCHANGED <<dirVars, archive>>

(* A point that insert refuses ends the cycle; the delete of a point that  *)
(* is not there is ignored.                                                *)
ApplyWalEntry ==
    /\ stream # <<>>
    /\ LET e == Head(stream)
       IN  IF e.val \in Refused
           THEN stream' = <<>> /\ UNCHANGED replica
           ELSE stream' = Tail(stream) /\ replica' = Replay(replica, <<e>>)
    /\ UNCHANGED <<dirVars, archive>>

(* replica_write_guard stops HTTP writes only: gRPC still takes them.      *)
GrpcWriteToReplica(id, val) ==
    /\ replica # NoCollection
    /\ Call("replicaWrite")
    /\ replica' = Replay(replica, <<[id |-> id, val |-> val]>>)
    /\ UNCHANGED <<stream, now, files, program, options, points, retention, since, saving, restore,
                   ghosts, load, starts, failures, archive>>

Next ==
    \/ BackupNext /\ UNCHANGED follower
    \/ ReplicateCollection \/ ApplyWalEntry
    \/ \E id \in Ids, val \in PointOrNone : GrpcWriteToReplica(id, val)

(* The worker's loop ends only with its process.                           *)
Spec == Init /\ [][Next]_vars /\ WF_vars(ReplicateCollection) /\ WF_vars(ApplyWalEntry)

(***************************************************************************)
(* While a leader stays up, its follower again and again has everything    *)
(* the leader's log says: applying all of it once more would change        *)
(* nothing.  Excused: a log with an entry that insert refuses, which the   *)
(* engine logs before it tries it; there every cycle ends, and what comes  *)
(* after is never applied (replicate_collection).                          *)
(***************************************************************************)
Applicable(entries) == \A i \in DOMAIN entries : entries[i].val \notin Refused

FollowerAgrees ==
    <>[](Serving /\ "follow" \in load.calls /\ Applicable(ReadEntries(log))) =>
        []<>(replica # NoCollection /\ Replay(replica, ReadEntries(log)) = replica)
=============================================================================
