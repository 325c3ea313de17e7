------------------------------ MODULE LogReplay ------------------------------
(***************************************************************************)
(* Data of a write-ahead log of upserts and deletes, and what replaying a  *)
(* prefix of it over a map of points gives.  Shared by the modules that    *)
(* model crates/core/src/wal.rs and its users.                             *)
(*                                                                         *)
(* A point is abstracted to its payload version.  An entry whose val is    *)
(* None is a WalOperation::Delete, any other one a WalOperation::Upsert.   *)
(* Link entries are left out: nothing in the engine appends one.           *)
(***************************************************************************)
EXTENDS Naturals, Sequences

CONSTANTS
    Ids,      \* storage ids of points
    Vals,     \* payload versions a client may upsert
    Refused,  \* versions the index refuses (a zero vector under Cosine)
    None      \* no point

ASSUME LogReplayAssumption ==
    /\ Refused \subseteq Vals
    /\ None \notin Vals

PointOrNone == Vals \cup {None}
Entry == [id : Ids, val : PointOrNone]
Maps == [Ids -> PointOrNone]
EmptyMap == [id \in Ids |-> None]

(***************************************************************************)
(* Positions among the first n entries of log that change id when they are *)
(* applied: insert refuses some vectors and then changes nothing.          *)
(***************************************************************************)
Hits(log, n, id) == {i \in 1..n : log[i].id = id /\ log[i].val \notin Refused}

Last(S) == CHOOSE i \in S : \A j \in S : j <= i

(***************************************************************************)
(* What base becomes when the first n entries of log are applied in order: *)
(* each id keeps the value of the last entry that changes it.              *)
(***************************************************************************)
Overlay(base, log, n) ==
    [id \in Ids |-> IF Hits(log, n, id) = {}
                    THEN base[id]
                    ELSE log[Last(Hits(log, n, id))].val]
=============================================================================
