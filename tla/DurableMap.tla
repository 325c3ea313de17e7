----------------------------- MODULE DurableMap ------------------------------
(***************************************************************************)
(* What a crash-safe collection promises its clients, with no log, no file *)
(* and no phase.  live is the map they see while the process runs, stable  *)
(* the map the next start of the process would show, acked what they have  *)
(* been told of each point: Unknown from the moment a write of it is       *)
(* submitted until it is acknowledged (a write that returned an error      *)
(* stays Unknown).                                                         *)
(*                                                                         *)
(* The promise: whatever happens inside, nothing touches the stable or the *)
(* live value of a point that no unacknowledged write concerns; a write is *)
(* acknowledged only when it is both; and a restart shows exactly what was *)
(* stable.                                                                 *)
(***************************************************************************)
CONSTANTS Ids, Vals, None, Unknown, Down

VARIABLES live, stable, acked

Maps == [Ids -> Vals \cup {None}]
EmptyMap == [id \in Ids |-> None]

Init == live = Down /\ stable = EmptyMap /\ acked = EmptyMap

Serving == live # Down
Open == {id \in Ids : acked[id] = Unknown}

Submit == /\ Serving
          /\ \E S \in SUBSET Ids :
                acked' = [id \in Ids |-> IF id \in S THEN Unknown ELSE acked[id]]
          /\ UNCHANGED <<live, stable>>

SameButOpen(map, new) == \A id \in Ids \ Open : new[id] = map[id]

(* Log, or checkpoint: the stable map may change where a write is open. *)
Persist == /\ Serving
           /\ stable' \in Maps
           /\ SameButOpen(stable, stable')
           /\ UNCHANGED <<live, acked>>

(* Written values become visible. *)
Show == /\ Serving
        /\ live' \in Maps
        /\ SameButOpen(live, live')
        /\ UNCHANGED <<stable, acked>>

(* Ok is returned for writes that are both visible and stable. *)
Acknowledge == /\ Serving
               /\ \E S \in SUBSET Open :
                     /\ \A id \in S : live[id] = stable[id]
                     /\ acked' = [id \in Ids |-> IF id \in S THEN stable[id] ELSE acked[id]]
               /\ UNCHANGED <<live, stable>>

(* The process stops; a last buffered write may still reach the disk. *)
Stop == /\ live' = Down
        /\ stable' \in Maps
        /\ SameButOpen(stable, stable')
        /\ UNCHANGED acked

Start == live = Down /\ live' = stable /\ UNCHANGED <<stable, acked>>

Drop == /\ Serving
        /\ live' = Down
        /\ stable' = EmptyMap
        /\ acked' = EmptyMap

Next == Submit \/ Persist \/ Show \/ Acknowledge \/ Stop \/ Start \/ Drop

vars == <<live, stable, acked>>

Spec == Init /\ [][Next]_vars
=============================================================================
