---------------------- MODULE CollectionStoreRefinement ----------------------
(***************************************************************************)
(* The detailed collection implements the abstract durable map: clients    *)
(* see the memory of an open collection, and a restart would show what     *)
(* recovery makes of the files.                                            *)
(***************************************************************************)
EXTENDS CollectionStore

CONSTANT Down

ASSUME RefinementAssumption == Down \notin Maps

Promise == INSTANCE DurableMap
               WITH live <- IF open THEN mem ELSE Down, stable <- Stable

(* Each step of the code changes what clients see and what a restart would *)
(* show only as DurableMap allows: only points of unacknowledged writes    *)
(* are touched, Ok is returned for values both visible and stable, and a   *)
(* restart shows the stable map.                                           *)
KeepsPromise == Promise!Spec
=============================================================================
