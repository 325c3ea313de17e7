-------------------------- MODULE MCCollectionStore --------------------------
(* Instances of CollectionStore for TLC. *)
EXTENDS CollectionStoreInv

\* Crashes at every step, except between the renames of the points file and
\* of its checksum and in the middle of the removal of the directory.
SafeCrashPoints == Steps \ {"checksum", "drop"}

\* Appends and snapshots that fail, except between the same two renames.
SafeFailPoints == {"append", "config", "points", "index", "truncate"}
=============================================================================
