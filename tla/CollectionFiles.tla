--------------------------- MODULE CollectionFiles ---------------------------
(***************************************************************************)
(* What the directory of a collection holds, and what the functions that   *)
(* read it make of it: the snapshot of FileStorage                         *)
(* (crates/core/src/storage.rs), in its two formats and its two layouts,   *)
(* and the log of Wal (wal.rs), in its two encodings and with its          *)
(* timestamps.  Shared by DataDirectory and Replication.                   *)
(*                                                                         *)
(* A storage id is a pair <<namespace, id>>, Root standing for no          *)
(* namespace.  A points file is the map it spells out: the order of its    *)
(* lines is left out, and index.bin too, which loading reads but does not  *)
(* use.  A checksum is the pair of the format and the map it was computed  *)
(* of.                                                                     *)
(***************************************************************************)
EXTENDS LogReplay, FiniteSets

S == INSTANCE SequencesExt

CONSTANTS
    Root,         \* no namespace
    NoFile,       \* the file does not exist
    NoCollection  \* there is no collection

Namespaces == {id[1] : id \in Ids} \ {Root}
Places == Namespaces \cup {Root}

(* There are finitely many ids, and what stands for no file is no content. *)
ASSUME CollectionFilesAssumption ==
    /\ IsFiniteSet(Ids)
    /\ NoFile \notin Maps
    /\ NoCollection \notin Maps

NoFiles == [bin |-> NoFile, jsonl |-> NoFile, sum |-> NoFile]
NoDirectory == [config |-> NoFile, stamp |-> 0, at |-> [p \in Places |-> NoFiles]]

Format(binary) == IF binary THEN "bin" ELSE "jsonl"

(***************************************************************************)
(* save_collection, file by file.  Each write is atomic: a temporary file  *)
(* and a rename.  With namespace isolation each namespace that has points  *)
(* gets files of its own, in any order, after those of the root.           *)
(***************************************************************************)
PartOf(points, place, isolated) ==
    [id \in Ids |-> IF isolated /\ id[1] # place THEN None ELSE points[id]]

PointsWrites(place, points, binary) ==
    <<[file |-> Format(binary), place |-> place, data |-> points],
      [file |-> "sum", place |-> place, data |-> <<Format(binary), points>>]>>

Orders(points, isolated) ==
    IF isolated THEN S!SetToSeqs({n \in Namespaces : PartOf(points, n, TRUE) # EmptyMap})
                ELSE {<<>>}

(* Mutant of SaveWrites: the points of namespaces stay out of the snapshot. *)
SaveWritesOfRoot(points, retention, options, order) ==
    <<[file |-> "config", place |-> Root, data |-> retention],
      [file |-> "stamp", place |-> Root, data |-> NoFile]>>
    \o PointsWrites(Root, PartOf(points, Root, options.isolated), options.binary)

(* The i-th write of the points: two for each place. *)
PointsWrite(points, options, places, i) ==
    LET place == places[(i + 1) \div 2]
    IN  PointsWrites(place, PartOf(points, place, options.isolated), options.binary)[2 - (i % 2)]

SaveWrites(points, retention, options, order) ==
    <<[file |-> "config", place |-> Root, data |-> retention],
      [file |-> "stamp", place |-> Root, data |-> NoFile]>>
    \o [i \in 1..(2 * (Len(order) + 1)) |-> PointsWrite(points, options, <<Root>> \o order, i)]

Put(dir, write, time) ==
    CASE write.file = "config" -> [dir EXCEPT !.config = write.data]
      [] write.file = "stamp" -> [dir EXCEPT !.stamp = time]
      [] OTHER -> [dir EXCEPT !.at[write.place][write.file] = write.data]

-----------------------------------------------------------------------------
(* load_collection: points.bin is read if it exists, else points.jsonl,    *)
(* and checked against checksum.md5 if that exists, whoever wrote it.      *)
Chosen(files) == Format(files.bin # NoFile)

Intact(files) ==
    files[Chosen(files)] = NoFile \/ files.sum \in {NoFile, <<Chosen(files), files[Chosen(files)]>>}

PointsIn(files) ==
    IF files[Chosen(files)] = NoFile THEN EmptyMap ELSE files[Chosen(files)]

Loads(dir) == dir.config # NoFile /\ \A place \in Places : Intact(dir.at[place])

(* Every directory below namespaces/ is read after the root, whether the   *)
(* collection is kept in that layout or not, and its points replace those. *)
Loaded(dir) ==
    [id \in Ids |-> LET own == PointsIn(dir.at[id[1]])[id]
                    IN  IF own # None THEN own ELSE PointsIn(dir.at[Root])[id]]

-----------------------------------------------------------------------------
(***************************************************************************)
(* wal.log: whether it begins with the magic of compressed logs, and its   *)
(* entries, each compressed or not (z).  Neither reader gets past the      *)
(* first entry of the other encoding: the first bytes of a JSON line are   *)
(* no length of a frame, and those of a frame are not UTF-8.               *)
(***************************************************************************)
NoLog == [magic |-> FALSE, entries |-> <<>>]

ReadEntries(log) ==
    SubSeq(log.entries, 1,
           Last({n \in 0..Len(log.entries) : \A i \in 1..n : log.entries[i].z = log.magic}))

(* The magic is written into an empty file only. *)
OpenLog(log, compress) ==
    [log EXCEPT !.magic = log.magic \/ (compress /\ log.entries = <<>>)]

AppendTo(log, id, val, time, compress) ==
    [log EXCEPT !.entries = Append(@, [ts |-> time, id |-> id, val |-> val, z |-> compress])]

TruncatedLog(compress) == [magic |-> compress, entries |-> <<>>]

(* compact_wal_entries_older_than: a log that keeps all its entries is not *)
(* rewritten.                                                              *)
InOrder(positions) ==
    CHOOSE s \in S!SetToSeqs(positions) : \A i, j \in DOMAIN s : i < j => s[i] < s[j]

Compacted(log, cutoff, compress) ==
    LET entries == ReadEntries(log)
        kept == {i \in DOMAIN entries : entries[i].ts >= cutoff}
        order == InOrder(kept)
    IN  IF kept = DOMAIN entries THEN log
        ELSE [magic |-> compress,
              entries |-> [i \in DOMAIN order |-> [entries[order[i]] EXCEPT !.z = compress]]]

-----------------------------------------------------------------------------
Replay(base, entries) == Overlay(base, entries, Len(entries))

(* recover_collection, of a directory that loads. *)
Recovered(dir, log) ==
    IF dir.config = NoFile THEN NoCollection ELSE Replay(Loaded(dir), ReadEntries(log))

(* recover_collection_to_timestamp: of the entries of an id that are needed *)
(* the last decides.                                                       *)
HitsTo(dir, entries, target, id) ==
    {i \in Hits(entries, Len(entries), id) :
        entries[i].ts <= target /\ (dir.stamp = 0 \/ entries[i].ts > dir.stamp)}

RecoveredTo(dir, log, target) ==
    [id \in Ids |-> LET entries == ReadEntries(log)
                        hits == HitsTo(dir, entries, target, id)
                    IN  IF hits = {} THEN Loaded(dir)[id] ELSE entries[Last(hits)].val]

(* list_restore_points. *)
RestorePoints(dir, log) ==
    {dir.stamp} \cup {ReadEntries(log)[i].ts : i \in DOMAIN ReadEntries(log)}
=============================================================================
