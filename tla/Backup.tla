------------------------------- MODULE Backup -------------------------------
(***************************************************************************)
(* POST /admin/backup (crates/server/src/handlers/backup.rs): all          *)
(* collections are saved, then the storage directory is read into an       *)
(* archive, file after file and without a lock, while requests and the     *)
(* auto-save task go on.  The upload is left out, and so is wal.log, which *)
(* a server does not read at its start.                                    *)
(***************************************************************************)
EXTENDS DataDirectory

VARIABLE archive  \* of a backup: its stage, the files listed and those read,
                  \* the copies, and ghosts: has no save run since the listing,
                  \* were there files of a namespace without points, and the
                  \* values that each point has had since the call

NoArchive == [stage |-> "none", listed |-> {}, read |-> {}, copy |-> NoDirectory,
              calm |-> TRUE, stale |-> FALSE, values |-> [id \in Ids |-> {}]]

EntriesOf(d) ==
    {<<file, Root>> : file \in {f \in {"config", "stamp"} : d[f] # NoDirectory[f]}}
    \cup {entry \in {"bin", "jsonl", "sum"} \X Places : d.at[entry[2]][entry[1]] # NoFile}

(* Mutant of BackupToS3: nothing is saved first. *)
BackupUnsaved ==
    /\ ServerCall("backup") /\ Serving /\ ~Saving
    /\ archive.stage = "none"
    /\ archive' = [archive EXCEPT !.stage = "saved", !.values = [id \in Ids |-> {points[id]}]]
    /\ UNCHANGED <<now, files, program, options, points, retention, since, saving, restore, ghosts,
                   load, starts, failures>>

(* The call saves what is in memory first. *)
BackupToS3 ==
    /\ ServerCall("backup") /\ Serving /\ ~Saving
    /\ archive.stage = "none"
    /\ StartSave(points, retention, "clean")
    /\ lapses' = SavingLapses
    /\ archive' = [archive EXCEPT !.stage = "save", !.values = [id \in Ids |-> {points[id]}]]
    /\ UNCHANGED <<now, files, program, options, points, retention, since, restore, past, kept, load, starts, failures>>

(* Meanwhile: a save that fails ends the call, and so does the death of    *)
(* the process.  Whatever the archive holds by then is lost.               *)
Meanwhile(a) ==
    CASE a.stage \in {"none", "done"} -> a
      [] a.stage # "done" /\ (program' = "none" \/ (a.stage = "save" /\ failures' # failures)) -> NoArchive
      [] OTHER ->
            [a EXCEPT !.stage = IF @ = "save" /\ todo' = <<>> THEN "saved" ELSE @,
                      !.calm = @ /\ todo' = <<>>,
                      !.stale = @ \/ "emptied" \in lapses',
                      !.values = [id \in Ids |-> @[id] \cup (IF points' = NoCollection THEN {} ELSE {points'[id]})]]

(* create_tar_gz *)
ListFiles ==
    /\ archive.stage = "saved"
    /\ archive' = [archive EXCEPT !.stage = "read", !.listed = EntriesOf(dir),
                                !.calm = todo = <<>> /\ "torn" \notin lapses,
                                !.stale = "emptied" \in lapses]
    /\ UNCHANGED dirVars

Copied(copy, entry) ==
    CASE entry[1] \in {"config", "stamp"} -> [copy EXCEPT ![entry[1]] = dir[entry[1]]]
      [] OTHER -> [copy EXCEPT !.at[entry[2]][entry[1]] = dir.at[entry[2]][entry[1]]]

(* add_dir_to_tar: in any order, with files that have come meanwhile. *)
AddToTar(entry) ==
    /\ archive.stage = "read"
    /\ entry \in EntriesOf(dir) \ archive.read
    /\ archive' = [archive EXCEPT !.read = @ \cup {entry}, !.copy = Copied(@, entry)]
    /\ UNCHANGED dirVars

FinishTar ==
    /\ archive.stage = "read" /\ archive.listed \subseteq archive.read
    /\ archive' = [archive EXCEPT !.stage = "done"]
    /\ UNCHANGED dirVars

(* A file that is gone when it is to be read, a temporary one of a save or *)
(* one of a collection that was dropped, ends the call.                    *)
TarFails ==
    /\ archive.stage = "read"
    /\ ~archive.calm \/ ~(archive.listed \subseteq archive.read \cup EntriesOf(dir))
    /\ archive' = NoArchive
    /\ UNCHANGED dirVars

BackupNext ==
    \/ BackupToS3 \/ ListFiles \/ FinishTar \/ TarFails
    \/ \E entry \in {"config", "stamp", "bin", "jsonl", "sum"} \X Places : AddToTar(entry)
    \/ DirNext /\ archive' = Meanwhile(archive)

(***************************************************************************)
(* A backup that met no save, nor the traces of one that was cut off,      *)
(* loads; and from one that loads, whatever saves and drops it met, each   *)
(* point comes back with a value it has had since the call: files of two   *)
(* saves in one archive are found out by their checksum or do no harm.     *)
(* Excused: the file of a namespace without points, which no save removes, *)
(* and a collection that was dropped before its files were listed.         *)
(* (backup_to_s3, load_collection)                                         *)
(***************************************************************************)
BackupRestores ==
    archive.stage = "done" /\ ~archive.stale =>
        /\ archive.calm /\ archive.listed # {} => Loads(archive.copy)
        /\ Loads(archive.copy) =>
              \A id \in Ids : Loaded(archive.copy)[id] \in archive.values[id]

(* Point-in-time recovery and backups give back what there was, see        *)
(* RestoresPast and BackupRestores: the restore points and the archives of *)
(* restore_collection_to_timestamp and backup_to_s3.                       *)
Restores == RestoresPast /\ BackupRestores
=============================================================================
