----------------------------- MODULE AuditTrail -----------------------------
(***************************************************************************)
(* The audit log (crates/server/src/audit.rs): log() puts an entry into a  *)
(* bounded channel; one task takes them out, and writes a batch when it is *)
(* full, when its timer ticks or when the channel is closed, to the file   *)
(* of the day on which it writes.                                          *)
(*                                                                         *)
(* An entry is its number among those logged; logged[n] is the day it was  *)
(* made.  A file is a sequence of lines, an entry or Junk.  The module has *)
(* no Next of its own: AccessControl composes its actions with those of    *)
(* the handlers that log.                                                  *)
(***************************************************************************)
EXTENDS Naturals, FiniteSets, Sequences, SequencesExt

CONSTANTS
    ChannelCapacity,  \* of the channel (10_000)
    BatchSize,        \* FLUSH_BATCH_SIZE
    MaxAnswer,        \* entries a query returns (1000)
    Junk,             \* a line that does not parse
    Never,            \* no day
    LastDay,          \* bound: days that pass
    MaxFailures       \* bound: writes that fail

ASSUME AuditTrailAssumption ==
    /\ {ChannelCapacity, BatchSize, MaxAnswer} \subseteq Nat \ {0}
    /\ LastDay \in Nat /\ MaxFailures \in Nat
    /\ Junk \notin Nat /\ Never \notin Nat

Days == 0..LastDay

VARIABLES
    day,       \* the date
    logged,    \* ghost: the day of each entry given to log()
    accepted,  \* ghost: the entries the channel took, and no crash has lost
    queue,     \* the channel
    sender,    \* is it open?
    buffer,    \* what the writer has taken out
    writer,    \* "loop", "open", "write" (in flush), or "ended"
    current,   \* current_date
    files,     \* the lines of each day's file
    ragged,    \* the days whose file ends within a line
    failures

channel == <<logged, accepted, queue>>
onDisk == <<files, ragged>>
auditVars == <<day, channel, sender, buffer, writer, current, onDisk, failures>>

AuditInit ==
    /\ day = 0 /\ logged = <<>> /\ accepted = {} /\ queue = <<>> /\ sender = TRUE
    /\ buffer = <<>> /\ writer = "loop" /\ current = Never
    /\ files = [d \in Days |-> <<>>] /\ ragged = {} /\ failures = 0

-----------------------------------------------------------------------------
(* log() never waits: an entry that finds the channel full, or closed by   *)
(* the shutdown, is dropped.                                               *)
Log ==
    LET n == Len(logged) + 1
        taken == sender /\ Len(queue) < ChannelCapacity
    IN  /\ logged' = Append(logged, day)
        /\ queue' = IF taken THEN Append(queue, n) ELSE queue
        /\ accepted' = IF taken THEN accepted \cup {n} ELSE accepted
        /\ UNCHANGED <<day, sender, buffer, writer, current, onDisk, failures>>

Receive ==
    /\ writer = "loop" /\ queue # <<>>
    /\ buffer' = Append(buffer, Head(queue))
    /\ queue' = Tail(queue)
    /\ writer' = IF Len(buffer') >= BatchSize THEN "open" ELSE "loop"
    /\ UNCHANGED <<day, logged, accepted, sender, current, onDisk, failures>>

TimerTicks ==
    /\ writer = "loop" /\ buffer # <<>>
    /\ writer' = "open"
    /\ UNCHANGED <<day, channel, sender, buffer, current, onDisk, failures>>

(* Mutant of SenderGone: no final flush. *)
SenderGoneAtOnce ==
    /\ writer = "loop" /\ ~sender /\ queue = <<>>
    /\ writer' = "ended"
    /\ UNCHANGED <<day, channel, sender, buffer, current, onDisk, failures>>

(* recv() returns None once the channel is closed and empty. *)
SenderGone ==
    /\ writer = "loop" /\ ~sender /\ queue = <<>>
    /\ writer' = IF buffer = <<>> THEN "ended" ELSE "open"
    /\ UNCHANGED <<day, channel, sender, buffer, current, onDisk, failures>>

Flushed == writer' = "loop" /\ buffer' = <<>>

(* flush(): the daily rotation. *)
OpenFile ==
    /\ writer = "open"
    /\ writer' = "write"
    /\ current' = day
    /\ UNCHANGED <<day, channel, sender, buffer, onDisk, failures>>

(* The batch is lost; the next flush tries to open the file again. *)
OpenFails ==
    /\ writer = "open" /\ current # day /\ failures < MaxFailures
    /\ failures' = failures + 1
    /\ Flushed
    /\ UNCHANGED <<day, channel, sender, current, onDisk>>

(* The lines a file has when text is appended to it: the first joins a     *)
(* line that has no end.                                                   *)
Appended(lines, unended, text) ==
    IF unended /\ text # <<>> THEN Front(lines) \o <<Junk>> \o Tail(text) ELSE lines \o text

WriteBatch ==
    /\ writer = "write"
    /\ files' = [files EXCEPT ![current] = Appended(@, current \in ragged, buffer)]
    /\ ragged' = ragged \ {current}
    /\ Flushed
    /\ UNCHANGED <<day, channel, sender, current, failures>>

(* write_all fails after some lines and, maybe, a part of the next one, or *)
(* all of it but its end.                                                  *)
WriteFails ==
    /\ writer = "write" /\ failures < MaxFailures
    /\ failures' = failures + 1
    /\ \E k \in 0..(Len(buffer) - 1) :
          \E rest \in {<<>>, <<Junk>>, <<buffer[k + 1]>>} :
             LET text == SubSeq(buffer, 1, k) \o rest IN
             /\ files' = [files EXCEPT ![current] = Appended(@, current \in ragged, text)]
             /\ ragged' = IF rest # <<>> THEN ragged \cup {current}
                          ELSE IF k = 0 THEN ragged ELSE ragged \ {current}
    /\ Flushed
    /\ UNCHANGED <<day, channel, sender, current>>

Midnight ==
    /\ day < LastDay
    /\ day' = day + 1
    /\ UNCHANGED <<channel, sender, buffer, writer, current, onDisk, failures>>

(* shutdown(): the sender is dropped, and the writer waited for. *)
CloseChannel ==
    /\ sender' = FALSE
    /\ UNCHANGED <<day, channel, buffer, writer, current, onDisk, failures>>

(* A new process: what the channel and the buffer held is gone. *)
AuditRestart ==
    /\ queue' = <<>> /\ sender' = TRUE /\ buffer' = <<>>
    /\ writer' = "loop" /\ current' = Never
    /\ accepted' = accepted \ (ToSet(queue) \cup ToSet(buffer))
    /\ UNCHANGED <<day, logged, onDisk, failures>>

WriterStep ==
    \/ Receive \/ TimerTicks \/ SenderGone
    \/ OpenFile \/ OpenFails \/ WriteBatch \/ WriteFails

-----------------------------------------------------------------------------
Entries(lines) == ToSet(lines) \ {Junk}
InFile(n, d) == n \in Entries(files[d])

(* query(): reads the files of the days asked for, and takes the newest    *)
(* of the entries made in those days.                                      *)
NewestFirst(entries) ==
    CHOOSE s \in SetToSeqs(entries) : \A i, j \in DOMAIN s : i < j => s[i] > s[j]

Query(from, to, limit) ==
    LET newest == NewestFirst({n \in DOMAIN logged :
                      logged[n] \in from..to /\ \E d \in from..to : InFile(n, d)})
    IN  SubSeq(newest, 1, IF Len(newest) < limit THEN Len(newest) ELSE limit)

(* GET /audit returns no more than MaxAnswer (1000). *)
GetAudit(from, to, limit) == Query(from, to, IF limit < MaxAnswer THEN limit ELSE MaxAnswer)

-----------------------------------------------------------------------------
(* The trail, part by part: the files, then what is on its way to them. *)
Parts == 0..(LastDay + 1)
Part(p) == IF p \in Days THEN files[p]
           ELSE IF writer = "ended" THEN <<>> ELSE buffer \o queue

(* The audit trail has the entries in the order they were logged, none     *)
(* twice; and, if no write has failed, all that the channel took, across   *)
(* rotations, crashes and shutdowns (background_writer, flush, shutdown).  *)
InOrderAndComplete ==
    /\ \A p, q \in Parts : \A i \in DOMAIN Part(p), j \in DOMAIN Part(q) :
          /\ p < q \/ (p = q /\ i < j)
          /\ Part(p)[i] # Junk /\ Part(q)[j] # Junk
          => Part(p)[i] < Part(q)[j]
    /\ failures = 0 => UNION {Entries(Part(p)) : p \in Parts} = accepted

(* A query for a range of days finds every entry of these days that can be *)
(* read, unless it finds as many newer ones as it may return, or the entry *)
(* was written after the range (one made before midnight may be).          *)
QueryFinds ==
    \A from, to \in Days : \A limit \in 1..(MaxAnswer + 1) :
       LET answer == GetAudit(from, to, limit) IN
       /\ \A i, j \in DOMAIN answer : i < j => answer[i] > answer[j]
       /\ \A n \in DOMAIN logged :
             /\ logged[n] \in from..to
             /\ \E d \in Days : d <= to /\ InFile(n, d)
             /\ n \notin ToSet(answer)
             => Len(answer) \in {limit, MaxAnswer} /\ \A i \in DOMAIN answer : answer[i] > n

(* The trail is whole, and can be asked for (AuditLogger).                 *)
Audited == InOrderAndComplete /\ QueryFinds
=============================================================================
