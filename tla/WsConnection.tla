---------------------------- MODULE WsConnection ----------------------------
(***************************************************************************)
(* One WebSocket connection (crates/server/src/handlers/streaming.rs): the *)
(* handler that receives the client's messages, and the tasks it spawns,   *)
(* which apply batches of upserts, forward the events of collections, send *)
(* heartbeats, and write what all of them queue for the client.            *)
(*                                                                         *)
(* Every step ends at an await that waits: a send to a bounded channel, a  *)
(* receive, a tick.  A send to a channel whose receiver is gone fails.  An *)
(* upsert message has one point; it is known by its place among those      *)
(* received.  The message that the writer holds counts as still in its     *)
(* channel; binary and ping frames, which only touch the clock, are left   *)
(* out.                                                                    *)
(***************************************************************************)
EXTENDS Naturals, Sequences, SequencesExt

CONSTANTS
    Collections,
    OutCapacity,    \* of the channel to the client (256)
    BatchCapacity,  \* of the channel to the batch task (512)
    EventCapacity,  \* EVENT_CHANNEL_CAPACITY
    IdleLimit,      \* INACTIVITY_TIMEOUT_SECS, in heartbeats
    MaxInputs       \* bound: messages, other writers' events, ticks, collections dropped

ASSUME WsConnectionAssumption ==
    /\ {OutCapacity, BatchCapacity, EventCapacity} \subseteq Nat \ {0}
    /\ IdleLimit \in Nat /\ MaxInputs \in Nat

VARIABLES
    known,      \* the collections of the server
    socket,     \* "open" or "closed" by the client
    handler,    \* where the receive loop is, and what it is about to queue
    batchQueue,
    batch,      \* the batch task: the messages taken, the groups left to apply
    out,        \* the channel to the client
    writer,
    heart,      \* the heartbeat task
    awaiting,   \* awaiting_pong
    idle,       \* heartbeats since last_activity
    due,        \* heartbeats not yet acted on
    subs,       \* what forward_events has of each collection
    received,   \* ghost: the upserts received, in order
    applied,    \* ghost: those applied to each collection, in order
    answered,   \* ghost: those an answer was queued for
    emitted,    \* ghost: the events of each collection, in order
    inputs

vars == <<known, socket, handler, batchQueue, batch, out, writer, heart, awaiting, idle,
          due, subs, received, applied, answered, emitted, inputs>>

tasks == <<batchQueue, batch, applied, answered, emitted>>
clock == <<heart, awaiting, idle, due>>

-----------------------------------------------------------------------------

Actions == {"upsert", "delete"}
Filters == {Actions, {"delete"}}
Nothing == [kind |-> "nothing"]
Reply(k) == [kind |-> k]
Event(c, n) == [kind |-> "event", coll |-> c, n |-> n]
Answer(k, ns) == [kind |-> k, of |-> ns]

NoSub == [at |-> "none", filter |-> {}, start |-> 0, pos |-> 0, sent |-> <<>>, missed |-> {}]

(* The first ping is queued at once: interval's first tick does not wait.  *)
Init ==
    /\ known = Collections
    /\ socket = "open"
    /\ handler = [at |-> "receiving", msg |-> Nothing]
    /\ batchQueue = <<>>
    /\ batch = [at |-> "waiting", taken |-> <<>>, groups |-> {}, answer |-> Nothing]
    /\ out = <<Reply("ping")>>
    /\ writer = "running"
    /\ heart = "waiting"
    /\ awaiting = TRUE
    /\ idle = 0
    /\ due = 0
    /\ subs = [c \in Collections |-> NoSub]
    /\ received = <<>>
    /\ applied = [c \in Collections |-> <<>>]
    /\ answered = {}
    /\ emitted = [c \in Collections |-> <<>>]
    /\ inputs = 0

Input == inputs < MaxInputs /\ inputs' = inputs + 1

(* tx_out.send(m) by a task: it has sent, or the receiver is gone. *)
Sent(m) == writer = "running" /\ Len(out) < OutCapacity /\ out' = Append(out, m)
SendFails == writer = "ended" /\ UNCHANGED out

-----------------------------------------------------------------------------
(* The receive loop *)

Receives ==
    /\ handler.at = "receiving" /\ socket = "open"
    /\ Input
    /\ idle' = 0

(* The next message is taken when the last one is queued: at once, if its  *)
(* channel has room.                                                       *)
Replies(m) ==
    IF writer = "running" /\ Len(out) < OutCapacity
    THEN out' = Append(out, m) /\ UNCHANGED handler
    ELSE handler' = [at |-> "replying", msg |-> m] /\ UNCHANGED out

ReceiveUpsert(c, valid) ==
    /\ Receives
    /\ received' = Append(received, [coll |-> c, valid |-> valid])
    /\ IF Len(batchQueue) < BatchCapacity
       THEN batchQueue' = Append(batchQueue, Len(received) + 1) /\ UNCHANGED handler
       ELSE handler' = [at |-> "enqueuing", msg |-> Nothing] /\ UNCHANGED batchQueue
    /\ UNCHANGED <<known, socket, out, writer, heart, awaiting, due, subs, batch, applied,
                   answered, emitted>>

Enqueue ==
    /\ handler.at = "enqueuing" /\ Len(batchQueue) < BatchCapacity
    /\ batchQueue' = Append(batchQueue, Len(received))
    /\ handler' = [handler EXCEPT !.at = "receiving"]
    /\ UNCHANGED <<known, socket, batch, out, writer, subs, received, applied, answered,
                   emitted, inputs, clock>>

(* A subscription starts at the next event; the collection's channel is    *)
(* made on demand, and outlives the collection.                            *)
ReceiveSubscribe(c, filter) ==
    /\ Receives
    /\ LET accepted == subs[c].at = "none" /\ c \in known IN
        /\ Replies(Reply(IF accepted THEN "ack" ELSE "error"))
        /\ subs' = IF ~accepted THEN subs
                   ELSE [subs EXCEPT ![c] = [NoSub EXCEPT !.at = "waiting", !.filter = filter,
                                               !.start = Len(emitted[c]), !.pos = Len(emitted[c])]]
    /\ UNCHANGED <<known, socket, writer, heart, awaiting, due, received, tasks>>

ReceivePing ==
    /\ Receives
    /\ awaiting' = FALSE
    /\ Replies(Reply("pong"))
    /\ UNCHANGED <<known, socket, writer, heart, due, subs, received, tasks>>

ReceivePongFrame ==
    /\ Receives
    /\ awaiting' = FALSE
    /\ UNCHANGED <<known, socket, handler, out, writer, heart, due, subs, received, tasks>>

ReceiveUnreadable ==
    /\ Receives
    /\ Replies(Reply("error"))
    /\ UNCHANGED <<known, socket, writer, heart, awaiting, due, subs, received, tasks>>

SendReply ==
    /\ handler.at = "replying" /\ Sent(handler.msg)
    /\ handler' = [at |-> "receiving", msg |-> Nothing]
    /\ UNCHANGED <<known, socket, writer, subs, received, inputs, tasks, clock>>

(* Mutant: the forwarders are not aborted. *)
FinishKeepsForwarders ==
    /\ \/ handler.at = "receiving" /\ socket = "closed"
       \/ handler.at = "replying" /\ writer = "ended"
    /\ handler' = [at |-> "ended", msg |-> Nothing]
    /\ writer' = "ended" /\ out' = <<>> /\ heart' = "ended"
    /\ UNCHANGED <<known, socket, awaiting, idle, due, subs, received, inputs, tasks>>

(* The loop breaks, the gauge goes down, and the tasks are aborted: those  *)
(* with no more than awaits to do end here, the batch task when it awaits. *)
Finish ==
    /\ \/ handler.at = "receiving" /\ socket = "closed"
       \/ handler.at = "replying" /\ writer = "ended"
    /\ handler' = [at |-> "ended", msg |-> Nothing]
    /\ writer' = "ended" /\ out' = <<>>
    /\ heart' = "ended"
    /\ subs' = [c \in Collections |->
                  IF subs[c].at = "none" THEN subs[c] ELSE [subs[c] EXCEPT !.at = "ended"]]
    /\ UNCHANGED <<known, socket, awaiting, idle, due, received, inputs, tasks>>

-----------------------------------------------------------------------------
(* The batch task *)

BatchFirst ==
    /\ batch.at = "waiting" /\ batchQueue # <<>>
    /\ batch' = [batch EXCEPT !.at = "gathering", !.taken = <<Head(batchQueue)>>]
    /\ batchQueue' = Tail(batchQueue)
    /\ UNCHANGED <<known, socket, handler, out, writer, subs, received, applied, answered,
                   emitted, inputs, clock>>

(* Mutant: the newest message goes first. *)
BatchMoreFirst ==
    /\ batch.at = "gathering" /\ batchQueue # <<>>
    /\ batch' = [batch EXCEPT !.taken = <<Head(batchQueue)>> \o @]
    /\ batchQueue' = Tail(batchQueue)
    /\ UNCHANGED <<known, socket, handler, out, writer, subs, received, applied, answered,
                   emitted, inputs, clock>>

BatchMore ==
    /\ batch.at = "gathering" /\ batchQueue # <<>>
    /\ batch' = [batch EXCEPT !.taken = Append(@, Head(batchQueue))]
    /\ batchQueue' = Tail(batchQueue)
    /\ UNCHANGED <<known, socket, handler, out, writer, subs, received, applied, answered,
                   emitted, inputs, clock>>

(* The debounce time is over, or no more can come. *)
BatchComplete ==
    /\ batch.at = "gathering"
    /\ batch' = [batch EXCEPT !.at = "applying",
                              !.groups = {received[n].coll : n \in ToSet(batch.taken)}]
    /\ UNCHANGED <<known, socket, handler, batchQueue, out, writer, subs, received,
                   applied, answered, emitted, inputs, clock>>

(* The elements of s that are in S, in their order (SelectSeq, which the   *)
(* provers have no definition of).                                         *)
Only(s, S) ==
    LET first[i \in 0..Len(s)] ==
            IF i = 0 THEN <<>>
            ELSE IF s[i] \in S THEN Append(first[i - 1], s[i]) ELSE first[i - 1]
    IN  first[Len(s)]

Group(c) == {n \in ToSet(batch.taken) : received[n].coll = c}
ValidGroup(c) == Only(batch.taken, {n \in Group(c) : received[n].valid})

(* process_upsert_batch: the valid points of the group are inserted, all   *)
(* or none, under the collection's lock; then the event is emitted.        *)
ProcessGroup(c) ==
    /\ batch.at = "applying" /\ c \in batch.groups
    /\ \E k \in {"ack", "error"} :
        /\ k = "error" => c \notin known \/ ValidGroup(c) # <<>>
        /\ k = "ack" => c \in known
        /\ batch' = [batch EXCEPT !.at = "answering", !.groups = @ \ {c},
                                  !.answer = Answer(k, Group(c))]
        /\ IF k = "ack" /\ ValidGroup(c) # <<>>
           THEN /\ applied' = [applied EXCEPT ![c] = @ \o ValidGroup(c)]
                /\ emitted' = [emitted EXCEPT ![c] = Append(@, "upsert")]
           ELSE UNCHANGED <<applied, emitted>>
    /\ UNCHANGED <<known, socket, handler, batchQueue, out, writer, subs, received,
                   answered, inputs, clock>>

(* Mutant: the other groups are dropped after an error, too. *)
SendAnswerStops ==
    /\ batch.at = "answering" /\ Sent(batch.answer)
    /\ answered' = answered \cup batch.answer.of
    /\ LET more == batch.groups # {} /\ batch.answer.kind = "ack" IN
       batch' = [batch EXCEPT !.answer = Nothing, !.groups = IF more THEN @ ELSE {},
                              !.at = IF more THEN "applying" ELSE "waiting",
                              !.taken = IF more THEN @ ELSE <<>>]
    /\ UNCHANGED <<known, socket, handler, batchQueue, writer, subs, received, applied,
                   emitted, inputs, clock>>

(* When the answer cannot be sent, the other groups are not applied. *)
SendAnswer ==
    /\ batch.at = "answering"
    /\ \/ /\ Sent(batch.answer)
          /\ answered' = answered \cup batch.answer.of
          /\ batch' = [batch EXCEPT !.answer = Nothing,
                                    !.at = IF batch.groups = {} THEN "waiting" ELSE "applying",
                                    !.taken = IF batch.groups = {} THEN <<>> ELSE @]
       \/ /\ SendFails
          /\ batch' = [at |-> "waiting", taken |-> <<>>, groups |-> {}, answer |-> Nothing]
          /\ UNCHANGED answered
    /\ UNCHANGED <<known, socket, handler, batchQueue, writer, subs, received, applied,
                   emitted, inputs, clock>>

(* An aborted task stops at its next await that has to wait, at the latest *)
(* when the queue is empty.                                                *)
BatchAborted ==
    /\ handler.at = "ended" /\ batch.at \in {"waiting", "gathering", "answering"}
    /\ batch' = [at |-> "ended", taken |-> <<>>, groups |-> {}, answer |-> Nothing]
    /\ batchQueue' = <<>>
    /\ UNCHANGED <<known, socket, handler, out, writer, subs, received, applied, answered,
                   emitted, inputs, clock>>

-----------------------------------------------------------------------------
(* The events *)

(* Mutants: a receiver that lags starts again with the next event; or it   *)
(* gives up.                                                               *)
ForwardEventsSkips(c) ==
    /\ subs[c].at = "waiting" /\ subs[c].pos < Len(emitted[c])
    /\ subs' =
        LET s == subs[c]
            oldest == Len(emitted[c]) - EventCapacity
        IN  [subs EXCEPT ![c] =
               IF s.pos < oldest
               THEN [s EXCEPT !.pos = Len(emitted[c]), !.missed = @ \cup (s.pos + 1)..oldest]
               ELSE [s EXCEPT !.pos = @ + 1,
                              !.at = IF emitted[c][s.pos + 1] \in s.filter THEN "sending" ELSE @]]
    /\ UNCHANGED <<known, socket, handler, out, writer, received, inputs, tasks, clock>>

ForwardEventsGivesUp(c) ==
    /\ subs[c].at = "waiting" /\ subs[c].pos < Len(emitted[c])
    /\ subs' =
        LET s == subs[c] IN
        [subs EXCEPT ![c] =
           IF s.pos < Len(emitted[c]) - EventCapacity
           THEN [s EXCEPT !.at = "ended"]
           ELSE [s EXCEPT !.pos = @ + 1,
                          !.at = IF emitted[c][s.pos + 1] \in s.filter THEN "sending" ELSE @]]
    /\ UNCHANGED <<known, socket, handler, out, writer, received, inputs, tasks, clock>>

(* The channel of a collection keeps the last EventCapacity events: a      *)
(* receiver that is further behind is told that it lags and goes on with   *)
(* the oldest of them.                                                     *)
ForwardEvents(c) ==
    /\ subs[c].at = "waiting" /\ subs[c].pos < Len(emitted[c])
    /\ subs' =
        LET s == subs[c]
            oldest == Len(emitted[c]) - EventCapacity
        IN  [subs EXCEPT ![c] =
               IF s.pos < oldest
               THEN [s EXCEPT !.pos = oldest, !.missed = @ \cup (s.pos + 1)..oldest]
               ELSE [s EXCEPT !.pos = @ + 1,
                              !.at = IF emitted[c][s.pos + 1] \in s.filter THEN "sending" ELSE @]]
    /\ UNCHANGED <<known, socket, handler, out, writer, received, inputs, tasks, clock>>

SendEvent(c) ==
    /\ subs[c].at = "sending"
    /\ \/ /\ Sent(Event(c, subs[c].pos))
          /\ subs' = [subs EXCEPT ![c].at = "waiting", ![c].sent = Append(@, subs[c].pos)]
       \/ /\ SendFails
          /\ subs' = [subs EXCEPT ![c].at = "ended"]
    /\ UNCHANGED <<known, socket, handler, writer, received, inputs, tasks, clock>>

(* Points upserted or deleted over REST or another connection. *)
EmitEvent(c, a) ==
    /\ c \in known /\ Input
    /\ emitted' = [emitted EXCEPT ![c] = Append(@, a)]
    /\ UNCHANGED <<known, socket, handler, batchQueue, batch, out, writer, subs, received,
                   applied, answered, clock>>

-----------------------------------------------------------------------------
(* The writer, the heartbeat, the client *)

Write ==
    /\ writer = "running" /\ out # <<>>
    /\ \/ socket = "open" /\ out' = Tail(out) /\ UNCHANGED writer
       \/ socket = "closed" /\ out' = <<>> /\ writer' = "ended"
    /\ UNCHANGED <<known, socket, handler, subs, received, inputs, tasks, clock>>

TimePasses ==
    /\ handler.at # "ended" /\ Input
    /\ due' = due + 1 /\ idle' = idle + 1
    /\ UNCHANGED <<known, socket, handler, out, writer, heart, awaiting, subs, received,
                   tasks>>

Heartbeat ==
    /\ heart = "waiting" /\ due > 0
    /\ due' = due - 1
    /\ IF idle > IdleLimit \/ awaiting
       THEN heart' = "closing" /\ UNCHANGED awaiting
       ELSE heart' = "pinging" /\ awaiting' = TRUE
    /\ UNCHANGED <<known, socket, handler, out, writer, idle, subs, received, inputs,
                   tasks>>

SendHeartbeat ==
    /\ heart \in {"pinging", "closing"}
    /\ \/ /\ Sent(Reply(IF heart = "pinging" THEN "ping" ELSE "error"))
          /\ heart' = IF heart = "pinging" THEN "waiting" ELSE "ended"
       \/ /\ SendFails
          /\ heart' = "ended"
    /\ UNCHANGED <<known, socket, handler, writer, awaiting, idle, due, subs, received,
                   inputs, tasks>>

ClientCloses ==
    /\ socket = "open" /\ socket' = "closed"
    /\ UNCHANGED <<known, handler, out, writer, subs, received, inputs, tasks, clock>>

DropCollection(c) ==
    /\ c \in known /\ Input
    /\ known' = known \ {c}
    /\ UNCHANGED <<socket, handler, out, writer, subs, received, tasks, clock>>

-----------------------------------------------------------------------------

Receive ==
    \/ \E c \in Collections :
        \/ \E valid \in BOOLEAN : ReceiveUpsert(c, valid)
        \/ \E filter \in Filters : ReceiveSubscribe(c, filter)
    \/ ReceivePing \/ ReceivePongFrame \/ ReceiveUnreadable

Handler == Enqueue \/ SendReply \/ Finish

Batch ==
    \/ BatchFirst \/ BatchMore \/ BatchComplete \/ SendAnswer \/ BatchAborted
    \/ \E c \in Collections : ProcessGroup(c)

Forwarder(c) == ForwardEvents(c) \/ SendEvent(c)
Heart == Heartbeat \/ SendHeartbeat

Next ==
    \/ Receive \/ Handler \/ Batch \/ Write \/ Heart
    \/ \E c \in Collections :
        \/ Forwarder(c) \/ DropCollection(c)
        \/ \E a \in Actions : EmitEvent(c, a)
    \/ TimePasses \/ ClientCloses

Spec == Init /\ [][Next]_vars

(* A task that can go on does, also where others compete with it for room  *)
(* in the channel to the client (tokio's channels serve waiting senders in *)
(* order); and the client, while it is there, reads what is written.  It   *)
(* need not send anything, nor close.                                      *)
FairSpec ==
    /\ Spec
    /\ SF_vars(Handler) /\ SF_vars(Batch) /\ SF_vars(Heart) /\ WF_vars(Write)
    /\ \A c \in Collections : SF_vars(Forwarder(c))

-----------------------------------------------------------------------------
(* Properties *)

Increasing(s) == \A i, j \in DOMAIN s : i < j => s[i] < s[j]

TypeOK ==
    /\ known \subseteq Collections
    /\ socket \in {"open", "closed"} /\ writer \in {"running", "ended"}
    /\ handler.at \in {"receiving", "enqueuing", "replying", "ended"}
    /\ heart \in {"waiting", "pinging", "closing", "ended"}
    /\ batch.at \in {"waiting", "gathering", "applying", "answering", "ended"}
    /\ Len(out) <= OutCapacity /\ Len(batchQueue) <= BatchCapacity
    /\ answered \subseteq 1..Len(received)
    /\ \A c \in Collections : subs[c].at \in {"none", "waiting", "sending", "ended"}

(* The upserts of one client reach each collection in the order it sent    *)
(* them: a later value of a point is never replaced by an earlier one.     *)
InOrder == \A c \in Collections : Increasing(applied[c])

(* So it is, and the variables keep their types, the queues their bounds.  *)
ConnectionInv == TypeOK /\ InOrder

(* While the client can be written to, no upsert it sent is forgotten, and *)
(* none is answered twice: each either has its answer or is still queued,  *)
(* in the batch being gathered, or in a group of it yet to be applied.     *)
Pending ==
    ToSet(batchQueue)
    \cup (IF handler.at = "enqueuing" THEN {Len(received)} ELSE {})
    \cup {n \in ToSet(batch.taken) : \/ batch.at = "gathering"
                                     \/ received[n].coll \in batch.groups
                                     \/ batch.at = "answering" /\ n \in batch.answer.of}

Accounted ==
    writer = "running" => /\ answered \cup Pending = 1..Len(received)
                          /\ answered \cap Pending = {}

(* A subscriber gets the events that pass its filter in the order they     *)
(* were emitted, each once, from the moment of its subscription on; it     *)
(* misses only those the channel had to drop because it lagged.            *)
NoGap ==
    \A c \in Collections :
        LET s == subs[c]
            wanted == {i \in (s.start + 1)..s.pos : emitted[c][i] \in s.filter} \ s.missed
        IN  /\ Increasing(s.sent)
            /\ s.at = "waiting" => ToSet(s.sent) = wanted
            /\ s.at = "sending" => ToSet(s.sent) = wanted \ {s.pos} /\ s.pos \in wanted

(* When the client is gone, the handler and every task of its connection   *)
(* come to an end (and the gauge of active connections goes down), even if *)
(* they are all waiting for room in full channels.                         *)
AllEnded ==
    /\ handler.at = "ended" /\ writer = "ended" /\ heart = "ended" /\ batch.at = "ended"
    /\ \A c \in Collections : subs[c].at \in {"none", "ended"}

Ends == socket = "closed" ~> AllEnded

(* No upsert stays unanswered for ever, unless the connection ends.  (The  *)
(* client's inputs are bounded: again and again there is none pending.)    *)
AnswersCome == []<>(handler.at = "ended" \/ answered = DOMAIN received)

(* Nor does a subscriber stay behind: each event it asked for reaches it,  *)
(* or is found missed.                                                     *)
EventsCome ==
    []<>\/ handler.at = "ended"
        \/ \A c \in Collections : \/ subs[c].at = "none"
                                  \/ subs[c].at = "waiting" /\ subs[c].pos = Len(emitted[c])

(* What a connection owes its client comes (process_upsert_batch,          *)
(* spawn_subscription_forwarder).                                          *)
Delivered == AnswersCome /\ EventsCome
=============================================================================
