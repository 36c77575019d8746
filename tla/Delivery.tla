------------------------------ MODULE Delivery ------------------------------
(***************************************************************************)
(* Delivery of one group's messages from the server to the local cache:    *)
(* the connection loop of the socket (ws.rs), the bounded broadcast        *)
(* channel to the sync engine's event loop, apply_incoming with its        *)
(* acknowledgement (sync.rs), the REST catch-up while the socket is down,  *)
(* and refresh_now called by Telegram handlers.  The server keeps one      *)
(* un-acked batch in flight per connection and group (docs, Delivery).     *)
(*                                                                         *)
(* A message is its seq.  Group events, echoes and heartbeats are left     *)
(* out, and so are revoked sessions and UpdateRequired, after which there  *)
(* is no delivery; the wait of a backoff and the limit of 50 pages.        *)
(***************************************************************************)
EXTENDS Naturals, Sequences, FiniteSets

CONSTANTS MaxSeq,      \* bound: messages of the group
          Loop,        \* the engine's event loop
          Handlers,    \* Telegram handlers that may call refresh_now
          Buffer,      \* WS_EVENT_BUFFER, 256 in the code
          Outbound,    \* capacity of the outbound channel, 64 in the code
          Failing,     \* what may fail
          MaxFaults    \* bound: failures

Seqs == 1..MaxSeq
Tasks == Handlers \cup {Loop}
Kinds == {"drop", "crash", "store", "ack", "rest", "other", "removed"}

ASSUME SizesAssumption == /\ MaxSeq \in Nat /\ MaxFaults \in Nat
                          /\ Buffer \in Nat \ {0} /\ Outbound \in Nat \ {0}
ASSUME TasksAssumption == Loop \notin Handlers
ASSUME FailingAssumption == Failing \subseteq Kinds

VARIABLES published,   \* the group has messages 1..published
          member,      \* we are in the group
          acked,       \* the server takes 1..acked for delivered
          inflight,    \* last seq of the un-acked batch of the open connection, or 0
          link,        \* the connection loop
          wire,        \* batches on the open connection, to us
          uplink,      \* acks on the open connection, to the server
          outbound,    \* acks queued for the connection loop
          frames,      \* socket events the event loop has not received
          lagged,      \* some of them were overwritten
          unseen,      \* the socket's state changed and the event loop has not looked
          connected,   \* SyncEngine::sync_state() == Connected
          row,         \* the group's row exists in the cache
          stored,      \* seqs in the `messages` table
          announced,   \* announced[s]: NewMessages events that carried s
          tasks,       \* tasks[t]: where t is in apply_incoming, and its batch
          faults

server == <<published, member, acked, inflight>>
socket == <<link, wire, uplink, outbound, frames, lagged, unseen>>
cache == <<row, stored, announced>>
vars == <<published, member, acked, inflight, link, wire, uplink, outbound, frames, lagged,
          unseen, connected, row, stored, announced, tasks, faults>>

-----------------------------------------------------------------------------

Batch == [lo : Seqs, hi : Seqs]
Connected == [lo |-> 0, hi |-> 0]      \* SocketEvent::Connected
Other == [lo |-> 0, hi |-> 1]          \* any event that is not about this group

Task == [pc   : {"idle", "page", "lookup", "store", "ack", "emit"},
         via  : {"socket", "rest"},    \* AckVia
         lo   : 0..MaxSeq,
         hi   : 0..MaxSeq,
         new  : SUBSET Seqs,           \* plan.new_message_ids
         more : BOOLEAN]

Idle == [pc |-> "idle", via |-> "socket", lo |-> 0, hi |-> 0, new |-> {}, more |-> FALSE]

TypeOK == /\ published \in 0..MaxSeq
          /\ member \in BOOLEAN
          /\ acked \in 0..MaxSeq
          /\ inflight \in 0..MaxSeq
          /\ link \in {"connecting", "up", "backoff"}
          /\ wire \in Seq(Batch)
          /\ uplink \in Seq(Seqs)
          /\ outbound \in Seq(Seqs)
          /\ frames \in Seq(Batch \cup {Connected, Other})
          /\ lagged \in BOOLEAN
          /\ unseen \in BOOLEAN
          /\ connected \in BOOLEAN
          /\ row \in BOOLEAN
          /\ stored \subseteq Seqs
          /\ announced \in [Seqs -> 0..2]
          /\ tasks \in [Tasks -> Task]
          /\ faults \in 0..MaxFaults

Fault(kind) == kind \in Failing /\ faults < MaxFaults /\ faults' = faults + 1

-----------------------------------------------------------------------------
(* The server *)

Publish ==
    /\ published < MaxSeq
    /\ published' = published + 1
    /\ UNCHANGED <<member, acked, inflight, socket, connected, cache, tasks, faults>>

\* Somebody removes us.
Remove ==
    /\ member
    /\ Fault("removed")
    /\ member' = FALSE
    /\ UNCHANGED <<published, acked, inflight, socket, connected, cache, tasks>>

\* One batch at a time, from the first message not acked.
Push ==
    /\ link = "up"
    /\ member
    /\ inflight = 0
    /\ \E hi \in Seqs :
          /\ acked < hi /\ hi <= published
          /\ wire' = Append(wire, [lo |-> acked + 1, hi |-> hi])
          /\ inflight' = hi
    /\ UNCHANGED <<published, member, acked, link, uplink, outbound, frames, lagged, unseen,
                   connected, cache, tasks, faults>>

\* The acks of somebody who is not in the group are ignored.
TakeAck(seq) == acked' = IF member /\ seq > acked THEN seq ELSE acked

ReceiveAck ==
    /\ uplink # <<>>
    /\ uplink' = Tail(uplink)
    /\ \/ /\ TakeAck(Head(uplink))
          /\ inflight' = IF Head(uplink) >= inflight THEN 0 ELSE inflight
          /\ UNCHANGED faults
       \/ Fault("ack") /\ UNCHANGED <<acked, inflight>>
    /\ UNCHANGED <<published, member, link, wire, outbound, frames, lagged, unseen,
                   connected, cache, tasks>>

-----------------------------------------------------------------------------
(* The connection loop *)

\* A broadcast channel: the oldest event is overwritten when it is full.
Broadcast(ev) ==
    IF Len(frames) < Buffer
    THEN frames' = Append(frames, ev) /\ UNCHANGED lagged
    ELSE frames' = Append(Tail(frames), ev) /\ lagged' = TRUE

\* hello, or the first messages frame.
Connect ==
    /\ link = "connecting"
    /\ link' = "up"
    /\ unseen' = TRUE
    /\ Broadcast(Connected)
    /\ UNCHANGED <<server, wire, uplink, outbound, connected, cache, tasks, faults>>

\* Connection or handshake fails: backoff_wait.
Refused ==
    /\ link = "connecting"
    /\ link' = "backoff"
    /\ unseen' = TRUE
    /\ UNCHANGED <<server, wire, uplink, outbound, frames, lagged, connected, cache, tasks, faults>>

Retry ==
    /\ link = "backoff"
    /\ link' = "connecting"
    /\ unseen' = TRUE
    /\ UNCHANGED <<server, wire, uplink, outbound, frames, lagged, connected, cache, tasks, faults>>

\* What is on the connection is lost; queued frames wait for the next one.
Close(next) ==
    /\ link' = next
    /\ wire' = <<>>
    /\ uplink' = <<>>
    /\ inflight' = 0
    /\ unseen' = TRUE

Drop ==
    /\ link = "up"
    /\ Fault("drop")
    /\ Close("backoff")
    /\ UNCHANGED <<published, member, acked, outbound, frames, lagged, connected, cache, tasks>>

ReceiveFrame ==
    /\ wire # <<>>
    /\ wire' = Tail(wire)
    /\ Broadcast(Head(wire))
    /\ UNCHANGED <<server, link, uplink, outbound, unseen, connected, cache, tasks, faults>>

\* Disconnected, and the events of other groups, share the channel.
ReceiveOther ==
    /\ Fault("other")
    /\ Broadcast(Other)
    /\ UNCHANGED <<server, link, wire, uplink, outbound, unseen, connected, cache, tasks>>

SendFrame ==
    /\ link = "up"
    /\ outbound # <<>>
    /\ uplink' = Append(uplink, Head(outbound))
    /\ outbound' = Tail(outbound)
    /\ UNCHANGED <<server, link, wire, frames, lagged, unseen, connected, cache, tasks, faults>>

-----------------------------------------------------------------------------
(* The event loop's select! *)

Become(t, task) == tasks' = [tasks EXCEPT ![t] = task]
Free(t) == tasks[t].pc = "idle"

\* Group list re-fetched, or not.
HandleConnected ==
    /\ Free(Loop)
    /\ ~lagged
    /\ frames # <<>>
    /\ Head(frames) = Connected
    /\ frames' = Tail(frames)
    /\ connected' = TRUE
    /\ row' \in {row, row \/ member}
    /\ UNCHANGED <<server, link, wire, uplink, outbound, lagged, unseen, stored, announced,
                   tasks, faults>>

HandleOther ==
    /\ Free(Loop)
    /\ ~lagged
    /\ frames # <<>>
    /\ Head(frames) = Other
    /\ frames' = Tail(frames)
    /\ UNCHANGED <<server, link, wire, uplink, outbound, lagged, unseen, connected, cache,
                   tasks, faults>>

HandleMessages ==
    /\ Free(Loop)
    /\ ~lagged
    /\ frames # <<>>
    /\ Head(frames) \in Batch
    /\ frames' = Tail(frames)
    /\ Become(Loop, [Idle EXCEPT !.pc = "lookup", !.lo = Head(frames).lo, !.hi = Head(frames).hi])
    /\ UNCHANGED <<server, link, wire, uplink, outbound, lagged, unseen, connected, cache, faults>>

\* Mutant of HandleLagged: carries on with what is left.
IgnoreLagged ==
    /\ Free(Loop)
    /\ lagged
    /\ lagged' = FALSE
    /\ UNCHANGED <<server, link, wire, uplink, outbound, frames, unseen, connected, cache,
                   tasks, faults>>

\* RecvError::Lagged: reconnect, so that the server sends the batch again.
HandleLagged ==
    /\ Free(Loop)
    /\ lagged
    /\ lagged' = FALSE
    /\ Close("connecting")
    /\ UNCHANGED <<published, member, acked, outbound, frames, connected, cache, tasks, faults>>

SeeState ==
    /\ Free(Loop)
    /\ unseen
    /\ unseen' = FALSE
    /\ connected' = (link = "up")
    /\ UNCHANGED <<server, link, wire, uplink, outbound, frames, lagged, cache, tasks, faults>>

CatchUp(t) == Become(t, [Idle EXCEPT !.pc = "page", !.via = "rest"])

\* Mutant of Poll: the test of the state the wrong way round.
PollIfConnected ==
    /\ Free(Loop)
    /\ connected
    /\ CatchUp(Loop)
    /\ UNCHANGED <<server, socket, connected, cache, faults>>

\* The fallback poll.
Poll ==
    /\ Free(Loop)
    /\ ~connected
    /\ CatchUp(Loop)
    /\ UNCHANGED <<server, socket, connected, cache, faults>>

\* refresh_now: the group list, then a catch-up unless connected.
Refresh(t) ==
    /\ Free(t)
    /\ row' = (row \/ member)
    /\ IF connected THEN UNCHANGED tasks ELSE CatchUp(t)
    /\ UNCHANGED <<server, socket, connected, stored, announced, faults>>

-----------------------------------------------------------------------------
(* rest_catch_up and apply_incoming *)

Return(t) == Become(t, Idle)

\* GET /v1/pending: a page with the group's row, nothing, or an error.
Page(t) ==
    /\ tasks[t].pc = "page"
    /\ \/ /\ \E hi \in Seqs :
                /\ member /\ acked < hi /\ hi <= published
                /\ Become(t, [Idle EXCEPT !.pc = "lookup", !.via = "rest", !.lo = acked + 1,
                                          !.hi = hi, !.more = (hi < published)])
          /\ row' = TRUE
          /\ UNCHANGED faults
       \/ /\ ~member \/ acked = published
          /\ Return(t)
          /\ UNCHANGED <<row, faults>>
       \/ /\ Fault("rest")
          /\ Return(t)
          /\ UNCHANGED row
    /\ UNCHANGED <<server, socket, connected, stored, announced>>

\* Mutant of Lookup: every error is taken for a 404.
LookupDropsOnError(t) ==
    /\ tasks[t].pc = "lookup"
    /\ \/ /\ row
          /\ Become(t, [tasks[t] EXCEPT !.pc = "store"])
          /\ UNCHANGED <<row, faults>>
       \/ /\ ~row
          /\ Fault("rest")
          /\ Become(t, [tasks[t] EXCEPT !.pc = "ack"])
          /\ UNCHANGED row
    /\ UNCHANGED <<server, socket, connected, stored, announced>>

\* An unknown group is fetched first; 404: the batch is acked and dropped.
Lookup(t) ==
    /\ tasks[t].pc = "lookup"
    /\ \/ /\ row
          /\ Become(t, [tasks[t] EXCEPT !.pc = "store"])
          /\ UNCHANGED <<row, faults>>
       \/ /\ ~row /\ member
          /\ row' = TRUE
          /\ Become(t, [tasks[t] EXCEPT !.pc = "store"])
          /\ UNCHANGED faults
       \/ /\ ~row /\ Fault("rest")
          /\ Become(t, [tasks[t] EXCEPT !.pc = "store"])
          /\ UNCHANGED row
       \/ /\ ~row /\ ~member
          /\ Become(t, [tasks[t] EXCEPT !.pc = "ack"])
          /\ UNCHANGED <<row, faults>>
    /\ UNCHANGED <<server, socket, connected, stored, announced>>

\* Mutant of Fresh: the whole batch is announced, duplicates included.
WholeBatch(t) == tasks[t].lo..tasks[t].hi

Fresh(t) == (tasks[t].lo..tasks[t].hi) \ stored

\* Mutant of Store: an error of the database is only logged, and the batch acked.
StoreOrNot(t) ==
    /\ tasks[t].pc = "store"
    /\ \/ /\ stored' = stored \cup Fresh(t)
          /\ Become(t, [tasks[t] EXCEPT !.pc = "ack", !.new = Fresh(t)])
          /\ UNCHANGED faults
       \/ /\ Fault("store")
          /\ Become(t, [tasks[t] EXCEPT !.pc = "ack"])
          /\ UNCHANGED stored
    /\ UNCHANGED <<server, socket, connected, row, announced>>

\* store_incoming_batch, one transaction; its error leaves the batch un-acked.
Store(t) ==
    /\ tasks[t].pc = "store"
    /\ \/ /\ stored' = stored \cup Fresh(t)
          /\ Become(t, [tasks[t] EXCEPT !.pc = "ack", !.new = Fresh(t)])
          /\ UNCHANGED faults
       \/ Fault("store") /\ Return(t) /\ UNCHANGED stored
    /\ UNCHANGED <<server, socket, connected, row, announced>>

\* A duplicate-only batch is acked too.  The outbound channel may be full.
AckSocket(t) ==
    /\ tasks[t].pc = "ack"
    /\ tasks[t].via = "socket"
    /\ Len(outbound) < Outbound
    /\ outbound' = Append(outbound, tasks[t].hi)
    /\ Become(t, [tasks[t] EXCEPT !.pc = "emit"])
    /\ UNCHANGED <<server, link, wire, uplink, frames, lagged, unseen, connected, cache, faults>>

\* A failed ack is only logged.
AckRest(t) ==
    /\ tasks[t].pc = "ack"
    /\ tasks[t].via = "rest"
    /\ \/ TakeAck(tasks[t].hi) /\ UNCHANGED faults
       \/ Fault("rest") /\ UNCHANGED acked
    /\ Become(t, [tasks[t] EXCEPT !.pc = "emit"])
    /\ UNCHANGED <<published, member, inflight, socket, connected, cache>>

\* NewMessages, and the next page while there is more.
Emit(t) ==
    /\ tasks[t].pc = "emit"
    /\ announced' = [s \in Seqs |-> IF s \in tasks[t].new THEN announced[s] + 1 ELSE announced[s]]
    /\ Become(t, IF tasks[t].more THEN [Idle EXCEPT !.pc = "page", !.via = "rest"] ELSE Idle)
    /\ UNCHANGED <<server, socket, connected, row, stored, faults>>

\* The process is killed and started again.
Crash ==
    /\ Fault("crash")
    /\ Close("connecting")
    /\ outbound' = <<>>
    /\ frames' = <<>>
    /\ lagged' = FALSE
    /\ connected' = FALSE
    /\ tasks' = [t \in Tasks |-> Idle]
    /\ UNCHANGED <<published, member, acked, cache>>

-----------------------------------------------------------------------------

Init ==
    /\ published = 0
    /\ member = TRUE
    /\ acked = 0
    /\ inflight = 0
    /\ link = "connecting"
    /\ wire = <<>>
    /\ uplink = <<>>
    /\ outbound = <<>>
    /\ frames = <<>>
    /\ lagged = FALSE
    /\ unseen = FALSE
    /\ connected = FALSE
    /\ row = FALSE
    /\ stored = {}
    /\ announced = [s \in Seqs |-> 0]
    /\ tasks = [t \in Tasks |-> Idle]
    /\ faults = 0

Server == Push \/ ReceiveAck
Connection == Connect \/ Refused \/ Retry \/ ReceiveFrame \/ SendFrame
Select == HandleConnected \/ HandleMessages \/ HandleOther \/ HandleLagged
Apply(t) == Page(t) \/ Lookup(t) \/ Store(t) \/ AckSocket(t) \/ AckRest(t) \/ Emit(t)

Next == \/ Publish \/ Remove
        \/ Server
        \/ Connection
        \/ Drop
        \/ ReceiveOther
        \/ Select
        \/ SeeState
        \/ Poll
        \/ \E t \in Handlers : Refresh(t)
        \/ \E t \in Tasks : Apply(t)
        \/ Crash

Spec == Init /\ [][Next]_vars

(***************************************************************************)
(* Tasks run; of the branches of a select! that stay ready none is passed  *)
(* over for ever; the loop tries to connect again and again, but nothing   *)
(* says that it succeeds.                                                  *)
(***************************************************************************)
FairSpec == /\ Spec
            /\ WF_vars(Server) /\ WF_vars(Connection)
            /\ SF_vars(Select) /\ SF_vars(SeeState) /\ SF_vars(Poll)
            /\ \A t \in Tasks : WF_vars(Apply(t))

\* The socket does not fail for ever: it connects, and stays up until an ack gets through.
StableSpec == /\ Spec
              /\ WF_vars(Server) /\ WF_vars(Connection)
              /\ SF_vars(Connect) /\ SF_vars(SendFrame) /\ SF_vars(ReceiveAck)
              /\ SF_vars(HandleConnected) /\ SF_vars(HandleMessages)
              /\ SF_vars(HandleOther) /\ SF_vars(HandleLagged)
              /\ \A t \in Tasks : WF_vars(Apply(t))

-----------------------------------------------------------------------------
(* Properties *)

Covers(n) == 1..n \subseteq stored
Entries(q) == {q[i] : i \in DOMAIN q}

\* What travels: no batch skips a message that is not stored yet, and every ack that a
\* member has queued or sent is for messages that are stored ("Delivery acknowledgement,
\* only now that the batch is durably stored").
AcksAreEarned ==
    /\ TypeOK
    /\ Covers(acked)
    /\ \A b \in Entries(wire) \cup (Entries(frames) \cap Batch) :
          Covers(b.lo - 1) /\ b.hi <= published
    /\ member => \A n \in Entries(outbound) \cup Entries(uplink) : Covers(n)
    /\ \A t \in Tasks :
          /\ tasks[t].pc \in {"lookup", "store"} =>
                Covers(tasks[t].lo - 1) /\ tasks[t].hi \in 1..published
          /\ tasks[t].pc = "ack" /\ member => Covers(tasks[t].hi)

\* A message is announced once at most, and only when it is stored: not again when it is
\* redelivered, when the socket and a REST catch-up bring it at the same time, or after a
\* restart ("Messages are deduplicated by id").
AnnouncedOnce ==
    /\ \A s \in Seqs : announced[s] <= 1 /\ (announced[s] = 1 => s \in stored)
    /\ \A t \in Tasks : \A s \in tasks[t].new :
          /\ s \in stored /\ announced[s] = 0
          /\ \A u \in Tasks \ {t} : s \notin tasks[u].new

Box == INSTANCE Mailbox

\* Delivery is in order, without gaps, and acknowledged only after it is stored, whatever
\* is lost, repeated, overwritten in the channel, or fetched by two tasks at the same time.
ImplementsMailbox == Box!Spec

\* Every message of the group gets to the cache, on the socket or over REST
\* ("an un-acked batch is simply redelivered").
EveryMessageArrives == \A s \in Seqs : s <= published ~> s \in stored \/ ~member
=============================================================================
