------------------------------ MODULE Forward ------------------------------
(***************************************************************************)
(* Relaying one group to its Telegram topic (bridge/mod.rs): messages that *)
(* the sync engine stored are announced on a channel, the account's run    *)
(* loop forwards them part by part, keeps a bookmark and one record per    *)
(* message in Directus, and then erases their text from the local cache.   *)
(* Every 45 s a flush forwards what is cached beyond the bookmark; on the  *)
(* first message the group's topic is created and its history imported.    *)
(*                                                                         *)
(* A message is its seq.  The cache, Directus and Telegram survive a       *)
(* crash; tasks and channels do not.  Topics that vanish or are closed,    *)
(* labels and notes are left out, and so is the flush's limit of 500.      *)
(***************************************************************************)
EXTENDS Naturals, Sequences, FiniteSets

CONSTANTS MaxSeq,      \* bound: messages of the group
          Own,         \* those written in Telegram, posted by this bridge
          Long,        \* those that take two Telegram messages (over 4000 characters)
          History,     \* BRIDGE_HISTORY_IMPORT
          Run,         \* the account's run loop
          Handlers,    \* Telegram handlers that may run /sync at the same time
          Engine,      \* the sync engine's event loop
          NoTask,
          MaxFaults    \* bound: failed calls, lost events and crashes

Seqs == 1..MaxSeq
Tasks == Handlers \cup {Run}
Appliers == Handlers \cup {Engine}

ASSUME SeqsAssumption == MaxSeq \in Nat /\ Own \subseteq Seqs /\ Long \subseteq Seqs
ASSUME TasksAssumption == /\ Run \notin Handlers
                          /\ Engine \notin Handlers
                          /\ NoTask \notin Tasks
ASSUME NumbersAssumption == History \in Nat /\ MaxFaults \in Nat

VARIABLES cache,      \* cache[s]: the body of s in the `messages` table
          acking,     \* acking[a]: stored by apply_incoming, its ack not answered yet
          events,     \* SyncEvents the run loop has not received
          confirms,   \* OutboxEvent::Confirmed the run loop has not received
          replied,    \* own messages whose POST was answered
          mapped,     \* the conversation exists in Directus
          bookmark,   \* its last_forwarded_seq
          known,      \* known[s]: the message-id mapping of s in Directus
          telegram,   \* what was posted to the topic, oldest first
          lock,       \* holder of the group's conv_lock
          tasks,      \* tasks[t]: where t is, and its locals
          faults

directus == <<mapped, bookmark, known>>
channels == <<acking, events, confirms, replied>>
vars == <<cache, acking, events, confirms, replied, mapped, bookmark, known, telegram,
          lock, tasks, faults>>

-----------------------------------------------------------------------------

Parts(s) == IF s \in Long THEN 1..2 ELSE {1}
Event == [kind : {"new", "echo"}, seqs : SUBSET Seqs]

Task == [pc    : {"idle", "ensure", "create", "commit", "lock", "each", "send", "record", "redact"},
         batch : SUBSET Seqs,      \* forwarded once the conversation is there
         todo  : SUBSET Seqs,      \* what forward_to is going through, in the order of seq
         base  : 0..MaxSeq,        \* the bookmark it read (or will create)
         max   : 0..MaxSeq,        \* max_seq
         part  : 1..2]

Idle == [pc |-> "idle", batch |-> {}, todo |-> {}, base |-> 0, max |-> 0, part |-> 1]

TypeOK == /\ cache \in [Seqs -> {"none", "text", "blank"}]
          /\ acking \in [Appliers -> SUBSET Seqs]
          /\ events \in Seq(Event)
          /\ confirms \subseteq replied
          /\ replied \subseteq Own
          /\ mapped \in BOOLEAN
          /\ bookmark \in 0..MaxSeq
          /\ known \in [Seqs -> {"none", "sent", "linked"}]
          /\ telegram \in Seq(Seqs \X (1..2))
          /\ lock \in Tasks \cup {NoTask}
          /\ tasks \in [Tasks -> Task]
          /\ faults \in 0..MaxFaults

\* Mutant of Least: newest first, as the inner query of thread() returns them.
Newest(S) == CHOOSE s \in S : \A r \in S : r <= s

Least(S) == CHOOSE s \in S : \A r \in S : s <= r
Greatest(S) == CHOOSE s \in S : \A r \in S : r <= s

Cached == {s \in Seqs : cache[s] # "none"}
Readable == {s \in Seqs : cache[s] = "text"}

\* redact_messages: whatever its state of delivery.
Redact(upTo) ==
    cache' = [s \in Seqs |-> IF s <= upTo /\ cache[s] = "text" THEN "blank" ELSE cache[s]]

\* confirm_outbound: only where record_outbound has come first.
Link(S) == known' = [s \in Seqs |-> IF s \in S /\ known[s] = "sent" THEN "linked" ELSE known[s]]

Fault == faults < MaxFaults /\ faults' = faults + 1

-----------------------------------------------------------------------------
(* The sync engine and the outbox *)

\* apply_incoming: the server delivers from the first message not acked yet.
Store(a, k) ==
    /\ acking[a] = {}
    /\ a \in Handlers => tasks[a].pc = "idle"
    /\ LET new == {s \in 1..k : cache[s] = "none"}
       IN  /\ new # {}
           /\ cache' = [s \in Seqs |-> IF s \in new THEN "text" ELSE cache[s]]
           /\ acking' = [acking EXCEPT ![a] = new]
    /\ UNCHANGED <<events, confirms, replied, directus, telegram, lock, tasks, faults>>

\* After the ack: echoes of the outbox first, then the other messages.
Announced(S) ==
    LET event(kind, T) == IF T = {} THEN <<>> ELSE <<[kind |-> kind, seqs |-> T]>>
    IN  event("echo", S \cap Own) \o event("new", S \ Own)

Announce(a) ==
    /\ acking[a] # {}
    /\ events' = events \o Announced(acking[a])
    /\ acking' = [acking EXCEPT ![a] = {}]
    /\ UNCHANGED <<cache, confirms, replied, directus, telegram, lock, tasks, faults>>

\* send_text writes the mapping after it has queued the message, or fails to.
RecordOutbound(s) ==
    /\ known[s] = "none"
    /\ known' = [known EXCEPT ![s] = "sent"]
    /\ UNCHANGED <<cache, channels, mapped, bookmark, telegram, lock, tasks, faults>>

\* The dispatcher got the reply to its POST: stored like an incoming message.
OwnReply(s) ==
    /\ s \notin replied
    /\ replied' = replied \cup {s}
    /\ cache' = [cache EXCEPT ![s] = IF @ = "none" THEN "text" ELSE @]
    /\ confirms' = confirms \cup {s}
    /\ UNCHANGED <<acking, events, directus, telegram, lock, tasks, faults>>

-----------------------------------------------------------------------------
(* The run loop's select! *)

Free == tasks[Run].pc = "idle"
Become(t, task) == tasks' = [tasks EXCEPT ![t] = task]

TakeNew ==
    /\ Free
    /\ events # <<>>
    /\ Head(events).kind = "new"
    /\ events' = Tail(events)
    /\ Become(Run, [Idle EXCEPT !.pc = "ensure", !.batch = Head(events).seqs])
    /\ UNCHANGED <<cache, acking, confirms, replied, directus, telegram, lock, faults>>

TakeEcho ==
    /\ Free
    /\ events # <<>>
    /\ Head(events).kind = "echo"
    /\ events' = Tail(events)
    /\ \/ Link(Head(events).seqs) /\ UNCHANGED faults
       \/ Fault /\ UNCHANGED known
    /\ UNCHANGED <<cache, acking, confirms, replied, mapped, bookmark, telegram, lock, tasks>>

\* handle_outbox_event: erases everything up to our own message.
TakeConfirmed ==
    /\ Free
    /\ \E s \in confirms :
          /\ confirms' = confirms \ {s}
          /\ Redact(s)
          /\ \/ Link({s}) /\ UNCHANGED faults
             \/ Fault /\ UNCHANGED known
    /\ UNCHANGED <<acking, events, replied, mapped, bookmark, telegram, lock, tasks>>

\* The broadcast channel overflowed: reconcile_topics.
TakeLagged ==
    /\ Free
    /\ events # <<>>
    /\ Fault
    /\ events' = Tail(events)
    /\ Become(Run, [Idle EXCEPT !.pc = "ensure"])
    /\ UNCHANGED <<cache, acking, confirms, replied, directus, telegram, lock>>

\* Mutant of Flush: off by one.
FlushLate ==
    /\ Free
    /\ mapped
    /\ LET pending == {s \in Readable : s > bookmark + 1}
       IN  /\ pending # {}
           /\ Become(Run, [Idle EXCEPT !.pc = "lock", !.todo = pending])
    /\ UNCHANGED <<cache, channels, directus, telegram, lock, faults>>

\* flush_unforwarded.
Flush ==
    /\ Free
    /\ mapped
    /\ LET pending == {s \in Readable : s > bookmark}
       IN  /\ pending # {}
           /\ Become(Run, [Idle EXCEPT !.pc = "lock", !.todo = pending])
    /\ UNCHANGED <<cache, channels, directus, telegram, lock, faults>>

\* reconcile_topics: after a catch-up, GroupJoined, or a handler's sync_refresh.
Reconcile(t) ==
    /\ tasks[t].pc = "idle"
    /\ t \in Handlers => acking[t] = {}
    /\ ~mapped
    /\ Become(t, [Idle EXCEPT !.pc = "ensure"])
    /\ UNCHANGED <<cache, channels, directus, telegram, lock, faults>>

-----------------------------------------------------------------------------
(* ensure_conversation *)

\* Ensured, or history imported: on to the batch the task came with.
Proceed(t) ==
    Become(t, IF tasks[t].batch = {} THEN Idle
              ELSE [Idle EXCEPT !.pc = "lock", !.todo = tasks[t].batch])

Return(t) == Become(t, Idle)

EnsureFound(t) ==
    /\ tasks[t].pc = "ensure"
    /\ mapped
    /\ Proceed(t)
    /\ UNCHANGED <<cache, channels, directus, telegram, lock, faults>>

EnsureLock(t) ==
    /\ tasks[t].pc = "ensure"
    /\ ~mapped
    /\ lock = NoTask
    /\ lock' = t
    /\ Become(t, [tasks[t] EXCEPT !.pc = "create"])
    /\ UNCHANGED <<cache, channels, directus, telegram, faults>>

\* The newest rows of the cache, as far as they still have their text.
HistoryTail == {s \in Readable : Cardinality({r \in Cached : r >= s}) <= History}

\* The topic is created; history and bookmark are read from the cache.
Snapshot(t) ==
    /\ tasks[t].pc = "create"
    /\ LET first == IF HistoryTail # {} THEN Least(HistoryTail) - 1
                    ELSE IF Cached # {} THEN Greatest(Cached) ELSE 0
       IN  Become(t, [tasks[t] EXCEPT !.pc = "commit", !.todo = HistoryTail, !.base = first])
    /\ UNCHANGED <<cache, channels, directus, telegram, lock, faults>>

\* The history is forwarded while the guard of conv_lock is still held.
Commit(t) ==
    /\ tasks[t].pc = "commit"
    /\ mapped' = TRUE
    /\ bookmark' = tasks[t].base
    /\ \/ /\ tasks[t].todo # {}
          /\ Become(t, [tasks[t] EXCEPT !.pc = "lock"])
          /\ UNCHANGED lock
       \/ /\ tasks[t].todo = {}
          /\ lock' = NoTask
          /\ Proceed(t)
    /\ UNCHANGED <<cache, channels, known, telegram, faults>>

-----------------------------------------------------------------------------
(* forward_to *)

\* Mutant of Lock: does not wait for the guard.
LockAnyway(t) ==
    /\ tasks[t].pc = "lock"
    /\ lock' = t
    /\ Become(t, [tasks[t] EXCEPT !.pc = "each", !.base = bookmark, !.max = bookmark])
    /\ UNCHANGED <<cache, channels, directus, telegram, faults>>

\* The bookmark is read again under the lock.
Lock(t) ==
    /\ tasks[t].pc = "lock"
    /\ lock = NoTask
    /\ lock' = t
    /\ Become(t, [tasks[t] EXCEPT !.pc = "each", !.base = bookmark, !.max = bookmark])
    /\ UNCHANGED <<cache, channels, directus, telegram, faults>>

\* Mutant of Forwarded: no look-up of the message-id mapping.
ForwardedByBookmark(t, s) == s <= tasks[t].base

\* Mutant of Forwarded: no look at the bookmark.
ForwardedByRecord(t, s) == known[s] = "linked"

Forwarded(t, s) == s <= tasks[t].base \/ known[s] = "linked"

\* Mutant of Each: a skipped message counts for max_seq.
EachCountsSkipped(t) ==
    /\ tasks[t].pc = "each"
    /\ tasks[t].todo # {}
    /\ LET s == Least(tasks[t].todo)
       IN  Become(t, IF Forwarded(t, s)
                     THEN [tasks[t] EXCEPT !.todo = @ \ {s}, !.max = IF s > @ THEN s ELSE @]
                     ELSE [tasks[t] EXCEPT !.pc = "send", !.part = 1])
    /\ UNCHANGED <<cache, channels, directus, telegram, lock, faults>>

\* The next message: skipped, or sent.
Each(t) ==
    /\ tasks[t].pc = "each"
    /\ tasks[t].todo # {}
    /\ LET s == Least(tasks[t].todo)
       IN  Become(t, IF Forwarded(t, s) THEN [tasks[t] EXCEPT !.todo = @ \ {s}]
                     ELSE [tasks[t] EXCEPT !.pc = "send", !.part = 1])
    /\ UNCHANGED <<cache, channels, directus, telegram, lock, faults>>

Post(t) == telegram' = Append(telegram, <<Least(tasks[t].todo), tasks[t].part>>)

Send(t) ==
    /\ tasks[t].pc = "send"
    /\ Post(t)
    /\ Become(t, [tasks[t] EXCEPT !.pc = "record"])
    /\ UNCHANGED <<cache, channels, directus, lock, faults>>

\* record_inbound, once per part; the message counts after its last one.
Recorded(t) == known' = [known EXCEPT ![Least(tasks[t].todo)] = "linked"]

\* Mutant of Record: max_seq is the next seq expected.
RecordNext(t) ==
    /\ tasks[t].pc = "record"
    /\ Recorded(t)
    /\ LET s == Least(tasks[t].todo)
       IN  Become(t, IF tasks[t].part + 1 \in Parts(s)
                     THEN [tasks[t] EXCEPT !.pc = "send", !.part = 2]
                     ELSE [tasks[t] EXCEPT !.pc = "each", !.todo = @ \ {s}, !.max = s + 1])
    /\ UNCHANGED <<cache, channels, mapped, bookmark, telegram, lock, faults>>

Record(t) ==
    /\ tasks[t].pc = "record"
    /\ Recorded(t)
    /\ LET s == Least(tasks[t].todo)
       IN  Become(t, IF tasks[t].part + 1 \in Parts(s)
                     THEN [tasks[t] EXCEPT !.pc = "send", !.part = 2]
                     ELSE [tasks[t] EXCEPT !.pc = "each", !.todo = @ \ {s}, !.max = s])
    /\ UNCHANGED <<cache, channels, mapped, bookmark, telegram, lock, faults>>

\* Nothing was sent: the bookmark stays.
NothingNew(t) ==
    /\ tasks[t].pc = "each"
    /\ tasks[t].todo = {}
    /\ tasks[t].max = tasks[t].base
    /\ lock' = NoTask
    /\ Proceed(t)
    /\ UNCHANGED <<cache, channels, directus, telegram, faults>>

Advance(t) ==
    /\ tasks[t].pc = "each"
    /\ tasks[t].todo = {}
    /\ tasks[t].max > tasks[t].base
    /\ bookmark' = tasks[t].max
    /\ Become(t, [tasks[t] EXCEPT !.pc = "redact"])
    /\ UNCHANGED <<cache, channels, mapped, known, telegram, lock, faults>>

\* A failed redaction is only logged.
Erase(t) ==
    /\ tasks[t].pc = "redact"
    /\ \/ Redact(tasks[t].max) /\ UNCHANGED faults
       \/ Fault /\ UNCHANGED cache
    /\ lock' = NoTask
    /\ Proceed(t)
    /\ UNCHANGED <<channels, directus, telegram>>

-----------------------------------------------------------------------------
(* Failures *)

\* A call to Directus or Telegram fails, done or not: `?` leaves, the guards are dropped.
Fail(t) ==
    /\ Fault
    /\ \/ /\ \/ tasks[t].pc \in {"ensure", "create", "commit"}
             \/ tasks[t].pc = "lock" /\ lock = NoTask
             \/ tasks[t].pc = "each" /\ (tasks[t].todo # {} \/ tasks[t].max > tasks[t].base)
          /\ UNCHANGED <<directus, telegram>>
       \/ /\ tasks[t].pc = "commit"
          /\ mapped' = TRUE
          /\ bookmark' = tasks[t].base
          /\ UNCHANGED <<known, telegram>>
       \/ /\ tasks[t].pc = "send"
          /\ Post(t) \/ UNCHANGED telegram
          /\ UNCHANGED directus
       \/ /\ tasks[t].pc = "record"
          /\ Recorded(t) \/ UNCHANGED known
          /\ UNCHANGED <<mapped, bookmark, telegram>>
       \/ /\ tasks[t].pc = "each"
          /\ tasks[t].todo = {}
          /\ tasks[t].max > tasks[t].base
          /\ bookmark' = tasks[t].max
          /\ UNCHANGED <<mapped, known, telegram>>
    /\ lock' = IF lock = t THEN NoTask ELSE lock
    /\ Return(t)
    /\ UNCHANGED <<cache, channels>>

Crash ==
    /\ Fault
    /\ acking' = [a \in Appliers |-> {}]
    /\ events' = <<>>
    /\ confirms' = {}
    /\ lock' = NoTask
    /\ tasks' = [t \in Tasks |-> Idle]
    /\ UNCHANGED <<cache, replied, directus, telegram>>

-----------------------------------------------------------------------------

Init ==
    /\ cache = [s \in Seqs |-> "none"]
    /\ acking = [a \in Appliers |-> {}]
    /\ events = <<>>
    /\ confirms = {}
    /\ replied = {}
    /\ mapped \in BOOLEAN
    /\ bookmark = 0
    /\ known = [s \in Seqs |-> "none"]
    /\ telegram = <<>>
    /\ lock = NoTask
    /\ tasks = [t \in Tasks |-> Idle]
    /\ faults = 0

Receive == TakeNew \/ TakeEcho \/ TakeConfirmed \/ TakeLagged

Step(t) == \/ EnsureFound(t) \/ EnsureLock(t) \/ Snapshot(t) \/ Commit(t)
           \/ Lock(t) \/ Each(t) \/ Send(t) \/ Record(t)
           \/ NothingNew(t) \/ Advance(t) \/ Erase(t)

Next == \/ \E a \in Appliers : Announce(a) \/ \E k \in Seqs : Store(a, k)
        \/ \E s \in Own : RecordOutbound(s) \/ OwnReply(s)
        \/ Receive
        \/ Flush
        \/ \E t \in Tasks : Reconcile(t) \/ Step(t) \/ Fail(t)
        \/ Crash

Spec == Init /\ [][Next]_vars

\* Tasks run, the flush's timer fires, events that wait are received.
Fairness == /\ \A t \in Tasks : WF_vars(Step(t))
            /\ \A a \in Appliers : WF_vars(Announce(a))
            /\ WF_vars(Receive)
            /\ SF_vars(Flush)

FairSpec == Spec /\ Fairness

-----------------------------------------------------------------------------
(* Properties *)

Posted(s, p) == \E n \in DOMAIN telegram : telegram[n] = <<s, p>>
Delivered(s) == \A p \in Parts(s) : Posted(s, p)

Inside(t) == tasks[t].pc \notin {"idle", "ensure", "lock"}

\* What a task inside the critical section relies on.
Relies(t, k) ==
    /\ lock = t
    /\ k.pc \in {"create", "commit"} => ~mapped
    /\ k.pc \in {"each", "send", "record"} => k.base = bookmark /\ k.base <= k.max
    /\ k.pc \in {"each", "send", "record", "redact"} /\ k.base < k.max => Delivered(k.max)
    /\ k.pc = "each" /\ k.base < k.max => \A s \in k.todo : k.max < s
    /\ k.pc \in {"send", "record"} =>
          /\ k.todo # {}
          /\ \A s \in k.todo : k.max < s
          /\ k.part \in Parts(Least(k.todo))
          /\ k.part = 2 => Posted(Least(k.todo), 1)
    /\ k.pc = "record" => Posted(Least(k.todo), k.part)

\* Only the holder of conv_lock creates the conversation or forwards, and what it read
\* under the lock stays true until it lets go: the bookmark is still the one it read, its
\* max_seq is a message that is completely in Telegram and below all it has yet to send.
UnderLock == \A t \in Tasks : Inside(t) => Relies(t, tasks[t])

\* advance_forwarded_seq is "Monotonic: only moves forward", although it writes whatever
\* its caller computed; and it never moves to a message that is not in Telegram as a whole.
BookmarkAdvances ==
    [][mapped /\ bookmark' # bookmark => bookmark' > bookmark /\ Delivered(bookmark')]_vars

\* A message, or a part of one, is posted twice at most once per failure: NewMessages, the
\* flush, the history import and a restart may all hold the same message ("idempotent
\* across restarts").
CopiesArePaid == Len(telegram) - Cardinality({telegram[n] : n \in DOMAIN telegram}) <= faults

Before(a, b) == a[1] < b[1] \/ (a[1] = b[1] /\ a[2] < b[2])

\* The topic goes back, to an earlier message or to one it has just shown, at most once per
\* failure: the run loop, the flush and a handler bring what they hold, and the batches of two
\* tasks may be announced in the opposite order, yet the bookmark keeps an older one out.
Backwards == {n \in 2..Len(telegram) : ~Before(telegram[n - 1], telegram[n])}
DisorderIsPaid == Cardinality(Backwards) <= faults

\* As long as nothing failed, with one engine and no message of our own, the topic shows
\* the group: in the order of seq, each part once, and no gap once it has begun.
InOrderOnce == faults = 0 =>
    /\ \A m, n \in DOMAIN telegram : m < n => Before(telegram[m], telegram[n])
    /\ \A r, s, t \in Seqs : r < s /\ s < t /\ Posted(r, 1) /\ Posted(t, 1) => Delivered(s)

\* What the flush would forward.
Leftover(s) == mapped /\ cache[s] = "text" /\ s > bookmark /\ ~Delivered(s)

\* No cached message waits for ever: it is forwarded, or the bookmark passes it.
LeftoverIsHandled == \A s \in Seqs : Leftover(s) ~> ~Leftover(s)

\* Every cached message beyond the bookmark gets to Telegram, whatever fails meanwhile
\* (README, Durability: "A 45-second flush re-forwards anything cached but not yet
\* delivered"; "Sends fail and are retried by the flush").
LeftoverArrives == \A s \in Seqs : Leftover(s) ~> Delivered(s)

\* A message whose text was erased is in Telegram ("already redacted => already delivered").
RedactedIsDelivered == \A s \in Seqs \ Own : cache[s] = "blank" => Delivered(s)
=============================================================================
