--------------------------- MODULE DeliveryProofs ---------------------------
(***************************************************************************)
(* Theorems about Delivery, for any number of messages and of Telegram     *)
(* handlers, any capacity of the channels and any number of failures.      *)
(***************************************************************************)
EXTENDS Delivery, SequenceTheorems, TLAPS

-----------------------------------------------------------------------------
(* Queues *)

Event == Batch \cup {Connected, Other}

LEMMA EntriesOfEmpty == Entries(<<>>) = {}
  BY DEF Entries

\* A queue that got one more entry.
LEMMA EntriesOfAppend ==
    ASSUME NEW S, NEW q \in Seq(S), NEW e \in S
    PROVE  Append(q, e) \in Seq(S) /\ Entries(Append(q, e)) \subseteq Entries(q) \cup {e}
<1>1. /\ Append(q, e) \in Seq(S)
      /\ Len(Append(q, e)) = Len(q) + 1
      /\ \A i \in 1..Len(q) : Append(q, e)[i] = q[i]
      /\ Append(q, e)[Len(q) + 1] = e
    BY AppendProperties
<1>2. Len(q) \in Nat /\ DOMAIN q = 1..Len(q)
    BY LenProperties
<1>3. DOMAIN Append(q, e) = 1..(Len(q) + 1)
    BY <1>1, LenProperties
<1>4. ASSUME NEW i \in DOMAIN Append(q, e)
      PROVE  Append(q, e)[i] \in Entries(q) \cup {e}
  <2>1. CASE i = Len(q) + 1
      BY <2>1, <1>1
  <2>2. CASE i # Len(q) + 1
    <3>1. i \in 1..Len(q)
        BY <2>2, <1>2, <1>3
    <3> QED BY <3>1, <1>1, <1>2 DEF Entries
  <2> QED BY <2>1, <2>2
<1> QED BY <1>1, <1>4 DEF Entries

\* The entry taken from a queue was in it, and so are those left.
LEMMA EntriesOfTail ==
    ASSUME NEW S, NEW q \in Seq(S), q # <<>>
    PROVE  /\ Head(q) \in S /\ Head(q) \in Entries(q)
           /\ Tail(q) \in Seq(S) /\ Entries(Tail(q)) \subseteq Entries(q)
<1>1. /\ Head(q) \in S
      /\ Tail(q) \in Seq(S)
      /\ Len(Tail(q)) = Len(q) - 1
      /\ \A i \in 1..Len(Tail(q)) : Tail(q)[i] = q[i + 1]
    BY HeadTailProperties
<1>2. Len(q) \in Nat \ {0}
    BY EmptySeq
<1>3. DOMAIN q = 1..Len(q) /\ DOMAIN Tail(q) = 1..Len(Tail(q))
    BY <1>1, LenProperties
<1>4. Head(q) = q[1] /\ 1 \in DOMAIN q
    BY <1>2, <1>3
<1>5. \A i \in DOMAIN Tail(q) : i + 1 \in DOMAIN q /\ Tail(q)[i] = q[i + 1]
    BY <1>1, <1>2, <1>3
<1> QED BY <1>1, <1>4, <1>5 DEF Entries

LEMMA EntriesTyped ==
    ASSUME NEW S, NEW q \in Seq(S)
    PROVE  Entries(q) \subseteq S
<1>1. DOMAIN q = 1..Len(q)
    BY LenProperties
<1>2. \A i \in 1..Len(q) : q[i] \in S
    BY ElementOfSeq
<1> QED BY <1>1, <1>2 DEF Entries

\* The channel may lose its oldest event; the only new one is the one sent.
LEMMA BroadcastKeeps ==
    ASSUME TypeOK, NEW ev \in Event, Broadcast(ev)
    PROVE  /\ frames' \in Seq(Event)
           /\ lagged' \in BOOLEAN
           /\ Entries(frames') \subseteq Entries(frames) \cup {ev}
<1>1. frames \in Seq(Event)
    BY DEF TypeOK, Event
<1>2. CASE Len(frames) < Buffer
  <2>1. frames' = Append(frames, ev) /\ lagged' = lagged
      BY <1>2 DEF Broadcast
  <2> QED BY <2>1, <1>1, EntriesOfAppend DEF TypeOK
<1>3. CASE ~(Len(frames) < Buffer)
  <2>1. frames' = Append(Tail(frames), ev) /\ lagged' = TRUE
      BY <1>3 DEF Broadcast
  <2>2. frames # <<>>
    <3>1. Len(<<>>) = 0
        BY EmptySeq
    <3> QED BY <3>1, <1>3, SizesAssumption
  <2>3. Tail(frames) \in Seq(Event) /\ Entries(Tail(frames)) \subseteq Entries(frames)
      BY <2>2, <1>1, EntriesOfTail
  <2>4. /\ Append(Tail(frames), ev) \in Seq(Event)
        /\ Entries(Append(Tail(frames), ev)) \subseteq Entries(Tail(frames)) \cup {ev}
      BY <2>3, EntriesOfAppend
  <2> QED BY <2>1, <2>3, <2>4
<1> QED BY <1>2, <1>3

-----------------------------------------------------------------------------
(* The inductive invariant *)

\* The cache is always a prefix of the group's messages.
Prefix == \E n \in 0..published : stored = 1..n

\* No batch on its way skips a message that is not stored.
NoGap(b) == Covers(b.lo - 1) /\ b.hi <= published
BatchesFollow == \A b \in Entries(wire) \cup (Entries(frames) \cap Batch) : NoGap(b)

\* What a member acks is stored.
AcksStored == member => \A n \in Entries(outbound) \cup Entries(uplink) : Covers(n)

\* What a task may do with the batch it holds.
Handles(t) ==
    /\ tasks[t].pc \in {"lookup", "store"} => tasks[t].lo \in Seqs /\ Covers(tasks[t].lo - 1)
    /\ tasks[t].pc \in {"lookup", "store", "ack"} => tasks[t].hi \in 1..published
    /\ tasks[t].pc = "ack" /\ member => Covers(tasks[t].hi)

\* The messages a task is about to announce are its own.
Owned == \A t \in Tasks : \A s \in tasks[t].new :
            /\ s \in stored /\ announced[s] = 0
            /\ \A u \in Tasks \ {t} : s \notin tasks[u].new
Counted == \A s \in Seqs : announced[s] <= 1 /\ (announced[s] = 1 => s \in stored)

Travel == Covers(acked) /\ BatchesFollow /\ AcksStored /\ \A t \in Tasks : Handles(t)
IInv == TypeOK /\ Prefix /\ Travel /\ Owned /\ Counted

LEMMA InvariantSuffices == IInv => AcksAreEarned /\ AnnouncedOnce
  BY DEF IInv, Travel, BatchesFollow, NoGap, AcksStored, Handles, Owned, Counted,
         AcksAreEarned, AnnouncedOnce

LEMMA IdleTask == Idle \in Task /\ Idle.pc = "idle" /\ Idle.new = {}
  BY SizesAssumption DEF Idle, Task, Seqs

\* What Become leaves of the table of tasks.
LEMMA Becomes ==
    ASSUME TypeOK, NEW t \in Tasks, NEW k \in Task, Become(t, k)
    PROVE  /\ tasks' \in [Tasks -> Task] /\ tasks'[t] = k
           /\ \A u \in Tasks \ {t} : tasks'[u] = tasks[u]
  BY DEF TypeOK, Become

\* A task with one field changed.
LEMMA MovedTask ==
    ASSUME NEW k \in Task,
           NEW p \in {"idle", "page", "lookup", "store", "ack", "emit"}
    PROVE  LET m == [k EXCEPT !.pc = p]
           IN  m \in Task /\ m.pc = p /\ m.new = k.new /\ m.lo = k.lo /\ m.hi = k.hi
  BY DEF Task

LEMMA RestTask ==
    ASSUME NEW k \in Task
    PROVE  LET m == [k EXCEPT !.via = "rest"]
           IN  m \in Task /\ m.pc = k.pc /\ m.new = k.new /\ m.lo = k.lo /\ m.hi = k.hi
  BY DEF Task

LEMMA RangedTask ==
    ASSUME NEW k \in Task, NEW n \in 0..MaxSeq
    PROVE  LET l == [k EXCEPT !.lo = n]
               h == [k EXCEPT !.hi = n]
           IN  /\ l \in Task /\ l.pc = k.pc /\ l.new = k.new /\ l.lo = n /\ l.hi = k.hi
               /\ h \in Task /\ h.pc = k.pc /\ h.new = k.new /\ h.lo = k.lo /\ h.hi = n
  BY DEF Task

LEMMA MoreTask ==
    ASSUME NEW k \in Task, NEW b \in BOOLEAN
    PROVE  LET m == [k EXCEPT !.more = b]
           IN  m \in Task /\ m.pc = k.pc /\ m.new = k.new /\ m.lo = k.lo /\ m.hi = k.hi
  BY DEF Task

\* store_incoming_batch's result.
LEMMA StoredTask ==
    ASSUME NEW k \in Task, NEW n \in SUBSET Seqs
    PROVE  LET m == [k EXCEPT !.pc = "ack", !.new = n]
           IN  m \in Task /\ m.pc = "ack" /\ m.new = n /\ m.lo = k.lo /\ m.hi = k.hi
<1> DEFINE j == [k EXCEPT !.pc = "ack"]
<1>1. j \in Task /\ j.pc = "ack" /\ j.lo = k.lo /\ j.hi = k.hi
    BY MovedTask
<1>2. [k EXCEPT !.pc = "ack", !.new = n] = [j EXCEPT !.new = n]
    OBVIOUS
<1> HIDE DEF j
<1>3. /\ [j EXCEPT !.new = n] \in Task
      /\ [j EXCEPT !.new = n].new = n
      /\ [j EXCEPT !.new = n].pc = j.pc
      /\ [j EXCEPT !.new = n].lo = j.lo /\ [j EXCEPT !.new = n].hi = j.hi
    BY <1>1 DEF Task
<1> QED BY <1>1, <1>2, <1>3

\* A task that takes up a catch-up.
LEMMA PageTask ==
    LET m == [Idle EXCEPT !.pc = "page", !.via = "rest"]
    IN  m \in Task /\ m.pc = "page" /\ m.new = {}
<1> DEFINE a == [Idle EXCEPT !.pc = "page"]
<1>1. a \in Task /\ a.pc = "page" /\ a.new = {}
    BY IdleTask, MovedTask
<1>2. [Idle EXCEPT !.pc = "page", !.via = "rest"] = [a EXCEPT !.via = "rest"]
    OBVIOUS
<1> HIDE DEF a
<1> QED BY <1>1, <1>2, RestTask

\* A task that takes up a batch of the socket.
Frame(lo, hi) == [Idle EXCEPT !.pc = "lookup", !.lo = lo, !.hi = hi]

LEMMA FrameTask ==
    ASSUME NEW lo \in Seqs, NEW hi \in Seqs
    PROVE  LET m == Frame(lo, hi)
           IN  m \in Task /\ m.pc = "lookup" /\ m.new = {} /\ m.lo = lo /\ m.hi = hi
<1> DEFINE a == [Idle EXCEPT !.pc = "lookup"]
           b == [a EXCEPT !.lo = lo]
<1>1. lo \in 0..MaxSeq /\ hi \in 0..MaxSeq
    BY SizesAssumption DEF Seqs
<1>2. Frame(lo, hi) = [b EXCEPT !.hi = hi]
    BY DEF Frame
<1>3. a \in Task /\ a.pc = "lookup" /\ a.new = {}
    BY IdleTask, MovedTask
<1> HIDE DEF a
<1>4. b \in Task /\ b.pc = "lookup" /\ b.new = {} /\ b.lo = lo
    BY <1>1, <1>3, RangedTask
<1> HIDE DEF b
<1> DEFINE c == [b EXCEPT !.hi = hi]
<1>5. c \in Task /\ c.pc = "lookup" /\ c.new = {} /\ c.lo = lo /\ c.hi = hi
    BY <1>1, <1>4, RangedTask
<1> QED BY <1>2, <1>5, Zenon

\* A task that takes up a page of GET /v1/pending.
Pending(lo, hi, more) ==
    [Idle EXCEPT !.pc = "lookup", !.via = "rest", !.lo = lo, !.hi = hi, !.more = more]

LEMMA PendingTask ==
    ASSUME NEW lo \in Seqs, NEW hi \in Seqs, NEW more \in BOOLEAN
    PROVE  LET m == Pending(lo, hi, more)
           IN  m \in Task /\ m.pc = "lookup" /\ m.new = {} /\ m.lo = lo /\ m.hi = hi
<1> DEFINE a == [Idle EXCEPT !.pc = "lookup"]
           b == [a EXCEPT !.via = "rest"]
           c == [b EXCEPT !.lo = lo]
           d == [c EXCEPT !.hi = hi]
<1>1. lo \in 0..MaxSeq /\ hi \in 0..MaxSeq
    BY SizesAssumption DEF Seqs
<1>2. Pending(lo, hi, more) = [d EXCEPT !.more = more]
    BY DEF Pending
<1>3. a \in Task /\ a.pc = "lookup" /\ a.new = {}
    BY IdleTask, MovedTask
<1> HIDE DEF a
<1>4. b \in Task /\ b.pc = "lookup" /\ b.new = {}
    BY <1>3, RestTask
<1> HIDE DEF b
<1>5. c \in Task /\ c.pc = "lookup" /\ c.new = {} /\ c.lo = lo
    BY <1>1, <1>4, RangedTask
<1> HIDE DEF c
<1>6. d \in Task /\ d.pc = "lookup" /\ d.new = {} /\ d.lo = lo /\ d.hi = hi
    BY <1>1, <1>5, RangedTask
<1> HIDE DEF d
<1> DEFINE e == [d EXCEPT !.more = more]
<1>7. e \in Task /\ e.pc = "lookup" /\ e.new = {} /\ e.lo = lo /\ e.hi = hi
    BY <1>6, MoreTask
<1> QED BY <1>2, <1>7, Zenon

-----------------------------------------------------------------------------
(* What keeps each part of the invariant *)

\* The cache and the group only grow, and nobody joins a group again.
Grows == /\ stored \subseteq stored' /\ published <= published' /\ (member' => member)

LEMMA BatchesKept ==
    ASSUME TypeOK, TypeOK', Grows, BatchesFollow,
           \A b \in Entries(wire') \cup (Entries(frames') \cap Batch) :
                b \in Entries(wire) \cup (Entries(frames) \cap Batch) \/ NoGap(b)
    PROVE  BatchesFollow'
<1>1. ASSUME NEW b \in Batch, NoGap(b)
      PROVE  NoGap(b)'
  <2>1. b.hi \in Nat /\ published \in Nat /\ published' \in Nat
      BY SizesAssumption DEF Batch, Seqs, TypeOK
  <2>2. b.hi <= published'
    <3>1. b.hi <= published /\ published <= published'
        BY <1>1 DEF Grows, NoGap
    <3> QED BY <2>1, <3>1
  <2>3. Covers(b.lo - 1)'
      BY <1>1 DEF NoGap, Covers, Grows
  <2> QED BY <2>2, <2>3 DEF NoGap
<1>2. Entries(wire') \subseteq Batch
    BY EntriesTyped DEF TypeOK
<1>3. \A b \in Entries(wire') \cup (Entries(frames') \cap Batch) : b \in Batch /\ NoGap(b)
    BY <1>2 DEF BatchesFollow
<1> QED BY <1>1, <1>3 DEF BatchesFollow, Entries

LEMMA AcksKept ==
    ASSUME Grows, AcksStored,
           \A n \in Entries(outbound') \cup Entries(uplink') :
                n \in Entries(outbound) \cup Entries(uplink) \/ (member => Covers(n))
    PROVE  AcksStored'
<1>1. \A n : Covers(n) => Covers(n)'
    BY DEF Covers, Grows
<1> QED BY <1>1 DEF AcksStored, Grows, Entries

LEMMA HandlesKept ==
    ASSUME TypeOK, TypeOK', Grows, NEW t \in Tasks, Handles(t), tasks'[t] = tasks[t]
    PROVE  Handles(t)'
<1>1. \A n : Covers(n) => Covers(n)'
    BY DEF Covers, Grows
<1>2. published \in Nat /\ published' \in Nat
    BY SizesAssumption DEF TypeOK
<1>3. \A n \in 1..published : n \in 1..published'
    BY <1>2 DEF Grows
<1> QED BY <1>1, <1>3 DEF Handles, Grows

LEMMA OwnedKept ==
    ASSUME Owned, Counted, stored \subseteq stored', announced' = announced,
           \A t \in Tasks : tasks'[t].new \subseteq tasks[t].new
    PROVE  Owned' /\ Counted'
  BY DEF Owned, Counted

\* The prefix of the group that is stored contains what the server takes for delivered.
LEMMA AckedStored ==
    ASSUME TypeOK, Prefix, Covers(acked)
    PROVE  acked <= published
<1>1. PICK n \in 0..published : stored = 1..n
    BY DEF Prefix
<1>2. acked \in Nat /\ published \in Nat
    BY SizesAssumption DEF TypeOK
<1> QED BY <1>1, <1>2 DEF Covers

LEMMA PrefixKept ==
    ASSUME TypeOK, TypeOK', Prefix, stored' = stored, published <= published'
    PROVE  Prefix'
<1>1. published \in Nat /\ published' \in Nat
    BY SizesAssumption DEF TypeOK
<1>2. \A n \in 0..published : n \in 0..published'
    BY <1>1
<1> QED BY <1>2 DEF Prefix

-----------------------------------------------------------------------------
(* Each step keeps the invariant *)

LEMMA Faults == ASSUME TypeOK, NEW k, Fault(k) PROVE faults' \in 0..MaxFaults
  BY SizesAssumption DEF TypeOK, Fault

\* Steps that move or lose what is queued, and add nothing to it.
LEMMA QueueStep ==
    ASSUME IInv, TypeOK', member' => member,
           UNCHANGED <<published, acked, stored, announced, tasks>>,
           \A b \in Entries(wire') \cup (Entries(frames') \cap Batch) :
                b \in Entries(wire) \cup (Entries(frames) \cap Batch),
           \A n \in Entries(outbound') \cup Entries(uplink') :
                n \in Entries(outbound) \cup Entries(uplink)
    PROVE  IInv'
<1>1. Grows
    BY SizesAssumption DEF Grows, IInv, TypeOK
<1>2. Prefix'
    BY PrefixKept, <1>1 DEF IInv, Grows
<1>3. Covers(acked)'
    BY DEF IInv, Travel, Covers
<1>4. BatchesFollow'
    BY <1>1, BatchesKept DEF IInv, Travel
<1>5. AcksStored'
    BY <1>1, AcksKept DEF IInv, Travel
<1>6. \A t \in Tasks : Handles(t)'
    BY <1>1, HandlesKept DEF IInv, Travel
<1>7. Owned' /\ Counted'
    BY OwnedKept DEF IInv
<1> QED BY <1>2, <1>3, <1>4, <1>5, <1>6, <1>7 DEF IInv, Travel

LEMMA EventTyped == Batch \subseteq Event /\ Connected \in Event /\ Other \in Event
  BY DEF Event

LEMMA NotBatches == Connected \notin Batch /\ Other \notin Batch
  BY SizesAssumption DEF Connected, Other, Batch, Seqs

LEMMA StepPublish == ASSUME IInv, Publish PROVE IInv'
<1>1. TypeOK'
    BY SizesAssumption DEF IInv, Publish, TypeOK, socket, cache
<1>2. Grows
    BY SizesAssumption DEF IInv, Publish, TypeOK, Grows, cache
<1>3. Prefix'
    BY <1>1, <1>2, PrefixKept DEF IInv, Publish, cache, Grows
<1>4. Covers(acked)'
    BY DEF IInv, Travel, Covers, Publish, cache
<1>5. BatchesFollow'
    BY <1>1, <1>2, BatchesKept DEF IInv, Travel, Publish, socket
<1>6. AcksStored'
    BY <1>1, <1>2, AcksKept DEF IInv, Travel, Publish, socket
<1>7. \A t \in Tasks : Handles(t)'
    BY <1>1, <1>2, HandlesKept DEF IInv, Travel, Publish
<1>8. Owned' /\ Counted'
    BY OwnedKept DEF IInv, Publish, cache
<1> QED BY <1>1, <1>3, <1>4, <1>5, <1>6, <1>7, <1>8 DEF IInv, Travel

LEMMA StepRemove == ASSUME IInv, Remove PROVE IInv'
<1>1. TypeOK'
    BY Faults DEF IInv, Remove, TypeOK, socket, cache
<1> QED BY <1>1, QueueStep DEF Remove, socket, cache

LEMMA StepPush == ASSUME IInv, Push PROVE IInv'
<1>1. PICK hi \in Seqs : /\ acked < hi /\ hi <= published
                         /\ wire' = Append(wire, [lo |-> acked + 1, hi |-> hi])
                         /\ inflight' = hi
    BY DEF Push
<1> DEFINE b == [lo |-> acked + 1, hi |-> hi]
<1>2. acked \in Nat /\ acked + 1 \in Seqs /\ hi \in 0..MaxSeq
    BY <1>1, SizesAssumption DEF IInv, TypeOK, Seqs
<1>3. b \in Batch
    BY <1>2 DEF Batch
<1>4. NoGap(b)
  <2>1. b.lo - 1 = acked
      BY <1>2
  <2> QED BY <2>1, <1>1 DEF NoGap, IInv, Travel
<1> HIDE DEF b
<1>5. wire' \in Seq(Batch) /\ Entries(wire') \subseteq Entries(wire) \cup {b}
    BY <1>1, <1>3, EntriesOfAppend DEF IInv, TypeOK, b
<1>6. TypeOK'
    BY <1>1, <1>2, <1>5 DEF IInv, Push, TypeOK, cache
<1>7. Grows
    BY SizesAssumption DEF IInv, TypeOK, Push, Grows, cache
<1>8. Prefix'
    BY <1>6, <1>7, PrefixKept DEF IInv, Push, cache, Grows
<1>9. Covers(acked)'
    BY DEF IInv, Travel, Covers, Push, cache
<1>10. BatchesFollow'
    BY <1>4, <1>5, <1>6, <1>7, BatchesKept DEF IInv, Travel, Push
<1>11. AcksStored'
    BY <1>7, AcksKept DEF IInv, Travel, Push
<1>12. \A t \in Tasks : Handles(t)'
    BY <1>6, <1>7, HandlesKept DEF IInv, Travel, Push
<1>13. Owned' /\ Counted'
    BY OwnedKept DEF IInv, Push, cache
<1> QED BY <1>6, <1>8, <1>9, <1>10, <1>11, <1>12, <1>13 DEF IInv, Travel

\* The server takes an ack, of a batch that is stored if we are still a member.
LEMMA Acknowledged ==
    ASSUME IInv, NEW n \in Seqs, TakeAck(n), member => Covers(n),
           stored' = stored
    PROVE  acked' \in 0..MaxSeq /\ Covers(acked)'
<1>1. acked' = acked \/ (acked' = n /\ Covers(n))
    BY DEF TakeAck
<1> QED BY <1>1, SizesAssumption DEF IInv, Travel, TypeOK, Covers, Seqs

LEMMA StepReceiveAck == ASSUME IInv, ReceiveAck PROVE IInv'
<1>1. uplink \in Seq(Seqs) /\ uplink # <<>> /\ uplink' = Tail(uplink)
    BY DEF IInv, TypeOK, ReceiveAck
<1>2. /\ Head(uplink) \in Seqs /\ Head(uplink) \in Entries(uplink)
      /\ uplink' \in Seq(Seqs) /\ Entries(uplink') \subseteq Entries(uplink)
    BY <1>1, EntriesOfTail
<1>3. member => Covers(Head(uplink))
    BY <1>2 DEF IInv, Travel, AcksStored
<1>4. stored' = stored
    BY DEF ReceiveAck, cache
<1>5. acked' \in 0..MaxSeq /\ Covers(acked)'
  <2>1. CASE TakeAck(Head(uplink))
      BY <2>1, <1>2, <1>3, <1>4, Acknowledged
  <2>2. CASE UNCHANGED acked
      BY <2>2, <1>4 DEF IInv, TypeOK, Travel, Covers
  <2> QED BY <2>1, <2>2 DEF ReceiveAck
<1>6. inflight' \in 0..MaxSeq /\ faults' \in 0..MaxFaults
    BY Faults, SizesAssumption DEF IInv, TypeOK, ReceiveAck
<1>7. TypeOK'
    BY <1>2, <1>5, <1>6 DEF IInv, TypeOK, ReceiveAck, cache
<1>8. Grows
    BY SizesAssumption DEF IInv, TypeOK, ReceiveAck, Grows, cache
<1>9. Prefix'
    BY <1>7, <1>8, PrefixKept DEF IInv, ReceiveAck, cache, Grows
<1>10. BatchesFollow'
    BY <1>7, <1>8, BatchesKept DEF IInv, Travel, ReceiveAck
<1>11. AcksStored'
    BY <1>2, <1>8, AcksKept DEF IInv, Travel, ReceiveAck
<1>12. \A t \in Tasks : Handles(t)'
    BY <1>7, <1>8, HandlesKept DEF IInv, Travel, ReceiveAck
<1>13. Owned' /\ Counted'
    BY OwnedKept DEF IInv, ReceiveAck, cache
<1> QED BY <1>5, <1>7, <1>9, <1>10, <1>11, <1>12, <1>13 DEF IInv, Travel

LEMMA StepConnect == ASSUME IInv, Connect PROVE IInv'
<1>1. /\ frames' \in Seq(Event) /\ lagged' \in BOOLEAN
      /\ Entries(frames') \subseteq Entries(frames) \cup {Connected}
    BY EventTyped, BroadcastKeeps DEF IInv, Connect
<1>2. TypeOK'
    BY <1>1 DEF IInv, Connect, TypeOK, server, cache, Event
<1> QED BY <1>1, <1>2, NotBatches, QueueStep DEF Connect, server, cache

LEMMA StepRefused == ASSUME IInv, Refused PROVE IInv'
<1>1. TypeOK'
    BY DEF IInv, Refused, TypeOK, server, cache
<1> QED BY <1>1, QueueStep DEF Refused, server, cache

LEMMA StepRetry == ASSUME IInv, Retry PROVE IInv'
<1>1. TypeOK'
    BY DEF IInv, Retry, TypeOK, server, cache
<1> QED BY <1>1, QueueStep DEF Retry, server, cache

LEMMA Closed ==
    ASSUME IInv, NEW next \in {"connecting", "backoff"}, Close(next)
    PROVE  /\ link' \in {"connecting", "up", "backoff"} /\ unseen' \in BOOLEAN
           /\ inflight' \in 0..MaxSeq
           /\ wire' \in Seq(Batch) /\ Entries(wire') = {}
           /\ uplink' \in Seq(Seqs) /\ Entries(uplink') = {}
  BY EntriesOfEmpty, SizesAssumption, EmptySeq DEF Close

LEMMA StepDrop == ASSUME IInv, Drop PROVE IInv'
<1>1. Close("backoff") /\ "backoff" \in {"connecting", "backoff"}
    BY DEF Drop
<1>2. TypeOK'
    BY <1>1, Closed, Faults DEF IInv, Drop, TypeOK, cache
<1> QED BY <1>1, <1>2, Closed, QueueStep DEF Drop, cache

LEMMA StepReceiveFrame == ASSUME IInv, ReceiveFrame PROVE IInv'
<1>1. /\ Head(wire) \in Batch /\ Head(wire) \in Entries(wire)
      /\ wire' \in Seq(Batch) /\ Entries(wire') \subseteq Entries(wire)
    BY EntriesOfTail DEF IInv, TypeOK, ReceiveFrame
<1>2. /\ frames' \in Seq(Event) /\ lagged' \in BOOLEAN
      /\ Entries(frames') \subseteq Entries(frames) \cup {Head(wire)}
    BY <1>1, EventTyped, BroadcastKeeps DEF IInv, ReceiveFrame
<1>3. TypeOK'
    BY <1>1, <1>2 DEF IInv, ReceiveFrame, TypeOK, server, cache, Event
<1> QED BY <1>1, <1>2, <1>3, QueueStep DEF ReceiveFrame, server, cache

LEMMA StepReceiveOther == ASSUME IInv, ReceiveOther PROVE IInv'
<1>1. /\ frames' \in Seq(Event) /\ lagged' \in BOOLEAN
      /\ Entries(frames') \subseteq Entries(frames) \cup {Other}
    BY EventTyped, BroadcastKeeps DEF IInv, ReceiveOther
<1>2. TypeOK'
    BY <1>1, Faults DEF IInv, ReceiveOther, TypeOK, server, cache, Event
<1> QED BY <1>1, <1>2, NotBatches, QueueStep DEF ReceiveOther, server, cache

LEMMA StepSendFrame == ASSUME IInv, SendFrame PROVE IInv'
<1>1. /\ Head(outbound) \in Seqs /\ Head(outbound) \in Entries(outbound)
      /\ outbound' \in Seq(Seqs) /\ Entries(outbound') \subseteq Entries(outbound)
    BY EntriesOfTail DEF IInv, TypeOK, SendFrame
<1>2. /\ uplink' \in Seq(Seqs)
      /\ Entries(uplink') \subseteq Entries(uplink) \cup {Head(outbound)}
    BY <1>1, EntriesOfAppend DEF IInv, TypeOK, SendFrame
<1>3. TypeOK'
    BY <1>1, <1>2 DEF IInv, SendFrame, TypeOK, server, cache
<1> QED BY <1>1, <1>2, <1>3, QueueStep DEF SendFrame, server, cache

\* An event is taken from the channel.
LEMMA Received ==
    ASSUME IInv, frames # <<>>, frames' = Tail(frames)
    PROVE  /\ Head(frames) \in Entries(frames)
           /\ frames' \in Seq(Event) /\ Entries(frames') \subseteq Entries(frames)
<1>1. frames \in Seq(Event)
    BY DEF IInv, TypeOK, Event
<1> QED BY <1>1, EntriesOfTail

LEMMA StepHandleConnected == ASSUME IInv, HandleConnected PROVE IInv'
<1>1. frames' \in Seq(Event) /\ Entries(frames') \subseteq Entries(frames)
    BY Received DEF HandleConnected
<1>2. row' \in BOOLEAN
    BY DEF HandleConnected, IInv, TypeOK
<1>3. TypeOK'
    BY <1>1, <1>2 DEF IInv, HandleConnected, TypeOK, server, Event
<1> QED BY <1>1, <1>3, QueueStep DEF HandleConnected, server

LEMMA StepHandleOther == ASSUME IInv, HandleOther PROVE IInv'
<1>1. frames' \in Seq(Event) /\ Entries(frames') \subseteq Entries(frames)
    BY Received DEF HandleOther
<1>2. TypeOK'
    BY <1>1 DEF IInv, HandleOther, TypeOK, server, cache, Event
<1> QED BY <1>1, <1>2, QueueStep DEF HandleOther, server, cache

LEMMA StepHandleLagged == ASSUME IInv, HandleLagged PROVE IInv'
<1>1. Close("connecting") /\ "connecting" \in {"connecting", "backoff"}
    BY DEF HandleLagged
<1>2. TypeOK'
    BY <1>1, Closed DEF IInv, HandleLagged, TypeOK, cache
<1> QED BY <1>1, <1>2, Closed, QueueStep DEF HandleLagged, cache

LEMMA StepSeeState == ASSUME IInv, SeeState PROVE IInv'
<1>1. TypeOK'
    BY DEF IInv, SeeState, TypeOK, server, cache
<1> QED BY <1>1, QueueStep DEF SeeState, server, cache

\* Steps of one task that store and announce nothing.
LEMMA TaskStep ==
    ASSUME IInv, TypeOK', NEW t \in Tasks,
           UNCHANGED <<published, member, stored, announced>>,
           Covers(acked)',
           \A b \in Entries(wire') \cup (Entries(frames') \cap Batch) :
                b \in Entries(wire) \cup (Entries(frames) \cap Batch),
           \A n \in Entries(outbound') \cup Entries(uplink') :
                n \in Entries(outbound) \cup Entries(uplink) \/ (member => Covers(n)),
           \A u \in Tasks \ {t} : tasks'[u] = tasks[u],
           tasks'[t].new \subseteq tasks[t].new,
           Handles(t)'
    PROVE  IInv'
<1>1. Grows
    BY SizesAssumption DEF Grows, IInv, TypeOK
<1>2. Prefix'
    BY PrefixKept, <1>1 DEF IInv, Grows
<1>4. BatchesFollow'
    BY <1>1, BatchesKept DEF IInv, Travel
<1>5. AcksStored'
    BY <1>1, AcksKept DEF IInv, Travel
<1>6. \A u \in Tasks \ {t} : Handles(u)'
    BY <1>1, HandlesKept DEF IInv, Travel
<1>7. Owned' /\ Counted'
    BY OwnedKept DEF IInv
<1> QED BY <1>2, <1>4, <1>5, <1>6, <1>7 DEF IInv, Travel

LEMMA LoopTask == Loop \in Tasks /\ Handlers \subseteq Tasks
  BY DEF Tasks

\* A task with no batch.
LEMMA NoBatch ==
    ASSUME NEW t \in Tasks, tasks'[t].pc \in {"idle", "page", "emit"}
    PROVE  Handles(t)'
  BY DEF Handles

LEMMA StepHandleMessages == ASSUME IInv, HandleMessages PROVE IInv'
<1> DEFINE b == Head(frames)
           k == Frame(b.lo, b.hi)
<1>1. b \in Entries(frames) /\ frames' \in Seq(Event) /\ Entries(frames') \subseteq Entries(frames)
    BY Received DEF HandleMessages
<1>2. b \in Batch /\ b.lo \in Seqs /\ b.hi \in Seqs
    BY DEF HandleMessages, Batch
<1>3. k \in Task /\ k.pc = "lookup" /\ k.new = {} /\ k.lo = b.lo /\ k.hi = b.hi
    BY <1>2, FrameTask
<1>4. Become(Loop, k)
    BY DEF HandleMessages, Frame
<1>5. NoGap(b)
    BY <1>1, <1>2 DEF IInv, Travel, BatchesFollow
<1> HIDE DEF b, k
<1>6. /\ tasks' \in [Tasks -> Task] /\ tasks'[Loop] = k
      /\ \A u \in Tasks \ {Loop} : tasks'[u] = tasks[u]
    BY <1>3, <1>4, Becomes, LoopTask DEF IInv
<1>7. UNCHANGED <<server, link, wire, uplink, outbound, lagged, unseen, connected, cache, faults>>
    BY DEF HandleMessages
<1>8. TypeOK'
    BY <1>1, <1>6, <1>7 DEF IInv, TypeOK, server, cache, Event
<1>9. Covers(acked)'
    BY <1>7 DEF IInv, Travel, Covers, server, cache
<1>10. Handles(Loop)'
  <2>1. b.hi \in 1..published
      BY <1>2, <1>5, SizesAssumption DEF NoGap, Seqs, IInv, TypeOK
  <2>2. stored' = stored /\ published' = published
      BY <1>7 DEF server, cache
  <2> QED BY <2>1, <2>2, <1>2, <1>3, <1>5, <1>6 DEF Handles, NoGap, Covers
<1> QED BY <1>1, <1>3, <1>6, <1>7, <1>8, <1>9, <1>10, LoopTask, TaskStep DEF server, cache

LEMMA StepCatchUp ==
    ASSUME IInv, NEW t \in Tasks, CatchUp(t), row' \in BOOLEAN,
           UNCHANGED <<server, socket, connected, stored, announced, faults>>
    PROVE  IInv'
<1> DEFINE k == [Idle EXCEPT !.pc = "page", !.via = "rest"]
<1>1. k \in Task /\ k.pc = "page" /\ k.new = {}
    BY PageTask
<1>2. Become(t, k)
    BY DEF CatchUp
<1> HIDE DEF k
<1>3. /\ tasks' \in [Tasks -> Task] /\ tasks'[t] = k
      /\ \A u \in Tasks \ {t} : tasks'[u] = tasks[u]
    BY <1>1, <1>2, Becomes DEF IInv
<1>4. TypeOK'
    BY <1>3 DEF IInv, TypeOK, server, socket
<1>5. Covers(acked)'
    BY DEF IInv, Travel, Covers, server
<1> QED BY <1>1, <1>3, <1>4, <1>5, NoBatch, TaskStep DEF server, socket

LEMMA StepPoll == ASSUME IInv, Poll PROVE IInv'
<1>1. row' \in BOOLEAN
    BY DEF Poll, cache, IInv, TypeOK
<1> QED BY <1>1, LoopTask, StepCatchUp DEF Poll, cache

LEMMA StepRefresh == ASSUME IInv, NEW t \in Handlers, Refresh(t) PROVE IInv'
<1>1. row' \in BOOLEAN /\ t \in Tasks
    BY LoopTask DEF Refresh, IInv, TypeOK
<1>2. CASE CatchUp(t)
    BY <1>1, <1>2, StepCatchUp DEF Refresh
<1>3. CASE UNCHANGED tasks
  <2>1. TypeOK'
      BY <1>1, <1>3 DEF IInv, Refresh, TypeOK, server, socket
  <2> QED BY <1>3, <2>1, QueueStep DEF Refresh, server, socket
<1> QED BY <1>2, <1>3 DEF Refresh

LEMMA StepReturn ==
    ASSUME IInv, NEW t \in Tasks, Return(t), faults' \in 0..MaxFaults,
           UNCHANGED <<server, socket, connected, row, stored, announced>>
    PROVE  IInv'
<1>1. /\ tasks' \in [Tasks -> Task] /\ tasks'[t] = Idle
      /\ \A u \in Tasks \ {t} : tasks'[u] = tasks[u]
    BY IdleTask, Becomes DEF IInv, Return
<1>2. TypeOK'
    BY <1>1 DEF IInv, TypeOK, server, socket
<1>3. Covers(acked)'
    BY DEF IInv, Travel, Covers, server
<1> QED BY <1>1, <1>2, <1>3, IdleTask, NoBatch, TaskStep DEF server, socket

LEMMA StepPage == ASSUME IInv, NEW t \in Tasks, Page(t) PROVE IInv'
<1>1. ASSUME NEW hi \in Seqs, member, acked < hi, hi <= published, NEW more \in BOOLEAN,
             Become(t, Pending(acked + 1, hi, more)),
             row' = TRUE, UNCHANGED faults
      PROVE  IInv'
  <2> DEFINE k == Pending(acked + 1, hi, more)
  <2>1. acked \in Nat /\ published \in Nat /\ hi \in 1..published /\ acked + 1 \in Seqs
      BY <1>1, SizesAssumption DEF IInv, TypeOK, Seqs
  <2>2. k \in Task /\ k.pc = "lookup" /\ k.new = {} /\ k.lo = acked + 1 /\ k.hi = hi
      BY <2>1, PendingTask
  <2>3. Become(t, k)
      BY <1>1
  <2> HIDE DEF k
  <2>4. /\ tasks' \in [Tasks -> Task] /\ tasks'[t] = k
        /\ \A u \in Tasks \ {t} : tasks'[u] = tasks[u]
      BY <2>2, <2>3, Becomes DEF IInv
  <2>5. UNCHANGED <<server, socket, connected, stored, announced>>
      BY DEF Page
  <2>6. TypeOK'
      BY <1>1, <2>4, <2>5 DEF IInv, TypeOK, server, socket
  <2>7. Covers(acked)'
      BY <2>5 DEF IInv, Travel, Covers, server
  <2>8. Handles(t)'
    <3>1. k.lo - 1 = acked /\ stored' = stored /\ published' = published
        BY <2>1, <2>2, <2>5 DEF server
    <3> QED BY <3>1, <2>1, <2>2, <2>4 DEF Handles, IInv, Travel, Covers
  <2> QED BY <2>2, <2>4, <2>5, <2>6, <2>7, <2>8, TaskStep DEF server, socket
<1>2. ASSUME NEW hi \in Seqs, member, acked < hi, hi <= published,
             Become(t, [Idle EXCEPT !.pc = "lookup", !.via = "rest", !.lo = acked + 1,
                                    !.hi = hi, !.more = (hi < published)]),
             row' = TRUE, UNCHANGED faults
      PROVE  IInv'
  <2>1. Become(t, Pending(acked + 1, hi, hi < published))
      BY <1>2 DEF Pending
  <2>2. \E more \in BOOLEAN : Become(t, Pending(acked + 1, hi, more))
    <3>1. (hi < published) \in BOOLEAN
        OBVIOUS
    <3>2. WITNESS (hi < published) \in BOOLEAN
    <3> QED BY <2>1
  <2> QED BY <1>1, <1>2, <2>2
<1>3. CASE Return(t) /\ UNCHANGED row /\ (UNCHANGED faults \/ Fault("rest"))
  <2>1. faults' \in 0..MaxFaults
      BY <1>3, Faults DEF IInv, TypeOK
  <2> QED BY <1>3, <2>1, StepReturn DEF Page
<1> QED BY <1>2, <1>3 DEF Page

\* The batch in hand, in a task of a given state.
LEMMA InHand ==
    ASSUME IInv, NEW t \in Tasks
    PROVE  /\ tasks[t] \in Task
           /\ tasks[t].new \subseteq stored
           /\ Handles(t)
           /\ published \in Nat /\ published <= MaxSeq
<1>1. tasks[t] \in Task /\ Handles(t) /\ published \in 0..MaxSeq
    BY DEF IInv, TypeOK, Travel
<1>2. tasks[t].new \subseteq stored
    BY DEF IInv, Owned
<1> QED BY <1>1, <1>2, SizesAssumption

LEMMA StepLookup == ASSUME IInv, NEW t \in Tasks, Lookup(t) PROVE IInv'
<1>1. PICK p \in {"store", "ack"} :
          /\ Become(t, [tasks[t] EXCEPT !.pc = p])
          /\ p = "ack" => ~member
    BY DEF Lookup
<1> DEFINE k == [tasks[t] EXCEPT !.pc = p]
<1>2. /\ tasks[t].pc = "lookup"
      /\ UNCHANGED <<server, socket, connected, stored, announced>>
      /\ row' \in BOOLEAN
    BY DEF Lookup, IInv, TypeOK
<1>3. faults' \in 0..MaxFaults
    BY Faults DEF Lookup, IInv, TypeOK
<1>4. k \in Task /\ k.pc = p /\ k.new = tasks[t].new /\ k.lo = tasks[t].lo /\ k.hi = tasks[t].hi
  <2>1. tasks[t] \in Task /\ p \in {"idle", "page", "lookup", "store", "ack", "emit"}
      BY InHand
  <2> QED BY <2>1, MovedTask, Zenon
<1> HIDE DEF k
<1>5. /\ tasks' \in [Tasks -> Task] /\ tasks'[t] = k
      /\ \A u \in Tasks \ {t} : tasks'[u] = tasks[u]
    BY <1>1, <1>4, Becomes DEF IInv, k
<1>6. TypeOK'
    BY <1>2, <1>3, <1>5 DEF IInv, TypeOK, server, socket
<1>7. Covers(acked)'
    BY <1>2 DEF IInv, Travel, Covers, server
<1>8. Handles(t)'
    BY <1>1, <1>2, <1>4, <1>5, InHand DEF Handles, Covers, server
<1> QED BY <1>2, <1>4, <1>5, <1>6, <1>7, <1>8, TaskStep DEF server, socket

LEMMA StepAckSocket == ASSUME IInv, NEW t \in Tasks, AckSocket(t) PROVE IInv'
<1> DEFINE k == [tasks[t] EXCEPT !.pc = "emit"]
           n == tasks[t].hi
<1>1. k \in Task /\ k.pc = "emit" /\ k.new = tasks[t].new
    BY InHand, MovedTask
<1>2. n \in Seqs /\ (member => Covers(n))
    BY InHand, SizesAssumption DEF AckSocket, Handles, Seqs
<1>3. Become(t, k) /\ outbound' = Append(outbound, n)
    BY DEF AckSocket
<1>4. UNCHANGED <<server, link, wire, uplink, frames, lagged, unseen, connected, cache, faults>>
    BY DEF AckSocket
<1> HIDE DEF k, n
<1>5. /\ tasks' \in [Tasks -> Task] /\ tasks'[t] = k
      /\ \A u \in Tasks \ {t} : tasks'[u] = tasks[u]
    BY <1>1, <1>3, Becomes DEF IInv
<1>6. outbound' \in Seq(Seqs) /\ Entries(outbound') \subseteq Entries(outbound) \cup {n}
    BY <1>2, <1>3, EntriesOfAppend DEF IInv, TypeOK
<1>7. TypeOK'
    BY <1>4, <1>5, <1>6 DEF IInv, TypeOK, server, cache
<1>8. Covers(acked)'
    BY <1>4 DEF IInv, Travel, Covers, server, cache
<1> QED BY <1>1, <1>2, <1>4, <1>5, <1>6, <1>7, <1>8, NoBatch, TaskStep DEF server, cache

LEMMA StepAckRest == ASSUME IInv, NEW t \in Tasks, AckRest(t) PROVE IInv'
<1> DEFINE k == [tasks[t] EXCEPT !.pc = "emit"]
           n == tasks[t].hi
<1>1. k \in Task /\ k.pc = "emit" /\ k.new = tasks[t].new
    BY InHand, MovedTask
<1>2. n \in Seqs /\ (member => Covers(n))
    BY InHand, SizesAssumption DEF AckRest, Handles, Seqs
<1>3. Become(t, k)
    BY DEF AckRest
<1>4. UNCHANGED <<published, member, inflight, socket, connected, cache>>
    BY DEF AckRest
<1>5. acked' \in 0..MaxSeq /\ Covers(acked)'
  <2>1. CASE TakeAck(n)
      BY <2>1, <1>2, <1>4, Acknowledged DEF cache
  <2>2. CASE UNCHANGED acked
      BY <2>2, <1>4 DEF IInv, TypeOK, Travel, Covers, cache
  <2> QED BY <2>1, <2>2 DEF AckRest
<1>6. faults' \in 0..MaxFaults
    BY Faults DEF AckRest, IInv, TypeOK
<1> HIDE DEF k, n
<1>7. /\ tasks' \in [Tasks -> Task] /\ tasks'[t] = k
      /\ \A u \in Tasks \ {t} : tasks'[u] = tasks[u]
    BY <1>1, <1>3, Becomes DEF IInv
<1>8. TypeOK'
    BY <1>4, <1>5, <1>6, <1>7 DEF IInv, TypeOK, socket, cache
<1> QED BY <1>1, <1>4, <1>5, <1>7, <1>8, NoBatch, TaskStep DEF socket, cache

\* A batch without a gap makes the stored prefix longer, or leaves it alone.
LEMMA StoredPrefix ==
    ASSUME IInv, NEW t \in Tasks, tasks[t].pc = "store",
           stored' = stored \cup Fresh(t)
    PROVE  \E m \in 0..published : stored' = 1..m /\ tasks[t].hi <= m
<1>1. tasks[t] \in Task /\ Handles(t) /\ published \in Nat /\ published <= MaxSeq
    BY InHand
<1>2. /\ tasks[t].lo \in Seqs /\ Covers(tasks[t].lo - 1)
      /\ tasks[t].hi \in 1..published
    BY <1>1 DEF Handles
<1>3. PICK n \in 0..published : stored = 1..n
    BY DEF IInv, Prefix
<1>4. tasks[t].lo - 1 <= n
    BY <1>1, <1>2, <1>3, SizesAssumption DEF Covers, Seqs
<1>5. stored' = stored \cup (tasks[t].lo .. tasks[t].hi)
    BY DEF Fresh
<1>6. CASE tasks[t].hi <= n
  <2>1. stored' = 1..n
      BY <1>5, <1>6, <1>1, <1>2, <1>3, SizesAssumption DEF Seqs
  <2> QED BY <2>1, <1>6
<1>7. CASE ~(tasks[t].hi <= n)
  <2>1. stored' = 1..tasks[t].hi
      BY <1>5, <1>7, <1>1, <1>2, <1>3, <1>4, SizesAssumption DEF Seqs
  <2>2. tasks[t].hi \in 0..published /\ tasks[t].hi <= tasks[t].hi
      BY <1>1, <1>2
  <2> QED BY <2>1, <2>2
<1> QED BY <1>6, <1>7

\* store_incoming_batch: the batch joins the cache, and the task alone may announce
\* what was not there.
LEMMA Stored ==
    ASSUME IInv, NEW t \in Tasks, tasks[t].pc = "store",
           stored' = stored \cup Fresh(t),
           Become(t, [tasks[t] EXCEPT !.pc = "ack", !.new = Fresh(t)]),
           UNCHANGED <<server, socket, connected, row, announced, faults>>
    PROVE  IInv'
<1> DEFINE k == [tasks[t] EXCEPT !.pc = "ack", !.new = Fresh(t)]
<1>1. tasks[t] \in Task /\ Handles(t) /\ published \in Nat /\ published <= MaxSeq
    BY InHand
<1>2. /\ tasks[t].lo \in Seqs /\ Covers(tasks[t].lo - 1)
      /\ tasks[t].hi \in 1..published
    BY <1>1 DEF Handles
<1>5. \E m \in 0..published : stored' = 1..m /\ tasks[t].hi <= m
    BY StoredPrefix
<1>6. Prefix' /\ 1..tasks[t].hi \subseteq stored'
  <2>1. PICK m \in 0..published : stored' = 1..m /\ tasks[t].hi <= m
      BY <1>5
  <2>2. Prefix'
      BY <2>1 DEF Prefix, server
  <2>3. 1..tasks[t].hi \subseteq 1..m
      BY <2>1, <1>1, <1>2
  <2> QED BY <2>1, <2>2, <2>3
<1>7. Fresh(t) \subseteq Seqs /\ stored' \subseteq Seqs /\ Fresh(t) \cap stored = {}
  <2>1. \A s \in tasks[t].lo .. tasks[t].hi : s \in Seqs
      BY <1>1, <1>2, SizesAssumption DEF Seqs
  <2>2. stored \subseteq Seqs
      BY DEF IInv, TypeOK
  <2> QED BY <2>1, <2>2 DEF Fresh
<1>8. /\ k \in Task /\ k.pc = "ack" /\ k.new = Fresh(t)
      /\ k.lo = tasks[t].lo /\ k.hi = tasks[t].hi
  <2>1. Fresh(t) \in SUBSET Seqs
      BY <1>7
  <2> QED BY <1>1, <2>1, StoredTask, Zenon
<1>9. /\ tasks' \in [Tasks -> Task] /\ tasks'[t] = k
      /\ \A u \in Tasks \ {t} : tasks'[u] = tasks[u]
    BY <1>8, Becomes DEF IInv
<1> HIDE DEF k
<1>10. TypeOK'
    BY <1>7, <1>9 DEF IInv, TypeOK, server, socket
<1>11. Grows
    BY SizesAssumption DEF Grows, IInv, TypeOK, server
<1>12. Covers(acked)'
    BY <1>11 DEF IInv, Travel, Covers, server, Grows
<1>13. BatchesFollow'
    BY <1>10, <1>11, BatchesKept DEF IInv, Travel, socket
<1>14. AcksStored'
    BY <1>11, AcksKept DEF IInv, Travel, socket
<1>15. \A u \in Tasks : Handles(u)'
  <2>1. Handles(t)'
      BY <1>2, <1>6, <1>8, <1>9 DEF Handles, server, Covers
  <2>2. \A u \in Tasks \ {t} : Handles(u)'
      BY <1>9, <1>10, <1>11, HandlesKept DEF IInv, Travel
  <2> QED BY <2>1, <2>2
<1>16. Owned' /\ Counted'
  <2>1. announced' = announced /\ \A u \in Tasks : tasks[u].new \subseteq stored
      BY InHand
  <2>2. \A s \in Fresh(t) : announced[s] = 0
    <3>1. \A s \in Seqs : announced[s] \in 0..2
        BY DEF IInv, TypeOK
    <3> QED BY <3>1, <1>7 DEF IInv, Counted
  <2>3. \A u \in Tasks \ {t} : tasks'[u].new \cap Fresh(t) = {}
      BY <2>1, <1>7, <1>9
  <2>4. Owned'
      BY <2>1, <2>2, <2>3, <1>8, <1>9 DEF IInv, Owned
  <2>5. Counted'
      BY <2>1 DEF IInv, Counted
  <2> QED BY <2>4, <2>5
<1> QED BY <1>6, <1>10, <1>12, <1>13, <1>14, <1>15, <1>16 DEF IInv, Travel

LEMMA StepStore == ASSUME IInv, NEW t \in Tasks, Store(t) PROVE IInv'
<1>1. CASE Fault("store") /\ Return(t) /\ UNCHANGED stored
  <2>1. faults' \in 0..MaxFaults
      BY <1>1, Faults DEF IInv
  <2> QED BY <1>1, <2>1, StepReturn DEF Store
<1>2. CASE stored' = stored \cup Fresh(t)
           /\ Become(t, [tasks[t] EXCEPT !.pc = "ack", !.new = Fresh(t)])
           /\ UNCHANGED faults
    BY <1>2, Stored DEF Store
<1> QED BY <1>1, <1>2 DEF Store

\* NewMessages: what the task announces nobody announced before, nor can afterwards.
LEMMA StepEmit == ASSUME IInv, NEW t \in Tasks, Emit(t) PROVE IInv'
<1>1. PICK k \in Task : Become(t, k) /\ k.pc \in {"idle", "page"} /\ k.new = {}
  <2>1. Become(t, [Idle EXCEPT !.pc = "page", !.via = "rest"]) \/ Become(t, Idle)
      BY DEF Emit
  <2> QED BY <2>1, PageTask, IdleTask
<1>2. /\ tasks' \in [Tasks -> Task] /\ tasks'[t] = k
      /\ \A u \in Tasks \ {t} : tasks'[u] = tasks[u]
    BY <1>1, Becomes DEF IInv
<1>3. UNCHANGED <<server, socket, connected, row, stored, faults>>
    BY DEF Emit
<1>4. /\ DOMAIN announced' = Seqs /\ announced' = [s \in Seqs |-> announced'[s]]
      /\ \A s \in Seqs : announced'[s] = IF s \in tasks[t].new THEN announced[s] + 1
                                                               ELSE announced[s]
    BY DEF Emit
<1>5. \A s \in Seqs : announced[s] \in 0..2 /\ announced[s] <= 1
    BY DEF IInv, TypeOK, Counted
<1>6. \A s \in tasks[t].new : s \in Seqs /\ s \in stored /\ announced[s] = 0
    BY DEF IInv, TypeOK, Owned
<1>7. \A s \in Seqs : /\ announced'[s] \in 0..2 /\ announced'[s] <= 1
                      /\ announced'[s] = 1 => s \in stored
    BY <1>4, <1>5, <1>6 DEF IInv, Counted
<1>8. TypeOK'
  <2>1. announced' \in [Seqs -> 0..2]
      BY <1>4, <1>7
  <2> QED BY <1>2, <1>3, <2>1 DEF IInv, TypeOK, server, socket
<1>9. Grows
    BY <1>3, SizesAssumption DEF Grows, IInv, TypeOK, server
<1>10. Prefix'
    BY <1>3, <1>8, <1>9, PrefixKept DEF IInv, Grows
<1>11. Covers(acked)'
    BY <1>3 DEF IInv, Travel, Covers, server
<1>12. BatchesFollow'
    BY <1>3, <1>8, <1>9, BatchesKept DEF IInv, Travel, socket
<1>13. AcksStored'
    BY <1>3, <1>9, AcksKept DEF IInv, Travel, socket
<1>14. \A u \in Tasks : Handles(u)'
  <2>1. Handles(t)'
      BY <1>1, <1>2, NoBatch
  <2>2. \A u \in Tasks \ {t} : Handles(u)'
      BY <1>2, <1>8, <1>9, HandlesKept DEF IInv, Travel
  <2> QED BY <2>1, <2>2
<1>15. Owned'
  <2>1. ASSUME NEW u \in Tasks, NEW s \in tasks'[u].new
        PROVE  /\ s \in stored' /\ announced'[s] = 0
               /\ \A v \in Tasks \ {u} : s \notin tasks'[v].new
    <3>1. u # t /\ tasks'[u] = tasks[u]
        BY <1>1, <1>2, <2>1
    <3>2. s \in Seqs /\ s \in stored /\ announced[s] = 0 /\ s \notin tasks[t].new
        BY <3>1, <2>1 DEF IInv, Owned, TypeOK, Task
    <3>3. \A v \in Tasks \ {u} : s \notin tasks'[v].new
        BY <3>1, <2>1, <1>1, <1>2 DEF IInv, Owned
    <3> QED BY <3>2, <3>3, <1>3, <1>4
  <2> QED BY <2>1 DEF Owned
<1>16. Counted'
    BY <1>3, <1>7 DEF Counted
<1> QED BY <1>8, <1>10, <1>11, <1>12, <1>13, <1>14, <1>15, <1>16 DEF IInv, Travel

LEMMA StepCrash == ASSUME IInv, Crash PROVE IInv'
<1>1. Close("connecting") /\ "connecting" \in {"connecting", "backoff"}
    BY DEF Crash
<1>2. UNCHANGED <<published, member, acked, cache>> /\ faults' \in 0..MaxFaults
    BY Faults DEF Crash, IInv
<1>3. /\ outbound' \in Seq(Seqs) /\ Entries(outbound') = {}
      /\ frames' \in Seq(Event) /\ Entries(frames') = {}
    BY EmptySeq, EntriesOfEmpty DEF Crash
<1>4. tasks' \in [Tasks -> Task] /\ \A t \in Tasks : tasks'[t] = Idle
    BY IdleTask DEF Crash
<1>5. TypeOK'
    BY <1>1, <1>2, <1>3, <1>4, Closed DEF IInv, TypeOK, Crash, cache, Event
<1>6. Grows
    BY <1>2, SizesAssumption DEF Grows, IInv, TypeOK, cache
<1>7. Prefix'
    BY <1>2, <1>5, <1>6, PrefixKept DEF IInv, cache, Grows
<1>8. Covers(acked)'
    BY <1>2 DEF IInv, Travel, Covers, cache
<1>9. BatchesFollow'
    BY <1>1, <1>3, <1>5, <1>6, Closed, BatchesKept DEF IInv, Travel
<1>10. AcksStored'
    BY <1>1, <1>3, <1>6, Closed, AcksKept DEF IInv, Travel
<1>11. \A t \in Tasks : Handles(t)'
    BY <1>4, IdleTask, NoBatch
<1>12. Owned' /\ Counted'
    BY <1>2, <1>4, IdleTask, OwnedKept DEF IInv, cache
<1> QED BY <1>5, <1>7, <1>8, <1>9, <1>10, <1>11, <1>12 DEF IInv, Travel

-----------------------------------------------------------------------------
(* Theorems *)

LEMMA IInvInit == Init => IInv
<1> SUFFICES ASSUME Init PROVE IInv
    OBVIOUS
<1>1. /\ published = 0 /\ stored = {} /\ acked = 0
      /\ wire = <<>> /\ uplink = <<>> /\ outbound = <<>> /\ frames = <<>>
      /\ announced = [s \in Seqs |-> 0] /\ tasks = [t \in Tasks |-> Idle]
    BY DEF Init
<1>2. TypeOK
  <2>1. <<>> \in Seq(Batch) /\ <<>> \in Seq(Seqs) /\ <<>> \in Seq(Event)
      BY EmptySeq
  <2>2. tasks \in [Tasks -> Task] /\ announced \in [Seqs -> 0..2]
      BY <1>1, IdleTask
  <2>3. /\ wire \in Seq(Batch) /\ uplink \in Seq(Seqs) /\ outbound \in Seq(Seqs)
        /\ frames \in Seq(Batch \cup {Connected, Other})
      BY <1>1, <2>1 DEF Event
  <2>4. /\ published \in 0..MaxSeq /\ acked \in 0..MaxSeq /\ inflight \in 0..MaxSeq
        /\ faults \in 0..MaxFaults /\ stored \subseteq Seqs
      BY SizesAssumption DEF Init
  <2>5. /\ link \in {"connecting", "up", "backoff"}
        /\ {member, lagged, unseen, connected, row} \subseteq BOOLEAN
      BY DEF Init
  <2> QED BY <2>2, <2>3, <2>4, <2>5 DEF TypeOK
<1>3. Prefix
    BY <1>1 DEF Prefix
<1>4. Covers(acked)
    BY <1>1 DEF Covers
<1>5. BatchesFollow /\ AcksStored
    BY <1>1, EntriesOfEmpty DEF BatchesFollow, AcksStored
<1>6. \A t \in Tasks : Handles(t)
    BY <1>1, IdleTask DEF Handles
<1>7. Owned /\ Counted
    BY <1>1, IdleTask DEF Owned, Counted
<1> QED BY <1>2, <1>3, <1>4, <1>5, <1>6, <1>7 DEF IInv, Travel

LEMMA IInvNext == IInv /\ [Next]_vars => IInv'
<1> SUFFICES ASSUME IInv, [Next]_vars PROVE IInv'
    OBVIOUS
<1>1. CASE UNCHANGED vars
  <2>1. TypeOK'
      BY <1>1 DEF IInv, TypeOK, vars
  <2> QED BY <1>1, <2>1, QueueStep DEF vars
<1>2. CASE Publish \/ Remove
    BY <1>2, StepPublish, StepRemove
<1>3. CASE Server
    BY <1>3, StepPush, StepReceiveAck DEF Server
<1>4. CASE Connection
    BY <1>4, StepConnect, StepRefused, StepRetry, StepReceiveFrame, StepSendFrame
       DEF Connection
<1>5. CASE Drop \/ ReceiveOther \/ Crash
    BY <1>5, StepDrop, StepReceiveOther, StepCrash
<1>6. CASE Select
    BY <1>6, StepHandleConnected, StepHandleMessages, StepHandleOther, StepHandleLagged
       DEF Select
<1>7. CASE SeeState \/ Poll \/ \E t \in Handlers : Refresh(t)
    BY <1>7, StepSeeState, StepPoll, StepRefresh
<1>8. ASSUME NEW t \in Tasks, Apply(t) PROVE IInv'
    BY <1>8, StepPage, StepLookup, StepStore, StepAckSocket, StepAckRest, StepEmit DEF Apply
<1> QED BY <1>1, <1>2, <1>3, <1>4, <1>5, <1>6, <1>7, <1>8 DEF Next

\* The inductive invariant holds in every reachable state.
LEMMA Invariant == Spec => []IInv
  BY IInvInit, IInvNext, PTL DEF Spec

\* Whatever is lost, repeated, overwritten or fetched twice: nothing is acknowledged, to the
\* server or on its way there, that is not stored, and no batch skips a message
\* (apply_incoming: "only now that the batch is durably stored").
THEOREM AcksAreAlwaysEarned == Spec => []AcksAreEarned
  BY Invariant, InvariantSuffices, PTL

\* No message is announced twice, by redelivery, by two tasks at a time or after a restart
\* ("Messages are deduplicated by id").
THEOREM AnnouncedAtMostOnce == Spec => []AnnouncedOnce
  BY Invariant, InvariantSuffices, PTL

-----------------------------------------------------------------------------
(* Delivery implements Mailbox *)

\* An ack the server takes confirms a message that is in the cache.
LEMMA ConfirmStep ==
    ASSUME IInv, NEW n \in Seqs, TakeAck(n), member => Covers(n),
           UNCHANGED <<published, stored>>
    PROVE  Box!Confirm \/ UNCHANGED acked
<1>1. acked' = acked \/ (acked' = n /\ n > acked /\ Covers(n))
    BY DEF TakeAck
<1>2. Covers(n) => n \in stored
    BY SizesAssumption DEF Covers, Seqs
<1> QED BY <1>1, <1>2 DEF Box!Confirm

LEMMA ReceiveAckMaps == ASSUME IInv, ReceiveAck PROVE Box!Confirm \/ UNCHANGED Box!vars
<1>1. uplink \in Seq(Seqs) /\ uplink # <<>>
    BY DEF IInv, TypeOK, ReceiveAck
<1>2. Head(uplink) \in Seqs /\ Head(uplink) \in Entries(uplink)
    BY <1>1, EntriesOfTail
<1>3. member => Covers(Head(uplink))
    BY <1>2 DEF IInv, Travel, AcksStored
<1>4. UNCHANGED <<published, stored>>
    BY DEF ReceiveAck, cache
<1>5. TakeAck(Head(uplink)) \/ UNCHANGED acked
    BY DEF ReceiveAck
<1> QED BY <1>2, <1>3, <1>4, <1>5, ConfirmStep DEF Box!vars

LEMMA AckRestMaps ==
    ASSUME IInv, NEW t \in Tasks, AckRest(t) PROVE Box!Confirm \/ UNCHANGED Box!vars
<1>1. tasks[t].hi \in Seqs /\ (member => Covers(tasks[t].hi))
    BY InHand, SizesAssumption DEF AckRest, Handles, Seqs
<1>2. UNCHANGED <<published, stored>>
    BY DEF AckRest, cache
<1>3. TakeAck(tasks[t].hi) \/ UNCHANGED acked
    BY DEF AckRest
<1> QED BY <1>1, <1>2, <1>3, ConfirmStep DEF Box!vars

\* A batch that is stored is delivered without a gap.
LEMMA StoreMaps ==
    ASSUME IInv, NEW t \in Tasks, Store(t) PROVE Box!Deliver \/ UNCHANGED Box!vars
<1>1. UNCHANGED <<published, acked>>
    BY DEF Store, server
<1>2. CASE UNCHANGED stored
    BY <1>1, <1>2 DEF Box!vars
<1>3. CASE stored' = stored \cup Fresh(t)
  <2>1. PICK m \in 0..published : stored' = 1..m /\ tasks[t].hi <= m
      BY <1>3, StoredPrefix DEF Store
  <2>2. tasks[t].hi \in 1..published /\ published \in Nat
      BY InHand DEF Store, Handles
  <2>3. m \in 1..published /\ stored \subseteq 1..m
      BY <1>3, <2>1, <2>2
  <2> QED BY <1>1, <2>1, <2>3 DEF Box!Deliver
<1> QED BY <1>2, <1>3 DEF Store

LEMMA StepMaps == IInv /\ [Next]_vars => [Box!Next]_(Box!vars)
<1> SUFFICES ASSUME IInv, [Next]_vars PROVE Box!Next \/ UNCHANGED Box!vars
    OBVIOUS
<1>1. CASE Publish
    BY <1>1 DEF Publish, cache, Box!Publish, Box!Next
<1>2. CASE ReceiveAck
    BY <1>2, ReceiveAckMaps DEF Box!Next
<1>3. ASSUME NEW t \in Tasks, AckRest(t) \/ Store(t)
      PROVE  Box!Next \/ UNCHANGED Box!vars
    BY <1>3, AckRestMaps, StoreMaps DEF Box!Next
<1>4. CASE UNCHANGED vars \/ Remove \/ Push
    BY <1>4 DEF vars, Remove, Push, cache, Box!vars
<1>5. CASE Connection
    BY <1>5 DEF Connection, Connect, Refused, Retry, ReceiveFrame, SendFrame, server, cache,
                Box!vars
<1>6. CASE Drop \/ ReceiveOther \/ Crash
    BY <1>6 DEF Drop, ReceiveOther, Crash, server, cache, Box!vars
<1>7. CASE Select
    BY <1>7 DEF Select, HandleConnected, HandleMessages, HandleOther, HandleLagged, server,
                cache, Box!vars
<1>8. CASE SeeState \/ Poll
    BY <1>8 DEF SeeState, Poll, server, cache, Box!vars
<1>9. ASSUME NEW t \in Handlers, Refresh(t) PROVE UNCHANGED Box!vars
    BY <1>9 DEF Refresh, server, Box!vars
<1>10. ASSUME NEW t \in Tasks, Page(t) \/ Lookup(t) \/ AckSocket(t) \/ Emit(t)
       PROVE  UNCHANGED Box!vars
    BY <1>10 DEF Page, Lookup, AckSocket, Emit, server, cache, Box!vars
<1> QED BY <1>1, <1>2, <1>3, <1>4, <1>5, <1>6, <1>7, <1>8, <1>9, <1>10
        DEF Next, Server, Apply

\* Delivery is in order, without gaps, each message once, and acknowledged only after it is
\* stored: every step of the socket, the event loop and the handlers is a step of the
\* mailbox, or none.
THEOREM DeliveryImplementsMailbox == Spec => ImplementsMailbox
<1>1. Init => Box!Init
    BY DEF Init, Box!Init
<1> QED BY <1>1, Invariant, StepMaps, PTL DEF Spec, ImplementsMailbox, Box!Spec
=============================================================================
