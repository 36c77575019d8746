--------------------------- MODULE ForwardProofs ---------------------------
(***************************************************************************)
(* Theorems about Forward, for any number of messages, any history limit,  *)
(* any number of handlers and any number of failures.                      *)
(***************************************************************************)
EXTENDS Forward, WellFoundedInduction, FiniteSetTheorems, SequenceTheorems, TLAPS

-----------------------------------------------------------------------------
(* Least and greatest seq of a set *)

Less == {p \in Nat \X Nat : p[1] < p[2]}

LEMMA LessIsWellFounded == IsWellFoundedOn(Less, Nat)
<1>1. OpToRel(<, Nat) = Less
    BY DEF OpToRel, Less
<1> QED BY <1>1, NatLessThanWellFounded

LEMMA LeastIn ==
    ASSUME NEW S \in SUBSET Nat, S # {}
    PROVE  Least(S) \in S /\ \A r \in S : Least(S) <= r
<1>1. \E s \in S : \A r \in S : ~(<<r, s>> \in Less)
    BY LessIsWellFounded, WFMin
<1>2. PICK s \in S : \A r \in S : ~(<<r, s>> \in Less)
    BY <1>1
<1>3. \A r \in S : s <= r
  <2> SUFFICES ASSUME NEW r \in S PROVE s <= r
      OBVIOUS
  <2>1. <<r, s>> \in Nat \X Nat /\ <<r, s>> \notin Less
      BY <1>2
  <2> QED BY <2>1 DEF Less
<1> QED BY <1>3 DEF Least

LEMMA GreatestIn ==
    ASSUME NEW n \in Nat, NEW S \in SUBSET (0..n), S # {}
    PROVE  Greatest(S) \in S /\ \A r \in S : r <= Greatest(S)
<1> DEFINE T == {t \in 0..n : n - t \in S}
<1>1. T # {} /\ T \in SUBSET Nat
  <2>1. PICK s \in S : TRUE
      OBVIOUS
  <2>2. n - s \in 0..n /\ n - (n - s) = s
      OBVIOUS
  <2> QED BY <2>2
<1>2. Least(T) \in T /\ \A r \in T : Least(T) <= r
    BY <1>1, LeastIn
<1>3. \A r \in S : r <= n - Least(T)
  <2> SUFFICES ASSUME NEW r \in S PROVE r <= n - Least(T)
      OBVIOUS
  <2>1. n - r \in T
    <3>1. n - r \in 0..n /\ n - (n - r) = r
        OBVIOUS
    <3> QED BY <3>1
  <2>2. Least(T) \in 0..n /\ Least(T) <= n - r
      BY <1>2, <2>1
  <2> QED BY <2>2
<1>4. n - Least(T) \in S
    BY <1>2
<1> QED BY <1>3, <1>4 DEF Greatest

\* The next message a task has to do.
LEMMA LeastSeq ==
    ASSUME NEW S \in SUBSET Seqs, S # {}
    PROVE  Least(S) \in S /\ \A r \in S : Least(S) <= r
<1>1. S \in SUBSET Nat
    BY DEF Seqs
<1> QED BY <1>1, LeastIn

-----------------------------------------------------------------------------
(* Type correctness *)

EventsTyped == events \in Seq(Event)
TasksTyped == tasks \in [Tasks -> Task]
RestTyped == /\ cache \in [Seqs -> {"none", "text", "blank"}]
             /\ acking \in [Appliers -> SUBSET Seqs]
             /\ confirms \subseteq replied
             /\ replied \subseteq Own
             /\ mapped \in BOOLEAN
             /\ bookmark \in 0..MaxSeq
             /\ known \in [Seqs -> {"none", "sent", "linked"}]
             /\ telegram \in Seq(Seqs \X (1..2))
             /\ lock \in Tasks \cup {NoTask}
             /\ faults \in 0..MaxFaults

LEMMA TypeParts == TypeOK <=> EventsTyped /\ TasksTyped /\ RestTyped
  BY DEF TypeOK, EventsTyped, TasksTyped, RestTyped

LEMMA IdleTask == Idle \in Task
  BY SeqsAssumption DEF Idle, Task, Seqs

LEMMA TaskUpdates ==
    ASSUME NEW k \in Task
    PROVE  /\ \A pc \in {"ensure", "lock", "send"} : [k EXCEPT !.pc = pc] \in Task
           /\ \A S \in SUBSET Seqs : [k EXCEPT !.batch = S] \in Task
           /\ \A S \in SUBSET Seqs : [k EXCEPT !.todo = S] \in Task
           /\ \A n \in 1..2 : [k EXCEPT !.part = n] \in Task
<1>1. \A pc \in {"ensure", "lock", "send"} : [k EXCEPT !.pc = pc] \in Task
    BY DEF Task
<1>2. \A S \in SUBSET Seqs : [k EXCEPT !.batch = S] \in Task
    BY DEF Task
<1>3. \A S \in SUBSET Seqs : [k EXCEPT !.todo = S] \in Task
    BY DEF Task
<1>4. \A n \in 1..2 : [k EXCEPT !.part = n] \in Task
    BY DEF Task
<1> QED BY <1>1, <1>2, <1>3, <1>4

LEMMA OutsideTask ==
    ASSUME NEW S \in SUBSET Seqs
    PROVE  /\ [Idle EXCEPT !.pc = "ensure", !.batch = S] \in Task
           /\ [Idle EXCEPT !.pc = "lock", !.todo = S] \in Task
           /\ [Idle EXCEPT !.pc = "ensure"] \in Task
<1>1. [Idle EXCEPT !.pc = "ensure"] \in Task /\ [Idle EXCEPT !.pc = "lock"] \in Task
    BY IdleTask, TaskUpdates
<1>2. [Idle EXCEPT !.pc = "ensure", !.batch = S] \in Task
    BY <1>1, TaskUpdates, Zenon
<1>3. [Idle EXCEPT !.pc = "lock", !.todo = S] \in Task
    BY <1>1, TaskUpdates, Zenon
<1> QED BY <1>1, <1>2, <1>3

LEMMA SendTask ==
    ASSUME NEW k \in Task, NEW n \in 1..2
    PROVE  [k EXCEPT !.pc = "send", !.part = n] \in Task
<1>1. [k EXCEPT !.pc = "send"] \in Task
    BY TaskUpdates
<1> QED BY <1>1, TaskUpdates, Zenon

LEMMA EventTyped ==
    ASSUME NEW kind \in {"new", "echo"}, NEW S \in SUBSET Seqs
    PROVE  (IF S = {} THEN <<>> ELSE <<[kind |-> kind, seqs |-> S]>>) \in Seq(Event)
<1>1. [kind |-> kind, seqs |-> S] \in Event
    BY DEF Event
<1>2. <<[kind |-> kind, seqs |-> S]>> \in Seq(Event)
  <2> DEFINE e == [kind |-> kind, seqs |-> S]
  <2>1. e \in Event
      BY <1>1
  <2> HIDE DEF e
  <2>2. <<e>> \in Seq(Event)
      BY <2>1
  <2> QED BY <2>2 DEF e
<1> DEFINE q == <<[kind |-> kind, seqs |-> S]>>
<1> HIDE DEF q
<1>3. (IF S = {} THEN <<>> ELSE q) \in Seq(Event)
    BY <1>2 DEF q
<1> QED BY <1>3 DEF q

LEMMA BecomeTyped ==
    ASSUME TypeOK, NEW t \in Tasks, NEW k \in Task, Become(t, k)
    PROVE  TasksTyped'
  BY DEF TypeOK, TasksTyped, Become

LEMMA ProceedTyped ==
    ASSUME TypeOK, NEW t \in Tasks, Proceed(t)
    PROVE  TasksTyped'
<1>1. tasks[t].batch \in SUBSET Seqs
    BY DEF TypeOK, Task
<1> QED BY <1>1, IdleTask, OutsideTask, BecomeTyped DEF Proceed

LEMMA LinkTyped ==
    ASSUME TypeOK, NEW S, Link(S)
    PROVE  known' \in [Seqs -> {"none", "sent", "linked"}]
  BY DEF TypeOK, Link

LEMMA RedactTyped ==
    ASSUME TypeOK, NEW n, Redact(n)
    PROVE  cache' \in [Seqs -> {"none", "text", "blank"}]
  BY DEF TypeOK, Redact

LEMMA PostTyped ==
    ASSUME TypeOK, NEW t \in Tasks, tasks[t].todo # {}, Post(t)
    PROVE  telegram' \in Seq(Seqs \X (1..2))
<1>1. tasks[t].todo \in SUBSET Seqs /\ tasks[t].part \in 1..2
    BY DEF TypeOK, Task
<1>2. Least(tasks[t].todo) \in Seqs
    BY <1>1, LeastSeq
<1> QED BY <1>1, <1>2 DEF Post, TypeOK

LEMMA TypeInit == Init => TypeOK
<1> SUFFICES ASSUME Init PROVE TypeOK
    OBVIOUS
<1>1. EventsTyped
    BY DEF Init, EventsTyped
<1>2. TasksTyped
    BY IdleTask DEF Init, TasksTyped
<1>3. RestTyped
    BY SeqsAssumption, NumbersAssumption DEF Init, RestTyped
<1> QED BY <1>1, <1>2, <1>3, TypeParts

LEMMA TypeStep == TypeOK /\ UnderLock /\ [Next]_vars => TypeOK'
<1> SUFFICES ASSUME TypeOK, UnderLock, [Next]_vars
             PROVE  EventsTyped' /\ TasksTyped' /\ RestTyped'
    BY DEF TypeOK, EventsTyped, TasksTyped, RestTyped
<1> USE DEF directus, channels
<1>1. ASSUME NEW a \in Appliers, NEW k \in Seqs, Store(a, k) PROVE EventsTyped' /\ TasksTyped' /\ RestTyped'
  <2>1. EventsTyped'
      BY <1>1 DEF TypeOK, EventsTyped, Store
  <2>2. TasksTyped'
      BY <1>1 DEF TypeOK, TasksTyped, Store
  <2>3. RestTyped'
    <3>1. {s \in 1..k : cache[s] = "none"} \in SUBSET Seqs
        BY SeqsAssumption DEF Seqs
    <3>2. acking' \in [Appliers -> SUBSET Seqs]
        BY <1>1, <3>1 DEF Store, TypeOK
    <3>3. cache' \in [Seqs -> {"none", "text", "blank"}]
        BY <1>1 DEF Store, TypeOK
    <3> QED BY <1>1, <3>2, <3>3 DEF TypeOK, RestTyped, Store
  <2> QED BY <2>1, <2>2, <2>3
<1>2. ASSUME NEW a \in Appliers, Announce(a) PROVE EventsTyped' /\ TasksTyped' /\ RestTyped'
  <2>1. EventsTyped'
    <3>1. acking[a] \cap Own \in SUBSET Seqs /\ acking[a] \ Own \in SUBSET Seqs
        BY DEF TypeOK
    <3> DEFINE event(kind, T) == IF T = {} THEN <<>> ELSE <<[kind |-> kind, seqs |-> T]>>
    <3>3. event("echo", acking[a] \cap Own) \in Seq(Event)
        BY <3>1, EventTyped
    <3>4. event("new", acking[a] \ Own) \in Seq(Event)
        BY <3>1, EventTyped
    <3>5. event("echo", acking[a] \cap Own) \o event("new", acking[a] \ Own) \in Seq(Event)
        BY <3>3, <3>4, ConcatProperties
    <3>6. Announced(acking[a]) \in Seq(Event)
        BY <3>5 DEF Announced
    <3>7. events \in Seq(Event) /\ events' = events \o Announced(acking[a])
        BY <1>2 DEF TypeOK, Announce
    <3> HIDE DEF event
    <3> QED BY <3>6, <3>7, ConcatProperties DEF EventsTyped
  <2>2. TasksTyped'
      BY <1>2 DEF TypeOK, TasksTyped, Announce
  <2>3. RestTyped'
      BY <1>2 DEF TypeOK, RestTyped, Announce
  <2> QED BY <2>1, <2>2, <2>3
<1>3. ASSUME NEW s \in Own, RecordOutbound(s) PROVE EventsTyped' /\ TasksTyped' /\ RestTyped'
  <2>1. EventsTyped'
      BY <1>3 DEF TypeOK, EventsTyped, RecordOutbound
  <2>2. TasksTyped'
      BY <1>3 DEF TypeOK, TasksTyped, RecordOutbound
  <2>3. RestTyped'
      BY <1>3, SeqsAssumption DEF TypeOK, RestTyped, RecordOutbound
  <2> QED BY <2>1, <2>2, <2>3
<1>4. ASSUME NEW s \in Own, OwnReply(s) PROVE EventsTyped' /\ TasksTyped' /\ RestTyped'
  <2>1. EventsTyped'
      BY <1>4 DEF TypeOK, EventsTyped, OwnReply
  <2>2. TasksTyped'
      BY <1>4 DEF TypeOK, TasksTyped, OwnReply
  <2>3. RestTyped'
      BY <1>4, SeqsAssumption DEF TypeOK, RestTyped, OwnReply
  <2> QED BY <2>1, <2>2, <2>3
<1>5. CASE TakeNew
  <2>1. EventsTyped'
      BY <1>5 DEF TypeOK, EventsTyped, TakeNew
  <2>2. TasksTyped'
    <3>1. Head(events).seqs \in SUBSET Seqs /\ Run \in Tasks
      <4>1. events \in Seq(Event) /\ events # <<>>
          BY <1>5 DEF TypeOK, TakeNew
      <4>2. Head(events) \in Event
          BY <4>1, HeadTailProperties
      <4> QED BY <4>2 DEF Event, Tasks
    <3> QED BY <1>5, <3>1, OutsideTask, BecomeTyped DEF TakeNew
  <2>3. RestTyped'
      BY <1>5 DEF TypeOK, RestTyped, TakeNew
  <2> QED BY <2>1, <2>2, <2>3
<1>6. CASE TakeEcho
  <2>1. EventsTyped'
      BY <1>6 DEF TypeOK, EventsTyped, TakeEcho
  <2>2. TasksTyped'
      BY <1>6 DEF TypeOK, TasksTyped, TakeEcho
  <2>3. RestTyped'
    <3>1. known' \in [Seqs -> {"none", "sent", "linked"}]
        BY <1>6, LinkTyped DEF TakeEcho, TypeOK
    <3>2. faults' \in 0..MaxFaults
        BY <1>6, NumbersAssumption DEF TakeEcho, TypeOK, Fault
    <3> QED BY <1>6, <3>1, <3>2 DEF TypeOK, RestTyped, TakeEcho
  <2> QED BY <2>1, <2>2, <2>3
<1>7. CASE TakeConfirmed
  <2>1. EventsTyped'
      BY <1>7 DEF TypeOK, EventsTyped, TakeConfirmed
  <2>2. TasksTyped'
      BY <1>7 DEF TypeOK, TasksTyped, TakeConfirmed
  <2>3. RestTyped'
    <3>1. known' \in [Seqs -> {"none", "sent", "linked"}]
        BY <1>7, LinkTyped DEF TakeConfirmed, TypeOK
    <3>2. faults' \in 0..MaxFaults
        BY <1>7, NumbersAssumption DEF TakeConfirmed, TypeOK, Fault
    <3>3. cache' \in [Seqs -> {"none", "text", "blank"}]
        BY <1>7, RedactTyped DEF TakeConfirmed
    <3> QED BY <1>7, <3>1, <3>2, <3>3 DEF TypeOK, RestTyped, TakeConfirmed
  <2> QED BY <2>1, <2>2, <2>3
<1>8. CASE TakeLagged
  <2>1. EventsTyped'
      BY <1>8 DEF TypeOK, EventsTyped, TakeLagged
  <2>2. TasksTyped'
      BY <1>8, OutsideTask, BecomeTyped DEF TakeLagged, Tasks
  <2>3. RestTyped'
    <3>1. faults' \in 0..MaxFaults
        BY <1>8, NumbersAssumption DEF TakeLagged, TypeOK, Fault
    <3> QED BY <1>8, <3>1 DEF TypeOK, RestTyped, TakeLagged
  <2> QED BY <2>1, <2>2, <2>3
<1>9. CASE Flush
  <2>1. EventsTyped'
      BY <1>9 DEF TypeOK, EventsTyped, Flush
  <2>2. TasksTyped'
    <3>1. {s \in Readable : s > bookmark} \in SUBSET Seqs /\ Run \in Tasks
        BY DEF Readable, Tasks
    <3> QED BY <1>9, <3>1, OutsideTask, BecomeTyped DEF Flush
  <2>3. RestTyped'
      BY <1>9 DEF TypeOK, RestTyped, Flush
  <2> QED BY <2>1, <2>2, <2>3
<1>10. ASSUME NEW t \in Tasks, Reconcile(t) PROVE EventsTyped' /\ TasksTyped' /\ RestTyped'
  <2>1. EventsTyped'
      BY <1>10 DEF TypeOK, EventsTyped, Reconcile
  <2>2. TasksTyped'
      BY <1>10, OutsideTask, BecomeTyped DEF Reconcile
  <2>3. RestTyped'
      BY <1>10 DEF TypeOK, RestTyped, Reconcile
  <2> QED BY <2>1, <2>2, <2>3
<1>11. ASSUME NEW t \in Tasks, EnsureFound(t) PROVE EventsTyped' /\ TasksTyped' /\ RestTyped'
  <2>1. EventsTyped'
      BY <1>11 DEF TypeOK, EventsTyped, EnsureFound
  <2>2. TasksTyped'
      BY <1>11, ProceedTyped DEF EnsureFound
  <2>3. RestTyped'
      BY <1>11 DEF TypeOK, RestTyped, EnsureFound
  <2> QED BY <2>1, <2>2, <2>3
<1>12. ASSUME NEW t \in Tasks, EnsureLock(t) PROVE EventsTyped' /\ TasksTyped' /\ RestTyped'
  <2>1. EventsTyped'
      BY <1>12 DEF TypeOK, EventsTyped, EnsureLock
  <2>2. TasksTyped'
    <3>1. tasks[t] \in Task
        BY DEF TypeOK
    <3>2. [tasks[t] EXCEPT !.pc = "create"] \in Task
        BY <3>1 DEF Task
    <3> QED BY <1>12, <3>2, BecomeTyped DEF EnsureLock
  <2>3. RestTyped'
      BY <1>12 DEF TypeOK, RestTyped, EnsureLock
  <2> QED BY <2>1, <2>2, <2>3
<1>13. ASSUME NEW t \in Tasks, Snapshot(t) PROVE EventsTyped' /\ TasksTyped' /\ RestTyped'
  <2>1. EventsTyped'
      BY <1>13 DEF TypeOK, EventsTyped, Snapshot
  <2>2. TasksTyped'
    <3> DEFINE first == IF HistoryTail # {} THEN Least(HistoryTail) - 1
                        ELSE IF Cached # {} THEN Greatest(Cached) ELSE 0
    <3>1. tasks[t] \in Task
        BY DEF TypeOK
    <3>2. HistoryTail \in SUBSET Seqs /\ Cached \in SUBSET Seqs
        BY DEF HistoryTail, Readable, Cached
    <3>3. first \in 0..MaxSeq
      <4>1. CASE HistoryTail # {}
        <5>1. Least(HistoryTail) \in Seqs
            BY <3>2, <4>1, LeastSeq
        <5> QED BY <4>1, <5>1, SeqsAssumption DEF Seqs
      <4>2. CASE HistoryTail = {} /\ Cached # {}
        <5>1. Cached \in SUBSET (0..MaxSeq)
            BY <3>2 DEF Seqs
        <5>2. Greatest(Cached) \in Cached
            BY <4>2, <5>1, GreatestIn, SeqsAssumption
        <5> QED BY <4>2, <5>1, <5>2
      <4>3. CASE HistoryTail = {} /\ Cached = {}
          BY <4>3, SeqsAssumption
      <4> QED BY <4>1, <4>2, <4>3
    <3>4. [tasks[t] EXCEPT !.pc = "commit", !.todo = HistoryTail, !.base = first] \in Task
        BY <3>1, <3>2, <3>3 DEF Task
    <3>5. Become(t, [tasks[t] EXCEPT !.pc = "commit", !.todo = HistoryTail, !.base = first])
        BY <1>13 DEF Snapshot
    <3> QED BY <3>4, <3>5, BecomeTyped
  <2>3. RestTyped'
      BY <1>13 DEF TypeOK, RestTyped, Snapshot
  <2> QED BY <2>1, <2>2, <2>3
<1>14. ASSUME NEW t \in Tasks, Commit(t) PROVE EventsTyped' /\ TasksTyped' /\ RestTyped'
  <2>1. EventsTyped'
      BY <1>14 DEF TypeOK, EventsTyped, Commit
  <2>2. TasksTyped'
    <3>1. tasks[t] \in Task
        BY DEF TypeOK
    <3>2. [tasks[t] EXCEPT !.pc = "lock"] \in Task
        BY <3>1 DEF Task
    <3> QED BY <1>14, <3>2, BecomeTyped, ProceedTyped DEF Commit
  <2>3. RestTyped'
    <3>1. tasks[t].base \in 0..MaxSeq
        BY DEF TypeOK, Task
    <3> QED BY <1>14, <3>1 DEF TypeOK, RestTyped, Commit
  <2> QED BY <2>1, <2>2, <2>3
<1>15. ASSUME NEW t \in Tasks, Lock(t) PROVE EventsTyped' /\ TasksTyped' /\ RestTyped'
  <2>1. EventsTyped'
      BY <1>15 DEF TypeOK, EventsTyped, Lock
  <2>2. TasksTyped'
    <3>1. tasks[t] \in Task /\ bookmark \in 0..MaxSeq
        BY DEF TypeOK
    <3>2. [tasks[t] EXCEPT !.pc = "each", !.base = bookmark, !.max = bookmark] \in Task
        BY <3>1 DEF Task
    <3> QED BY <1>15, <3>2, BecomeTyped DEF Lock
  <2>3. RestTyped'
      BY <1>15 DEF TypeOK, RestTyped, Lock
  <2> QED BY <2>1, <2>2, <2>3
<1>16. ASSUME NEW t \in Tasks, Each(t) PROVE EventsTyped' /\ TasksTyped' /\ RestTyped'
  <2>1. EventsTyped'
      BY <1>16 DEF TypeOK, EventsTyped, Each
  <2>2. TasksTyped'
    <3>1. tasks[t] \in Task
        BY DEF TypeOK
    <3>2. [tasks[t] EXCEPT !.todo = @ \ {Least(tasks[t].todo)}] \in Task
      <4>1. tasks[t].todo \ {Least(tasks[t].todo)} \in SUBSET Seqs
          BY <3>1 DEF Task
      <4> QED BY <3>1, <4>1 DEF Task
    <3>3. [tasks[t] EXCEPT !.pc = "send", !.part = 1] \in Task
      <4> DEFINE k == tasks[t]
      <4>1. k \in Task /\ 1 \in 1..2
          BY <3>1
      <4> HIDE DEF k
      <4>2. [k EXCEPT !.pc = "send", !.part = 1] \in Task
          BY <4>1, SendTask, Zenon
      <4> QED BY <4>2, Zenon DEF k
    <3>4. CASE Become(t, [tasks[t] EXCEPT !.todo = @ \ {Least(tasks[t].todo)}])
        BY <3>2, <3>4, BecomeTyped
    <3>5. CASE Become(t, [tasks[t] EXCEPT !.pc = "send", !.part = 1])
        BY <3>3, <3>5, BecomeTyped
    <3> QED BY <1>16, <3>4, <3>5 DEF Each
  <2>3. RestTyped'
      BY <1>16 DEF TypeOK, RestTyped, Each
  <2> QED BY <2>1, <2>2, <2>3
<1>17. ASSUME NEW t \in Tasks, Send(t) PROVE EventsTyped' /\ TasksTyped' /\ RestTyped'
  <2>1. EventsTyped'
      BY <1>17 DEF TypeOK, EventsTyped, Send
  <2>2. TasksTyped'
    <3>1. tasks[t] \in Task
        BY DEF TypeOK
    <3>2. [tasks[t] EXCEPT !.pc = "record"] \in Task
        BY <3>1 DEF Task
    <3> QED BY <1>17, <3>2, BecomeTyped DEF Send
  <2>3. RestTyped'
    <3>1. tasks[t].todo # {}
        BY <1>17 DEF UnderLock, Inside, Relies, Send
    <3> QED BY <1>17, <3>1, PostTyped DEF TypeOK, RestTyped, Send
  <2> QED BY <2>1, <2>2, <2>3
<1>18. ASSUME NEW t \in Tasks, Record(t) PROVE EventsTyped' /\ TasksTyped' /\ RestTyped'
  <2>1. EventsTyped'
      BY <1>18 DEF TypeOK, EventsTyped, Record
  <2>2. TasksTyped'
    <3> DEFINE s == Least(tasks[t].todo)
    <3>1. tasks[t] \in Task /\ tasks[t].todo # {}
        BY <1>18 DEF TypeOK, UnderLock, Inside, Relies, Record
    <3>2. s \in 0..MaxSeq
      <4>1. tasks[t].todo \in SUBSET Seqs
          BY <3>1 DEF Task
      <4> QED BY <3>1, <4>1, LeastSeq DEF Seqs
    <3>3. [tasks[t] EXCEPT !.pc = "send", !.part = 2] \in Task
      <4> DEFINE k == tasks[t]
      <4>1. k \in Task /\ 2 \in 1..2
          BY <3>1
      <4> HIDE DEF k
      <4>2. [k EXCEPT !.pc = "send", !.part = 2] \in Task
          BY <4>1, SendTask, Zenon
      <4> QED BY <4>2, Zenon DEF k
    <3>4. [tasks[t] EXCEPT !.pc = "each", !.todo = @ \ {s}, !.max = s] \in Task
      <4>1. tasks[t].todo \ {s} \in SUBSET Seqs
          BY <3>1 DEF Task
      <4> HIDE DEF s
      <4> QED BY <3>1, <3>2, <4>1 DEF Task
    <3>5. \/ Become(t, [tasks[t] EXCEPT !.pc = "send", !.part = 2])
          \/ Become(t, [tasks[t] EXCEPT !.pc = "each", !.todo = @ \ {s}, !.max = s])
        BY <1>18 DEF Record
    <3> QED BY <3>3, <3>4, <3>5, BecomeTyped
  <2>3. RestTyped'
      BY <1>18 DEF TypeOK, RestTyped, Record, Recorded
  <2> QED BY <2>1, <2>2, <2>3
<1>19. ASSUME NEW t \in Tasks, NothingNew(t) PROVE EventsTyped' /\ TasksTyped' /\ RestTyped'
  <2>1. EventsTyped'
      BY <1>19 DEF TypeOK, EventsTyped, NothingNew
  <2>2. TasksTyped'
      BY <1>19, ProceedTyped DEF NothingNew
  <2>3. RestTyped'
      BY <1>19 DEF TypeOK, RestTyped, NothingNew
  <2> QED BY <2>1, <2>2, <2>3
<1>20. ASSUME NEW t \in Tasks, Advance(t) PROVE EventsTyped' /\ TasksTyped' /\ RestTyped'
  <2>1. EventsTyped'
      BY <1>20 DEF TypeOK, EventsTyped, Advance
  <2>2. TasksTyped'
    <3>1. tasks[t] \in Task
        BY DEF TypeOK
    <3>2. [tasks[t] EXCEPT !.pc = "redact"] \in Task
        BY <3>1 DEF Task
    <3> QED BY <1>20, <3>2, BecomeTyped DEF Advance
  <2>3. RestTyped'
    <3>1. tasks[t].max \in 0..MaxSeq
        BY DEF TypeOK, Task
    <3> QED BY <1>20, <3>1 DEF TypeOK, RestTyped, Advance
  <2> QED BY <2>1, <2>2, <2>3
<1>21. ASSUME NEW t \in Tasks, Erase(t) PROVE EventsTyped' /\ TasksTyped' /\ RestTyped'
  <2>1. EventsTyped'
      BY <1>21 DEF TypeOK, EventsTyped, Erase
  <2>2. TasksTyped'
      BY <1>21, ProceedTyped DEF Erase
  <2>3. RestTyped'
    <3>1. faults' \in 0..MaxFaults
        BY <1>21, NumbersAssumption DEF Erase, TypeOK, Fault
    <3>2. cache' \in [Seqs -> {"none", "text", "blank"}]
        BY <1>21, RedactTyped DEF Erase, TypeOK
    <3> QED BY <1>21, <3>1, <3>2 DEF TypeOK, RestTyped, Erase
  <2> QED BY <2>1, <2>2, <2>3
<1>22. ASSUME NEW t \in Tasks, Fail(t) PROVE EventsTyped' /\ TasksTyped' /\ RestTyped'
  <2>1. EventsTyped'
      BY <1>22 DEF TypeOK, EventsTyped, Fail
  <2>2. TasksTyped'
      BY <1>22, IdleTask, BecomeTyped DEF Fail, Return
  <2>3. RestTyped'
    <3>1. faults' \in 0..MaxFaults
        BY <1>22, NumbersAssumption DEF Fail, TypeOK, Fault
    <3>2. tasks[t].base \in 0..MaxSeq /\ tasks[t].max \in 0..MaxSeq
        BY DEF TypeOK, Task
    <3>3. mapped' \in BOOLEAN /\ bookmark' \in 0..MaxSeq
        BY <1>22, <3>2 DEF Fail, TypeOK
    <3>4. known' \in [Seqs -> {"none", "sent", "linked"}]
        BY <1>22 DEF Fail, TypeOK, Recorded
    <3>5. telegram' \in Seq(Seqs \X (1..2))
      <4>1. CASE tasks[t].pc = "send" /\ Post(t)
        <5>1. tasks[t].todo # {}
            BY <4>1 DEF UnderLock, Inside, Relies
        <5> QED BY <4>1, <5>1, PostTyped
      <4>2. CASE UNCHANGED telegram
          BY <4>2 DEF TypeOK
      <4> QED BY <1>22, <4>1, <4>2 DEF Fail
    <3>6. lock' \in Tasks \cup {NoTask}
        BY <1>22 DEF Fail, TypeOK
    <3> QED BY <1>22, <3>1, <3>3, <3>4, <3>5, <3>6 DEF TypeOK, RestTyped, Fail
  <2> QED BY <2>1, <2>2, <2>3
<1>23. CASE Crash
  <2>1. EventsTyped'
      BY <1>23 DEF EventsTyped, Crash
  <2>2. TasksTyped'
      BY <1>23, IdleTask DEF TasksTyped, Crash
  <2>3. RestTyped'
    <3>1. faults' \in 0..MaxFaults
        BY <1>23, NumbersAssumption DEF Crash, TypeOK, Fault
    <3> QED BY <1>23, <3>1 DEF TypeOK, RestTyped, Crash
  <2> QED BY <2>1, <2>2, <2>3
<1>24. CASE UNCHANGED vars
  <2>1. EventsTyped'
      BY <1>24 DEF TypeOK, EventsTyped, vars
  <2>2. TasksTyped'
      BY <1>24 DEF TypeOK, TasksTyped, vars
  <2>3. RestTyped'
      BY <1>24 DEF TypeOK, RestTyped, vars
  <2> QED BY <2>1, <2>2, <2>3
<1> QED BY <1>1, <1>2, <1>3, <1>4, <1>5, <1>6, <1>7, <1>8, <1>9, <1>10, <1>11, <1>12,
           <1>13, <1>14, <1>15, <1>16, <1>17, <1>18, <1>19, <1>20, <1>21, <1>22, <1>23, <1>24
          
        DEF Next, Receive, Step

-----------------------------------------------------------------------------
(* What is done under conv_lock *)

LEMMA SendFields ==
    ASSUME NEW k \in Task, NEW n \in 1..2
    PROVE  LET j == [k EXCEPT !.pc = "send", !.part = n]
           IN  /\ j.pc = "send" /\ j.part = n
               /\ j.batch = k.batch /\ j.todo = k.todo /\ j.base = k.base /\ j.max = k.max
<1> DEFINE i == [k EXCEPT !.pc = "send"]
<1>1. i \in Task
    BY TaskUpdates
<1>2. i.pc = "send" /\ i.todo = k.todo /\ i.base = k.base /\ i.max = k.max
    BY DEF Task
<1>3. i.batch = k.batch
    BY DEF Task
<1> HIDE DEF i
<1> DEFINE j == [i EXCEPT !.part = n]
<1>4. /\ j.pc = i.pc /\ j.part = n /\ j.batch = i.batch
      /\ j.todo = i.todo /\ j.base = i.base /\ j.max = i.max
    BY <1>1 DEF Task
<1> HIDE DEF j
<1>5. /\ j.pc = "send" /\ j.part = n /\ j.batch = k.batch
      /\ j.todo = k.todo /\ j.base = k.base /\ j.max = k.max
    BY <1>2, <1>3, <1>4
<1> QED BY <1>5, Zenon DEF i, j

LEMMA PostedStays ==
    ASSUME UNCHANGED telegram
    PROVE  \A s, p : Posted(s, p) => Posted(s, p)'
  BY DEF Posted

\* Nothing is taken back from the topic.
LEMMA PostedAdds ==
    ASSUME TypeOK, NEW t \in Tasks, tasks[t].todo # {}, Post(t)
    PROVE  /\ \A s, p : Posted(s, p) => Posted(s, p)'
           /\ \E n \in DOMAIN telegram' :
                 telegram'[n] = <<Least(tasks[t].todo), tasks[t].part>>
<1> DEFINE e == <<Least(tasks[t].todo), tasks[t].part>>
           P == Seqs \X (1..2)
<1>1. tasks[t].todo \in SUBSET Seqs /\ tasks[t].part \in 1..2
    BY DEF TypeOK, Task
<1>2. e \in P
    BY <1>1, LeastSeq
<1>3. telegram \in Seq(P) /\ telegram' = Append(telegram, e)
    BY DEF TypeOK, Post
<1> HIDE DEF e, P
<1>4. /\ DOMAIN telegram = 1..Len(telegram)
      /\ DOMAIN telegram' = 1..(Len(telegram) + 1)
      /\ Len(telegram) \in Nat
      /\ \A n \in 1..Len(telegram) : telegram'[n] = telegram[n]
      /\ telegram'[Len(telegram) + 1] = e
    BY <1>2, <1>3
<1>5. \A s, p : Posted(s, p) => Posted(s, p)'
    BY <1>4 DEF Posted
<1>6. \E n \in DOMAIN telegram' : telegram'[n] = e
    BY <1>4
<1> QED BY <1>5, <1>6 DEF e

\* A task that moves disturbs no other one, unless it took the lock from it.
LEMMA OneTaskMoves ==
    ASSUME UnderLock, NEW u \in Tasks,
           \A t \in Tasks \ {u} : tasks'[t] = tasks[t],
           \A s, p : Posted(s, p) => Posted(s, p)',
           Inside(u) \/ lock \in {u, NoTask} \/ UNCHANGED <<lock, mapped, bookmark>>,
           Inside(u)' => Relies(u, tasks[u])'
    PROVE  UnderLock'
<1> SUFFICES ASSUME NEW t \in Tasks, Inside(t)', t # u
             PROVE  Relies(t, tasks[t])'
    BY DEF UnderLock
<1>1. tasks'[t] = tasks[t] /\ Inside(t)
    BY DEF Inside
<1>2. Relies(t, tasks[t])
    BY <1>1 DEF UnderLock
<1>3. UNCHANGED <<lock, mapped, bookmark>>
  <2>1. lock = t /\ t # NoTask
      BY <1>2, TasksAssumption DEF Relies
  <2>2. ~Inside(u)
      BY <2>1 DEF UnderLock, Relies
  <2> QED BY <2>1, <2>2
<1>4. \A s : Delivered(s) => Delivered(s)'
    BY DEF Delivered
<1>5. lock' = t
    BY <1>2, <1>3 DEF Relies
<1>6. /\ tasks[t].pc \in {"create", "commit"} => ~mapped'
      /\ tasks[t].pc \in {"each", "send", "record"} =>
            tasks[t].base = bookmark' /\ tasks[t].base <= tasks[t].max
    BY <1>2, <1>3 DEF Relies
<1>7. tasks[t].pc \in {"each", "send", "record", "redact"} /\ tasks[t].base < tasks[t].max =>
          \A p \in Parts(tasks[t].max) : \E n \in DOMAIN telegram' : telegram'[n] = <<tasks[t].max, p>>
    BY <1>2 DEF Relies, Delivered, Posted
<1>8. tasks[t].pc = "each" /\ tasks[t].base < tasks[t].max =>
          \A s \in tasks[t].todo : tasks[t].max < s
    BY <1>2 DEF Relies
<1>9. tasks[t].pc \in {"send", "record"} =>
          /\ tasks[t].todo # {}
          /\ \A s \in tasks[t].todo : tasks[t].max < s
          /\ tasks[t].part \in Parts(Least(tasks[t].todo))
          /\ tasks[t].part = 2 =>
                \E n \in DOMAIN telegram' : telegram'[n] = <<Least(tasks[t].todo), 1>>
    BY <1>2 DEF Relies, Posted
<1>10. tasks[t].pc = "record" =>
          \E n \in DOMAIN telegram' : telegram'[n] = <<Least(tasks[t].todo), tasks[t].part>>
    BY <1>2 DEF Relies, Posted
<1> QED BY <1>1, <1>5, <1>6, <1>7, <1>8, <1>9, <1>10 DEF Relies, Delivered, Posted

\* Nor does what no task does.
LEMMA NoTaskMoves ==
    ASSUME UnderLock, UNCHANGED <<mapped, bookmark, telegram, lock, tasks>>
    PROVE  UnderLock'
  BY DEF UnderLock, Inside, Relies, Delivered, Posted

LEMMA OutsideFields ==
    ASSUME NEW S \in SUBSET Seqs
    PROVE  /\ [Idle EXCEPT !.pc = "ensure", !.batch = S].pc = "ensure"
           /\ [Idle EXCEPT !.pc = "lock", !.todo = S].pc = "lock"
<1> DEFINE e == [Idle EXCEPT !.pc = "ensure"]
           l == [Idle EXCEPT !.pc = "lock"]
<1>1. e \in Task /\ e.pc = "ensure" /\ l \in Task /\ l.pc = "lock"
    BY IdleTask DEF Task
<1> HIDE DEF e, l
<1>2. [e EXCEPT !.batch = S].pc = "ensure"
    BY <1>1 DEF Task
<1>3. [l EXCEPT !.todo = S].pc = "lock"
    BY <1>1 DEF Task
<1> QED BY <1>2, <1>3, Zenon DEF e, l

LEMMA ProceedLeaves ==
    ASSUME TypeOK, NEW t \in Tasks, Proceed(t)
    PROVE  /\ ~Inside(t)'
           /\ \A r \in Tasks \ {t} : tasks'[r] = tasks[r]
<1>1. tasks' = [tasks EXCEPT ![t] = IF tasks[t].batch = {} THEN Idle
                       ELSE [Idle EXCEPT !.pc = "lock", !.todo = tasks[t].batch]]
    BY DEF Proceed, Become
<1> DEFINE k == [Idle EXCEPT !.pc = "lock", !.todo = tasks[t].batch]
<1>2. k.pc = "lock"
  <2>1. tasks[t].batch \in SUBSET Seqs
      BY DEF TypeOK, Task
  <2> QED BY <2>1, OutsideFields, Zenon
<1> HIDE DEF k
<1>3. tasks' = [tasks EXCEPT ![t] = IF tasks[t].batch = {} THEN Idle ELSE k]
    BY <1>1, Zenon DEF k
<1>4. tasks'[t] \in {Idle, k} /\ \A r \in Tasks \ {t} : tasks'[r] = tasks[r]
    BY <1>3 DEF TypeOK
<1>5. Idle.pc = "idle"
    BY DEF Idle
<1> QED BY <1>2, <1>4, <1>5 DEF Inside

LEMMA UnderLockInit == Init => UnderLock
  BY DEF Init, UnderLock, Inside, Idle

LEMMA UnderLockStep == TypeOK /\ UnderLock /\ [Next]_vars => UnderLock'
<1> SUFFICES ASSUME TypeOK, UnderLock, [Next]_vars
             PROVE  UnderLock'
    OBVIOUS
<1> USE DEF directus, channels
<1>1. ASSUME NEW a \in Appliers, NEW k \in Seqs, Store(a, k) PROVE UnderLock'
    BY <1>1, NoTaskMoves DEF Store
<1>2. ASSUME NEW a \in Appliers, Announce(a) PROVE UnderLock'
    BY <1>2, NoTaskMoves DEF Announce
<1>3. ASSUME NEW s \in Own, RecordOutbound(s) PROVE UnderLock'
    BY <1>3, NoTaskMoves DEF RecordOutbound
<1>4. ASSUME NEW s \in Own, OwnReply(s) PROVE UnderLock'
    BY <1>4, NoTaskMoves DEF OwnReply
<1>5. CASE TakeNew
  <2> DEFINE S == Head(events).seqs
  <2>1. S \in SUBSET Seqs
    <3>1. Head(events) \in Event
        BY <1>5, HeadTailProperties DEF TypeOK, TakeNew
    <3> QED BY <3>1 DEF Event
  <2> HIDE DEF S
  <2>2. tasks' = [tasks EXCEPT ![Run] = [Idle EXCEPT !.pc = "ensure", !.batch = S]]
      BY <1>5, Zenon DEF TakeNew, Become, S
  <2>3. [Idle EXCEPT !.pc = "ensure", !.batch = S].pc = "ensure"
      BY <2>1, OutsideFields
  <2> DEFINE k == [Idle EXCEPT !.pc = "ensure", !.batch = S]
  <2>4. k.pc = "ensure" /\ tasks' = [tasks EXCEPT ![Run] = k]
      BY <2>2, <2>3, Zenon
  <2> HIDE DEF k
  <2>5. Run \in Tasks
      BY DEF Tasks
  <2>6. \A t \in Tasks \ {Run} : tasks'[t] = tasks[t]
      BY <2>4 DEF TypeOK
  <2>7. ~Inside(Run)'
      BY <2>4, <2>5 DEF TypeOK, Inside
  <2>8. UNCHANGED <<mapped, bookmark, telegram, lock>>
      BY <1>5 DEF TakeNew
  <2> QED BY <2>5, <2>6, <2>7, <2>8, PostedStays, OneTaskMoves
<1>6. CASE TakeEcho
    BY <1>6, NoTaskMoves DEF TakeEcho
<1>7. CASE TakeConfirmed
    BY <1>7, NoTaskMoves DEF TakeConfirmed
<1>8. CASE TakeLagged
  <2>1. Run \in Tasks /\ UNCHANGED <<mapped, bookmark, telegram, lock>>
      BY <1>8 DEF TakeLagged, Tasks
  <2>2. tasks' = [tasks EXCEPT ![Run] = [Idle EXCEPT !.pc = "ensure"]]
      BY <1>8 DEF TakeLagged, Become
  <2>3. ~Inside(Run)' /\ \A t \in Tasks \ {Run} : tasks'[t] = tasks[t]
      BY <2>1, <2>2 DEF TypeOK, Inside, Idle
  <2> QED BY <2>1, <2>3, PostedStays, OneTaskMoves
<1>9. CASE Flush
  <2> DEFINE S == {s \in Readable : s > bookmark}
  <2>1. S \in SUBSET Seqs
      BY DEF Readable
  <2> HIDE DEF S
  <2>2. tasks' = [tasks EXCEPT ![Run] = [Idle EXCEPT !.pc = "lock", !.todo = S]]
      BY <1>9, Zenon DEF Flush, Become, S
  <2> DEFINE k == [Idle EXCEPT !.pc = "lock", !.todo = S]
  <2>3. k.pc = "lock" /\ tasks' = [tasks EXCEPT ![Run] = k]
      BY <2>1, <2>2, OutsideFields, Zenon
  <2> HIDE DEF k
  <2>4. Run \in Tasks
      BY DEF Tasks
  <2>5. \A t \in Tasks \ {Run} : tasks'[t] = tasks[t]
      BY <2>3 DEF TypeOK
  <2>6. ~Inside(Run)'
      BY <2>3, <2>4 DEF TypeOK, Inside
  <2>7. UNCHANGED <<mapped, bookmark, telegram, lock>>
      BY <1>9 DEF Flush
  <2> QED BY <2>4, <2>5, <2>6, <2>7, PostedStays, OneTaskMoves
<1>10. ASSUME NEW t \in Tasks, Reconcile(t) PROVE UnderLock'
  <2>1. UNCHANGED <<mapped, bookmark, telegram, lock>>
      BY <1>10 DEF Reconcile
  <2>2. tasks' = [tasks EXCEPT ![t] = [Idle EXCEPT !.pc = "ensure"]]
      BY <1>10 DEF Reconcile, Become
  <2>3. ~Inside(t)' /\ \A r \in Tasks \ {t} : tasks'[r] = tasks[r]
      BY <2>2 DEF TypeOK, Inside, Idle
  <2> QED BY <2>1, <2>3, PostedStays, OneTaskMoves
<1>11. ASSUME NEW t \in Tasks, EnsureFound(t) PROVE UnderLock'
  <2>1. UNCHANGED <<mapped, bookmark, telegram, lock>>
      BY <1>11 DEF EnsureFound
  <2>2. ~Inside(t)' /\ \A r \in Tasks \ {t} : tasks'[r] = tasks[r]
      BY <1>11, ProceedLeaves DEF EnsureFound
  <2> QED BY <2>1, <2>2, PostedStays, OneTaskMoves
<1>12. ASSUME NEW t \in Tasks, EnsureLock(t) PROVE UnderLock'
  <2>1. UNCHANGED <<mapped, bookmark, telegram>> /\ lock = NoTask /\ lock' = t /\ ~mapped
      BY <1>12 DEF EnsureLock
  <2>2. tasks' = [tasks EXCEPT ![t] = [tasks[t] EXCEPT !.pc = "create"]] /\ tasks[t] \in Task
      BY <1>12 DEF EnsureLock, Become, TypeOK
  <2>3. tasks'[t].pc = "create" /\ \A r \in Tasks \ {t} : tasks'[r] = tasks[r]
      BY <2>2 DEF TypeOK, Task
  <2>4. Relies(t, tasks[t])'
      BY <2>1, <2>3 DEF Relies
  <2> QED BY <2>1, <2>3, <2>4, PostedStays, OneTaskMoves
<1>13. ASSUME NEW t \in Tasks, Snapshot(t) PROVE UnderLock'
  <2>1. UNCHANGED <<mapped, bookmark, telegram, lock>> /\ tasks[t].pc = "create"
      BY <1>13 DEF Snapshot
  <2>2. lock = t /\ ~mapped
      BY <2>1 DEF UnderLock, Inside, Relies
  <2>3. tasks'[t].pc = "commit" /\ \A r \in Tasks \ {t} : tasks'[r] = tasks[r]
    <3>1. PICK first : Become(t, [tasks[t] EXCEPT !.pc = "commit", !.todo = HistoryTail, !.base = first])
        BY <1>13 DEF Snapshot
    <3>2. tasks[t] \in Task
        BY DEF TypeOK
    <3> QED BY <3>1, <3>2 DEF Become, TypeOK, Task
  <2>4. Relies(t, tasks[t])'
      BY <2>1, <2>2, <2>3 DEF Relies
  <2> QED BY <2>1, <2>2, <2>3, <2>4, PostedStays, OneTaskMoves
<1>14. ASSUME NEW t \in Tasks, Commit(t) PROVE UnderLock'
  <2>1. UNCHANGED telegram /\ Inside(t)
      BY <1>14 DEF Commit, Inside
  <2>2. ~Inside(t)' /\ \A r \in Tasks \ {t} : tasks'[r] = tasks[r]
    <3>1. CASE Become(t, [tasks[t] EXCEPT !.pc = "lock"])
      <4>1. tasks[t] \in Task
          BY DEF TypeOK
      <4> QED BY <3>1, <4>1 DEF Become, TypeOK, Task, Inside
    <3>2. CASE Proceed(t)
        BY <3>2, ProceedLeaves
    <3> QED BY <1>14, <3>1, <3>2 DEF Commit
  <2> QED BY <2>1, <2>2, PostedStays, OneTaskMoves
<1>15. ASSUME NEW t \in Tasks, Lock(t) PROVE UnderLock'
  <2>1. UNCHANGED <<mapped, bookmark, telegram>> /\ lock = NoTask /\ lock' = t
      BY <1>15 DEF Lock
  <2>2. /\ tasks'[t].pc = "each" /\ tasks'[t].base = bookmark /\ tasks'[t].max = bookmark
        /\ \A r \in Tasks \ {t} : tasks'[r] = tasks[r]
    <3>1. tasks' = [tasks EXCEPT ![t] = [tasks[t] EXCEPT !.pc = "each", !.base = bookmark, !.max = bookmark]]
        BY <1>15 DEF Lock, Become
    <3>2. tasks[t] \in Task
        BY DEF TypeOK
    <3> QED BY <3>1, <3>2 DEF TypeOK, Task
  <2>3. bookmark \in Nat
      BY SeqsAssumption DEF TypeOK
  <2>4. Relies(t, tasks[t])'
      BY <2>1, <2>2, <2>3 DEF Relies
  <2> QED BY <2>1, <2>2, <2>4, PostedStays, OneTaskMoves
<1>16. ASSUME NEW t \in Tasks, Each(t) PROVE UnderLock'
  <2> DEFINE k == tasks[t]
  <2>1. /\ UNCHANGED <<mapped, bookmark, telegram, lock>>
        /\ k.pc = "each" /\ k.todo # {} /\ Inside(t) /\ k \in Task
      BY <1>16 DEF Each, Inside, TypeOK
  <2>2. Relies(t, k)
      BY <2>1 DEF UnderLock
  <2>3. /\ lock = t /\ k.base = bookmark /\ k.base <= k.max
        /\ k.base < k.max => Delivered(k.max)
        /\ k.base < k.max => \A s \in k.todo : k.max < s
      BY <2>1, <2>2 DEF Relies
  <2>4. k.todo \in SUBSET Seqs /\ k.base \in Nat /\ k.max \in Nat
      BY <2>1, SeqsAssumption DEF Task
  <2>5. CASE Forwarded(t, Least(k.todo))
    <3> DEFINE S == k.todo \ {Least(k.todo)}
    <3>1. tasks' = [tasks EXCEPT ![t] = [k EXCEPT !.todo = S]]
        BY <1>16, <2>5 DEF Each, Become
    <3>2. S \in SUBSET Seqs
        BY <2>4
    <3>3. /\ tasks'[t].pc = "each" /\ tasks'[t].base = k.base /\ tasks'[t].max = k.max
          /\ tasks'[t].todo = S /\ \A r \in Tasks \ {t} : tasks'[r] = tasks[r]
      <4> HIDE DEF S
      <4> QED BY <2>1, <3>1, <3>2 DEF TypeOK, Task
    <3>4. Relies(t, tasks[t])'
        BY <2>1, <2>3, <3>3 DEF Relies, Delivered, Posted
    <3> QED BY <2>1, <3>3, <3>4, PostedStays, OneTaskMoves
  <2>6. CASE ~Forwarded(t, Least(k.todo))
    <3> DEFINE j == [k EXCEPT !.pc = "send", !.part = 1]
    <3>1. tasks' = [tasks EXCEPT ![t] = j]
        BY <1>16, <2>6, Zenon DEF Each, Become
    <3>2. j.pc = "send" /\ j.part = 1 /\ j.todo = k.todo /\ j.base = k.base /\ j.max = k.max
      <4>1. 1 \in 1..2
          OBVIOUS
      <4> QED BY <2>1, <4>1, SendFields, Zenon
    <3> HIDE DEF j
    <3>3. tasks'[t] = j /\ \A r \in Tasks \ {t} : tasks'[r] = tasks[r]
        BY <3>1 DEF TypeOK
    <3>4. \A s \in k.todo : k.max < s
      <4>1. Least(k.todo) \in Seqs /\ \A s \in k.todo : Least(k.todo) <= s
          BY <2>1, <2>4, LeastSeq
      <4>2. ~(Least(k.todo) <= k.base)
          BY <2>6 DEF Forwarded
      <4>3. CASE k.base < k.max
          BY <2>3, <4>3
      <4>4. CASE k.base = k.max
        <5> SUFFICES ASSUME NEW s \in k.todo PROVE k.max < s
            OBVIOUS
        <5>1. Least(k.todo) \in Nat /\ s \in Nat /\ Least(k.todo) <= s
            BY <2>4, <4>1 DEF Seqs
        <5> HIDE DEF k
        <5> QED BY <2>4, <4>2, <4>4, <5>1
      <4> QED BY <2>3, <2>4, <4>3, <4>4
    <3>5. 1 \in Parts(Least(k.todo))
        BY DEF Parts
    <3>6. Relies(t, tasks[t])'
        BY <2>1, <2>3, <3>2, <3>3, <3>4, <3>5 DEF Relies, Delivered, Posted
    <3> QED BY <2>1, <3>3, <3>6, PostedStays, OneTaskMoves
  <2> QED BY <2>5, <2>6
<1>17. ASSUME NEW t \in Tasks, Send(t) PROVE UnderLock'
  <2> DEFINE k == tasks[t]
  <2>1. /\ UNCHANGED <<mapped, bookmark, lock>>
        /\ k.pc = "send" /\ Inside(t) /\ k \in Task /\ Post(t)
      BY <1>17 DEF Send, Inside, TypeOK
  <2>2. Relies(t, k)
      BY <2>1 DEF UnderLock
  <2>3. k.todo # {}
      BY <2>1, <2>2 DEF Relies
  <2>4. /\ \A s, p : Posted(s, p) => Posted(s, p)'
        /\ \E n \in DOMAIN telegram' : telegram'[n] = <<Least(k.todo), k.part>>
      BY <2>1, <2>3, PostedAdds
  <2>5. /\ tasks'[t].pc = "record" /\ tasks'[t].base = k.base /\ tasks'[t].max = k.max
        /\ tasks'[t].todo = k.todo /\ tasks'[t].part = k.part
        /\ \A r \in Tasks \ {t} : tasks'[r] = tasks[r]
      BY <1>17, <2>1 DEF Send, Become, TypeOK, Task
  <2>6. k.base < k.max =>
            \A p \in Parts(k.max) : \E n \in DOMAIN telegram' : telegram'[n] = <<k.max, p>>
      BY <2>1, <2>2, <2>4 DEF Relies, Delivered, Posted
  <2>7. k.part = 2 => \E n \in DOMAIN telegram' : telegram'[n] = <<Least(k.todo), 1>>
      BY <2>1, <2>2, <2>4 DEF Relies, Posted
  <2>8. /\ lock = t /\ k.base = bookmark /\ k.base <= k.max
        /\ \A s \in k.todo : k.max < s
        /\ k.part \in Parts(Least(k.todo))
      BY <2>1, <2>2 DEF Relies
  <2>9. Relies(t, tasks[t])'
      BY <2>1, <2>3, <2>4, <2>5, <2>6, <2>7, <2>8 DEF Relies, Delivered, Posted
  <2> QED BY <2>1, <2>4, <2>5, <2>9, OneTaskMoves
<1>18. ASSUME NEW t \in Tasks, Record(t) PROVE UnderLock'
  <2> DEFINE k == tasks[t]
             s == Least(k.todo)
  <2>1. /\ UNCHANGED <<mapped, bookmark, telegram, lock>>
        /\ k.pc = "record" /\ Inside(t) /\ k \in Task
      BY <1>18 DEF Record, Inside, TypeOK
  <2>2. Relies(t, k)
      BY <2>1 DEF UnderLock
  <2>3. /\ lock = t /\ k.base = bookmark /\ k.base <= k.max
        /\ k.base < k.max => Delivered(k.max)
        /\ k.todo # {}
        /\ \A r \in k.todo : k.max < r
        /\ k.part \in Parts(s)
        /\ k.part = 2 => Posted(s, 1)
        /\ Posted(s, k.part)
      BY <2>1, <2>2 DEF Relies
  <2>4. k.todo \in SUBSET Seqs /\ k.base \in Nat /\ k.max \in Nat /\ k.part \in 1..2
      BY <2>1, SeqsAssumption DEF Task
  <2>5. s \in k.todo /\ s \in Nat /\ \A r \in k.todo : s <= r
    <3>1. s \in k.todo /\ \A r \in k.todo : s <= r
        BY <2>3, <2>4, LeastSeq
    <3> QED BY <2>4, <3>1 DEF Seqs
  <2>6. CASE k.part + 1 \in Parts(s)
    <3> DEFINE j == [k EXCEPT !.pc = "send", !.part = 2]
    <3>1. tasks' = [tasks EXCEPT ![t] = j]
        BY <1>18, <2>6, Zenon DEF Record, Become
    <3>2. j.pc = "send" /\ j.part = 2 /\ j.todo = k.todo /\ j.base = k.base /\ j.max = k.max
      <4>1. 2 \in 1..2
          OBVIOUS
      <4> QED BY <2>1, <4>1, SendFields, Zenon
    <3> HIDE DEF j
    <3>3. tasks'[t] = j /\ \A r \in Tasks \ {t} : tasks'[r] = tasks[r]
        BY <3>1 DEF TypeOK
    <3>4. k.part = 1 /\ 2 \in Parts(s)
      <4>1. Parts(s) \subseteq 1..2
          BY DEF Parts
      <4> HIDE DEF k, s
      <4> QED BY <2>4, <2>6, <4>1
    <3>5. Posted(s, 1)
        BY <2>3, <3>4
    <3>6. Relies(t, tasks[t])'
        BY <2>1, <2>3, <3>2, <3>3, <3>4, <3>5 DEF Relies, Delivered, Posted
    <3> QED BY <2>1, <3>3, <3>6, PostedStays, OneTaskMoves
  <2>7. CASE k.part + 1 \notin Parts(s)
    <3> DEFINE S == k.todo \ {s}
    <3>1. tasks' = [tasks EXCEPT ![t] = [k EXCEPT !.pc = "each", !.todo = S, !.max = s]]
        BY <1>18, <2>7 DEF Record, Become
    <3>2. S \in SUBSET Seqs
        BY <2>4
    <3>3. /\ tasks'[t].pc = "each" /\ tasks'[t].base = k.base /\ tasks'[t].max = s
          /\ tasks'[t].todo = S /\ \A r \in Tasks \ {t} : tasks'[r] = tasks[r]
      <4> HIDE DEF S, s
      <4> QED BY <2>1, <3>1, <3>2 DEF TypeOK, Task
    <3>4. Delivered(s)
      <4>1. CASE s \in Long
        <5>1. k.part = 2 /\ Parts(s) = 1..2
          <6>1. Parts(s) = 1..2
              BY <4>1 DEF Parts
          <6> HIDE DEF k, s
          <6> QED BY <2>4, <2>7, <6>1
        <5>2. Posted(s, 1) /\ Posted(s, 2)
            BY <2>3, <5>1
        <5>3. \A p \in 1..2 : p = 1 \/ p = 2
            OBVIOUS
        <5> QED BY <5>1, <5>2, <5>3 DEF Delivered
      <4>2. CASE s \notin Long
        <5>1. Parts(s) = {1}
            BY <4>2 DEF Parts
        <5> QED BY <2>3, <5>1 DEF Delivered
      <4> QED BY <4>1, <4>2
    <3>5. \A r \in S : s < r
      <4> SUFFICES ASSUME NEW r \in S PROVE s < r
          OBVIOUS
      <4>1. r \in Nat /\ s <= r /\ r # s
          BY <2>4, <2>5 DEF Seqs
      <4> HIDE DEF s, S
      <4> QED BY <2>5, <4>1
    <3>6. k.base <= s
      <4>1. k.max < s
          BY <2>3, <2>5
      <4> HIDE DEF k, s
      <4> QED BY <2>3, <2>4, <2>5, <4>1
    <3>7. Relies(t, tasks[t])'
      <4> HIDE DEF s, S
      <4> QED BY <2>1, <2>3, <3>3, <3>4, <3>5, <3>6 DEF Relies, Delivered, Posted
    <3> QED BY <2>1, <3>3, <3>7, PostedStays, OneTaskMoves
  <2> QED BY <2>6, <2>7
<1>19. ASSUME NEW t \in Tasks, NothingNew(t) PROVE UnderLock'
  <2>1. UNCHANGED <<mapped, bookmark, telegram>> /\ Inside(t)
      BY <1>19 DEF NothingNew, Inside
  <2>2. ~Inside(t)' /\ \A r \in Tasks \ {t} : tasks'[r] = tasks[r]
      BY <1>19, ProceedLeaves DEF NothingNew
  <2> QED BY <2>1, <2>2, PostedStays, OneTaskMoves
<1>20. ASSUME NEW t \in Tasks, Advance(t) PROVE UnderLock'
  <2> DEFINE k == tasks[t]
  <2>1. /\ UNCHANGED <<mapped, telegram, lock>>
        /\ k.pc = "each" /\ Inside(t) /\ k \in Task
      BY <1>20 DEF Advance, Inside, TypeOK
  <2>2. lock = t /\ (k.base < k.max => Delivered(k.max))
      BY <2>1 DEF UnderLock, Relies
  <2>3. /\ tasks'[t].pc = "redact" /\ tasks'[t].base = k.base /\ tasks'[t].max = k.max
        /\ \A r \in Tasks \ {t} : tasks'[r] = tasks[r]
      BY <1>20, <2>1 DEF Advance, Become, TypeOK, Task
  <2>4. Relies(t, tasks[t])'
      BY <2>1, <2>2, <2>3 DEF Relies, Delivered, Posted
  <2> QED BY <2>1, <2>3, <2>4, PostedStays, OneTaskMoves
<1>21. ASSUME NEW t \in Tasks, Erase(t) PROVE UnderLock'
  <2>1. UNCHANGED <<mapped, bookmark, telegram>> /\ Inside(t)
      BY <1>21 DEF Erase, Inside
  <2>2. ~Inside(t)' /\ \A r \in Tasks \ {t} : tasks'[r] = tasks[r]
      BY <1>21, ProceedLeaves DEF Erase
  <2> QED BY <2>1, <2>2, PostedStays, OneTaskMoves
<1>22. ASSUME NEW t \in Tasks, Fail(t) PROVE UnderLock'
  <2>1. ~Inside(t)' /\ \A r \in Tasks \ {t} : tasks'[r] = tasks[r]
      BY <1>22 DEF Fail, Return, Become, TypeOK, Inside, Idle
  <2>2. Inside(t) \/ lock \in {t, NoTask} \/ UNCHANGED <<lock, mapped, bookmark>>
    <3>1. Inside(t) \/ UNCHANGED <<mapped, bookmark>>
        BY <1>22 DEF Fail, Inside
    <3>2. lock = t \/ UNCHANGED lock
        BY <1>22 DEF Fail
    <3> QED BY <3>1, <3>2
  <2>3. \A s, p : Posted(s, p) => Posted(s, p)'
    <3>1. CASE tasks[t].pc = "send" /\ Post(t)
      <4>1. tasks[t].todo # {}
          BY <3>1 DEF UnderLock, Inside, Relies
      <4> QED BY <3>1, <4>1, PostedAdds
    <3>2. CASE UNCHANGED telegram
        BY <3>2, PostedStays
    <3> QED BY <1>22, <3>1, <3>2 DEF Fail
  <2> QED BY <2>1, <2>2, <2>3, OneTaskMoves
<1>23. CASE Crash
    BY <1>23 DEF Crash, UnderLock, Inside, Idle
<1>24. CASE UNCHANGED vars
    BY <1>24, NoTaskMoves DEF vars
<1> QED BY <1>1, <1>2, <1>3, <1>4, <1>5, <1>6, <1>7, <1>8, <1>9, <1>10, <1>11, <1>12,
           <1>13, <1>14, <1>15, <1>16, <1>17, <1>18, <1>19, <1>20, <1>21, <1>22, <1>23, <1>24
        DEF Next, Receive, Step

-----------------------------------------------------------------------------
(* Theorems *)

\* Each needs the other: a task that sends has a message to send.
LEMMA Invariants == Spec => [](TypeOK /\ UnderLock)
<1>1. Init => TypeOK /\ UnderLock
    BY TypeInit, UnderLockInit
<1>2. TypeOK /\ UnderLock /\ [Next]_vars => (TypeOK /\ UnderLock)'
    BY TypeStep, UnderLockStep
<1> QED BY <1>1, <1>2, PTL DEF Spec

\* Every variable keeps its type.
THEOREM TypeCorrect == Spec => []TypeOK
  BY Invariants, PTL

\* forward_to and ensure_conversation exclude each other and themselves, and what a task
\* read under conv_lock stays true until it lets go, whatever fails or crashes meanwhile.
THEOREM CriticalSection == Spec => []UnderLock
  BY Invariants, PTL

LEMMA BookmarkStep ==
    TypeOK /\ UnderLock /\ [Next]_vars =>
        (mapped /\ bookmark' # bookmark => bookmark' > bookmark /\ Delivered(bookmark'))
<1> SUFFICES ASSUME TypeOK, UnderLock, [Next]_vars, mapped, bookmark' # bookmark
             PROVE  bookmark' > bookmark /\ Delivered(bookmark')
    OBVIOUS
<1> USE DEF directus, channels
<1>1. ASSUME NEW t \in Tasks, tasks[t].pc = "each", tasks[t].max > tasks[t].base,
             bookmark' = tasks[t].max
      PROVE  bookmark' > bookmark /\ Delivered(bookmark')
  <2>1. tasks[t].base = bookmark
      BY <1>1 DEF UnderLock, Inside, Relies
  <2>2. tasks[t].base < tasks[t].max
    <3>1. tasks[t].base \in Nat /\ tasks[t].max \in Nat
        BY SeqsAssumption DEF TypeOK, Task
    <3> QED BY <1>1, <3>1
  <2>3. Delivered(tasks[t].max)
      BY <1>1, <2>2 DEF UnderLock, Inside, Relies
  <2> QED BY <1>1, <2>1, <2>3
<1>2. ASSUME NEW t \in Tasks PROVE tasks[t].pc # "commit"
    BY DEF UnderLock, Inside, Relies
<1>3. ASSUME NEW t \in Tasks, Advance(t) PROVE bookmark' > bookmark /\ Delivered(bookmark')
    BY <1>1, <1>3 DEF Advance
<1>4. ASSUME NEW t \in Tasks, Fail(t) PROVE bookmark' > bookmark /\ Delivered(bookmark')
  <2>1. /\ tasks[t].pc = "each" /\ tasks[t].max > tasks[t].base
        /\ bookmark' = tasks[t].max
      BY <1>2, <1>4 DEF Fail
  <2> QED BY <1>1, <2>1
<1>5. ASSUME NEW t \in Tasks, Commit(t) PROVE FALSE
    BY <1>2, <1>5 DEF Commit
<1>6. ASSUME NEW a \in Appliers PROVE ~Announce(a) /\ \A k \in Seqs : ~Store(a, k)
    BY DEF Announce, Store
<1>7. ASSUME NEW s \in Own PROVE ~RecordOutbound(s) /\ ~OwnReply(s)
    BY DEF RecordOutbound, OwnReply
<1>8. ~Receive /\ ~Flush /\ ~Crash /\ ~UNCHANGED vars
    BY DEF Receive, TakeNew, TakeEcho, TakeConfirmed, TakeLagged, Flush, Crash, vars
<1>9. ASSUME NEW t \in Tasks
      PROVE  /\ ~Reconcile(t) /\ ~EnsureFound(t) /\ ~EnsureLock(t) /\ ~Snapshot(t) /\ ~Lock(t)
             /\ ~Each(t) /\ ~Send(t) /\ ~Record(t) /\ ~NothingNew(t) /\ ~Erase(t)
    BY DEF Reconcile, EnsureFound, EnsureLock, Snapshot, Lock, Each, Send, Record, NothingNew, Erase
<1> QED BY <1>3, <1>4, <1>5, <1>6, <1>7, <1>8, <1>9 DEF Next, Step

\* advance_forwarded_seq only ever moves the bookmark forward, and to a message all of
\* whose parts were posted, with any number of failed calls and restarts.
THEOREM BookmarkOnlyAdvances == Spec => BookmarkAdvances
<1>1. TypeOK /\ UnderLock /\ [Next]_vars =>
          [mapped /\ bookmark' # bookmark => bookmark' > bookmark /\ Delivered(bookmark')]_vars
    BY BookmarkStep
<1> QED BY <1>1, Invariants, PTL DEF Spec, BookmarkAdvances


-----------------------------------------------------------------------------
(* Copies *)

\* What was posted, each part once.
Tells == {telegram[n] : n \in DOMAIN telegram}

\* First parts that may be posted again, and are not being recorded.
First(k, pc, s) == k.pc = pc /\ k.part = 1 /\ Least(k.todo) = s
Owed == {s \in Seqs : /\ Posted(s, 1)
                      /\ known[s] # "linked" \/ \E t \in Tasks : First(tasks[t], "send", s)
                      /\ \A t \in Tasks : ~First(tasks[t], "record", s)}
Balance == Len(telegram) + Cardinality(Owed) <= faults + Cardinality(Tells)

\* A second part is posted only when the first was recorded, and is not posted again.
Seconds == \A s \in Seqs : Posted(s, 2) => known[s] = "linked"
Fresh(k) == k.pc \in {"send", "record"} =>
                /\ k.part = 2 => known[Least(k.todo)] = "linked"
                /\ k.pc = "send" \/ k.part = 1 => ~Posted(Least(k.todo), 2)

Copies == Balance /\ Seconds /\ \A t \in Tasks : Fresh(tasks[t])
IInv == TypeOK /\ UnderLock /\ Copies

LEMMA Finite ==
    /\ \A S \in SUBSET Seqs : IsFiniteSet(S) /\ Cardinality(S) \in Nat
    /\ \A S \in SUBSET (Seqs \X (1..2)) : IsFiniteSet(S) /\ Cardinality(S) \in Nat
<1>1. IsFiniteSet(1..MaxSeq) /\ IsFiniteSet(1..2)
  <2>1. MaxSeq \in Int /\ 1 \in Int /\ 2 \in Int
      BY SeqsAssumption
  <2> QED BY <2>1, FS_Interval
<1>2. IsFiniteSet(Seqs \X (1..2))
    BY <1>1, FS_Product DEF Seqs
<1>3. \A S : IsFiniteSet(S) => \A T \in SUBSET S : IsFiniteSet(T) /\ Cardinality(T) \in Nat
    BY FS_Subset, FS_CardinalityType
<1> QED BY <1>1, <1>2, <1>3 DEF Seqs

LEMMA Fewer ==
    ASSUME NEW T \in SUBSET Seqs, NEW S \in SUBSET T
    PROVE  Cardinality(S) <= Cardinality(T)
  BY Finite, FS_Subset

LEMMA OwedIs == Owed \in SUBSET Seqs /\ Cardinality(Owed) \in Nat
<1>1. Owed \in SUBSET Seqs
    BY DEF Owed
<1> QED BY <1>1, Finite

LEMMA TellsIs ==
    ASSUME TypeOK
    PROVE  /\ Tells \in SUBSET (Seqs \X (1..2))
           /\ IsFiniteSet(Tells) /\ Cardinality(Tells) \in Nat
           /\ Len(telegram) \in Nat /\ faults \in Nat
           /\ \A s, p : Posted(s, p) <=> <<s, p>> \in Tells
<1> DEFINE P == Seqs \X (1..2)
<1>1. telegram \in Seq(P)
    BY DEF TypeOK
<1>2. Len(telegram) \in Nat /\ \A n \in DOMAIN telegram : telegram[n] \in P
  <2> HIDE DEF P
  <2> QED BY <1>1, LenProperties, ElementOfSeq
<1>3. Tells \in SUBSET P
    BY <1>2 DEF Tells
<1>4. \A s, p : Posted(s, p) <=> <<s, p>> \in Tells
    BY DEF Posted, Tells
<1>5. faults \in Nat
    BY NumbersAssumption DEF TypeOK
<1> QED BY <1>2, <1>3, <1>4, <1>5, Finite

\* A post adds an entry.
LEMMA PostTells ==
    ASSUME TypeOK, NEW t \in Tasks, tasks[t].todo # {}, Post(t)
    PROVE  LET s == Least(tasks[t].todo)
               p == tasks[t].part
           IN  /\ s \in Seqs /\ p \in 1..2
               /\ Len(telegram') = Len(telegram) + 1
               /\ Tells' = Tells \cup {<<s, p>>}
<1> DEFINE s == Least(tasks[t].todo)
           p == tasks[t].part
           e == <<s, p>>
           P == Seqs \X (1..2)
<1>1. tasks[t].todo \in SUBSET Seqs /\ p \in 1..2
    BY DEF TypeOK, Task
<1>2. s \in Seqs
    BY <1>1, LeastSeq
<1>3. telegram \in Seq(P) /\ telegram' = Append(telegram, e) /\ e \in P
    BY <1>1, <1>2 DEF TypeOK, Post
<1> HIDE DEF e, P
<1>4. /\ DOMAIN telegram = 1..Len(telegram)
      /\ DOMAIN telegram' = 1..(Len(telegram) + 1)
      /\ Len(telegram) \in Nat
      /\ \A n \in 1..Len(telegram) : telegram'[n] = telegram[n]
      /\ telegram'[Len(telegram) + 1] = e
      /\ Len(telegram') = Len(telegram) + 1
    BY <1>3
<1>5. \A n \in DOMAIN telegram' : n \in DOMAIN telegram \/ n = Len(telegram) + 1
    BY <1>4
<1>6. DOMAIN telegram \subseteq DOMAIN telegram' /\ Len(telegram) + 1 \in DOMAIN telegram'
    BY <1>4
<1>7. Tells' = Tells \cup {e}
    BY <1>4, <1>5, <1>6 DEF Tells
<1> QED BY <1>1, <1>2, <1>4, <1>7 DEF e

-----------------------------------------------------------------------------
(* What keeps the balance *)

LEMMA Sums ==
    ASSUME NEW a \in Nat, NEW b \in Nat, NEW c \in Nat, NEW l \in Nat, NEW f \in Nat, NEW g \in Nat,
           l + a <= f + c, b + f <= a + g
    PROVE  l + b <= g + c
  OBVIOUS

LEMMA Growth ==
    ASSUME NEW a \in Nat, NEW b \in Nat, NEW f \in Nat, NEW g \in Nat,
           \/ b <= a /\ f <= g
           \/ b <= a + 1 /\ g = f + 1
    PROVE  b + f <= a + g
  OBVIOUS

\* Nothing is posted.
LEMMA Unposted ==
    ASSUME TypeOK, TypeOK', Balance, UNCHANGED telegram,
           \/ Owed' \subseteq Owed /\ faults' >= faults
           \/ faults' = faults + 1 /\ \E s \in Seqs : Owed' \subseteq Owed \cup {s}
    PROVE  Balance'
<1>1. Len(telegram') = Len(telegram) /\ Tells' = Tells
    BY DEF Tells
<1> DEFINE a == Cardinality(Owed)
           b == Cardinality(Owed')
           c == Cardinality(Tells)
           l == Len(telegram)
<1>2. a \in Nat /\ b \in Nat /\ c \in Nat /\ l \in Nat /\ faults \in Nat /\ faults' \in Nat
  <2>1. b \in Nat
    <3>1. Owed' \in SUBSET Seqs
        BY DEF Owed
    <3> QED BY <3>1, Finite
  <2>2. faults' \in Nat
      BY NumbersAssumption DEF TypeOK
  <2> QED BY <2>1, <2>2, OwedIs, TellsIs
<1>3. b + faults <= a + faults'
  <2>1. CASE Owed' \subseteq Owed /\ faults' >= faults
    <3>1. b <= a
        BY <2>1, OwedIs, Fewer
    <3>2. faults <= faults'
        BY <1>2, <2>1
    <3> HIDE DEF a, b
    <3>3. a \in Nat /\ b \in Nat /\ faults \in Nat /\ faults' \in Nat
        BY <1>2
    <3> QED BY <3>1, <3>2, <3>3, Growth
  <2>2. ASSUME NEW s \in Seqs, Owed' \subseteq Owed \cup {s}, faults' = faults + 1
        PROVE  b + faults <= a + faults'
    <3>1. IsFiniteSet(Owed) /\ Owed \cup {s} \in SUBSET Seqs
        BY OwedIs, Finite
    <3>2. Cardinality(Owed \cup {s}) = a \/ Cardinality(Owed \cup {s}) = a + 1
        BY <3>1, FS_AddElement
    <3>3. b <= Cardinality(Owed \cup {s})
        BY <2>2, <3>1, Fewer
    <3>4. b <= a + 1
      <4> HIDE DEF a, b
      <4> QED BY <1>2, <3>2, <3>3
    <3> HIDE DEF a, b
    <3> QED BY <1>2, <2>2, <3>4, Growth
  <2> QED BY <2>1, <2>2
<1>4. l + a <= faults + c
    BY DEF Balance
<1>5. l + b <= faults' + c
  <2> HIDE DEF a, b, c, l
  <2> QED BY <1>2, <1>3, <1>4, Sums
<1> QED BY <1>1, <1>5 DEF Balance

\* A part is posted: for the first time, at the price of one that is owed, or of a failure.
LEMMA Posting ==
    ASSUME TypeOK, TypeOK', Balance, NEW t \in Tasks, tasks[t].todo # {}, Post(t),
           LET s == Least(tasks[t].todo)
               p == tasks[t].part
           IN  \/ ~Posted(s, p) /\ Owed' \subseteq Owed /\ faults' = faults
               \/ s \in Owed /\ Owed' \subseteq Owed \ {s} /\ faults' = faults
               \/ ~Posted(s, p) /\ Owed' \subseteq Owed \cup {s} /\ faults' = faults + 1
               \/ Owed' \subseteq Owed /\ faults' = faults + 1
    PROVE  Balance'
<1> DEFINE s == Least(tasks[t].todo)
           p == tasks[t].part
           a == Cardinality(Owed)
           b == Cardinality(Owed')
           c == Cardinality(Tells)
           d == Cardinality(Tells')
           l == Len(telegram)
<1>1. s \in Seqs /\ Len(telegram') = l + 1 /\ Tells' = Tells \cup {<<s, p>>}
    BY PostTells
<1>2. /\ a \in Nat /\ b \in Nat /\ c \in Nat /\ d \in Nat /\ l \in Nat
      /\ faults \in Nat /\ faults' \in Nat
  <2>1. b \in Nat
    <3>1. Owed' \in SUBSET Seqs
        BY DEF Owed
    <3> QED BY <3>1, Finite
  <2>2. faults' \in Nat
      BY NumbersAssumption DEF TypeOK
  <2>3. d \in Nat
    <3>1. IsFiniteSet(Tells \cup {<<s, p>>})
        BY TellsIs, FS_AddElement
    <3> QED BY <1>1, <3>1, FS_CardinalityType
  <2> QED BY <2>1, <2>2, <2>3, OwedIs, TellsIs
<1>3. d >= c /\ (~Posted(s, p) => d = c + 1)
  <2>1. /\ Cardinality(Tells \cup {<<s, p>>}) = IF <<s, p>> \in Tells THEN c ELSE c + 1
        /\ Posted(s, p) <=> <<s, p>> \in Tells
      BY TellsIs, FS_AddElement
  <2> HIDE DEF c, s, p
  <2> QED BY <1>1, <1>2, <2>1
<1>4. (Owed' \subseteq Owed => b <= a) /\ (Owed' \subseteq Owed \cup {s} => b <= a + 1)
  <2>1. IsFiniteSet(Owed) /\ Owed \in SUBSET Seqs /\ Owed \cup {s} \in SUBSET Seqs
      BY <1>1, OwedIs, Finite
  <2>2. Cardinality(Owed \cup {s}) = a \/ Cardinality(Owed \cup {s}) = a + 1
      BY <2>1, FS_AddElement
  <2>3. Owed' \subseteq Owed \cup {s} => b <= Cardinality(Owed \cup {s})
      BY <2>1, Fewer
  <2>4. Owed' \subseteq Owed => b <= a
      BY <2>1, Fewer
  <2> HIDE DEF a, b, s
  <2> QED BY <1>2, <2>2, <2>3, <2>4
<1>5. s \in Owed /\ Owed' \subseteq Owed \ {s} => b + 1 <= a
  <2> SUFFICES ASSUME s \in Owed, Owed' \subseteq Owed \ {s} PROVE b + 1 <= a
      OBVIOUS
  <2>1. IsFiniteSet(Owed) /\ Owed \in SUBSET Seqs /\ Owed \ {s} \in SUBSET Seqs
      BY OwedIs, Finite
  <2>2. Cardinality(Owed \ {s}) = a - 1
      BY <2>1, FS_RemoveElement
  <2>3. b <= Cardinality(Owed \ {s})
      BY <2>1, Fewer
  <2> HIDE DEF a, b, s
  <2> QED BY <1>2, <2>2, <2>3
<1>6. l + a <= faults + c
    BY DEF Balance
<1>7. (l + 1) + b <= faults' + d
  <2>1. \/ d = c + 1 /\ b <= a /\ faults' = faults
        \/ b + 1 <= a /\ faults' = faults
        \/ d = c + 1 /\ b <= a + 1 /\ faults' = faults + 1
        \/ b <= a /\ faults' = faults + 1
      BY <1>3, <1>4, <1>5
  <2> HIDE DEF a, b, c, d, l, s, p
  <2> QED BY <1>2, <1>3, <1>6, <2>1
<1> QED BY <1>1, <1>7 DEF Balance

-----------------------------------------------------------------------------
(* What keeps the rest *)

Dull(k) == k.pc \notin {"send", "record"}
Links == \A s \in Seqs : known[s] = "linked" => known'[s] = "linked"

\* The message a task is at.
LEMMA CurrentIs ==
    ASSUME TypeOK, UnderLock, NEW t \in Tasks, ~Dull(tasks[t])
    PROVE  /\ tasks[t].todo # {} /\ Least(tasks[t].todo) \in Seqs /\ tasks[t].part \in 1..2
           /\ \A u \in Tasks : u # t => Dull(tasks[u])
<1>1. Relies(t, tasks[t])
    BY DEF Dull, UnderLock, Inside
<1>2. tasks[t].todo # {} /\ lock = t
    BY <1>1 DEF Relies, Dull
<1>3. tasks[t].todo \in SUBSET Seqs /\ tasks[t].part \in 1..2
    BY DEF TypeOK, Task
<1>4. ASSUME NEW u \in Tasks, u # t PROVE Dull(tasks[u])
    BY <1>2, <1>4 DEF Dull, UnderLock, Inside, Relies
<1> QED BY <1>2, <1>3, <1>4, LeastSeq

\* What keeps to the tasks that neither send nor record.
LEMMA DullStep ==
    ASSUME TypeOK, TypeOK', UnderLock, Copies, UNCHANGED telegram, Links, faults' >= faults,
           \A t \in Tasks : tasks'[t] = tasks[t] \/ (Dull(tasks[t]) /\ Dull(tasks'[t]))
    PROVE  Copies'
<1>1. \A s, p : Posted(s, p)' <=> Posted(s, p)
    BY DEF Posted
<1>2. ASSUME NEW t \in Tasks, ~Dull(tasks'[t])
      PROVE  tasks'[t] = tasks[t] /\ ~Dull(tasks[t])
    BY <1>2
<1>3. Owed' \subseteq Owed
  <2> SUFFICES ASSUME NEW s \in Owed' PROVE s \in Owed
      OBVIOUS
  <2>1. /\ s \in Seqs /\ Posted(s, 1)
        /\ known'[s] # "linked" \/ \E t \in Tasks : First(tasks'[t], "send", s)
        /\ \A t \in Tasks : ~First(tasks'[t], "record", s)
      BY <1>1 DEF Owed
  <2>2. \A t \in Tasks : First(tasks'[t], "send", s) => First(tasks[t], "send", s)
      BY <1>2 DEF First, Dull
  <2>3. \A t \in Tasks : First(tasks[t], "record", s) => First(tasks'[t], "record", s)
      BY DEF First, Dull
  <2>4. known'[s] # "linked" => known[s] # "linked"
      BY <2>1 DEF Links
  <2> QED BY <2>1, <2>2, <2>3, <2>4 DEF Owed
<1>4. Balance'
    BY <1>3, Unposted DEF Copies
<1>5. Seconds'
    BY <1>1 DEF Copies, Seconds, Links
<1>6. ASSUME NEW t \in Tasks PROVE Fresh(tasks[t])'
  <2>1. CASE Dull(tasks'[t])
      BY <2>1 DEF Dull, Fresh
  <2>2. CASE ~Dull(tasks'[t])
    <3>1. tasks'[t] = tasks[t] /\ ~Dull(tasks[t])
        BY <1>2, <2>2
    <3>2. Least(tasks[t].todo) \in Seqs
        BY <3>1, CurrentIs
    <3>3. Fresh(tasks[t])
        BY DEF Copies
    <3> QED BY <1>1, <3>1, <3>2, <3>3 DEF Fresh, Links, Posted
  <2> QED BY <2>1, <2>2
<1> QED BY <1>4, <1>5, <1>6 DEF Copies

\* A task stops where it is, with a failure.
LEMMA StopStep ==
    ASSUME TypeOK, TypeOK', UnderLock, Copies, UNCHANGED telegram, Links, faults' = faults + 1,
           \A t \in Tasks : Dull(tasks'[t])
    PROVE  Copies'
<1>1. \A s, p : Posted(s, p)' <=> Posted(s, p)
    BY DEF Posted
<1>2. PICK s \in Seqs \cup {0} : \A r \in Seqs, t \in Tasks : First(tasks[t], "record", r) => r = s
  <2>1. CASE \E t \in Tasks : ~Dull(tasks[t])
    <3>1. PICK t \in Tasks : ~Dull(tasks[t])
        BY <2>1
    <3> QED BY <3>1, CurrentIs DEF First, Dull
  <2>2. CASE \A t \in Tasks : Dull(tasks[t])
      BY <2>2 DEF First, Dull
  <2> QED BY <2>1, <2>2
<1>3. ASSUME NEW r \in Owed' PROVE r \in Owed \/ r = s
  <2>1. /\ r \in Seqs /\ Posted(r, 1)
        /\ known'[r] # "linked" \/ \E t \in Tasks : First(tasks'[t], "send", r)
      BY <1>1 DEF Owed
  <2>2. known'[r] # "linked"
      BY <2>1 DEF First, Dull
  <2>3. known[r] # "linked"
      BY <2>1, <2>2 DEF Links
  <2>4. r # s => \A t \in Tasks : ~First(tasks[t], "record", r)
      BY <1>2, <2>1
  <2> QED BY <2>1, <2>3, <2>4 DEF Owed
<1>4. Balance'
  <2>1. CASE s \in Seqs
    <3>1. Owed' \subseteq Owed \cup {s}
        BY <1>3
    <3> QED BY <2>1, <3>1, Unposted DEF Copies
  <2>2. CASE s \notin Seqs
    <3>1. Owed' \subseteq Owed
        BY <1>3, <2>2 DEF Owed
    <3>2. faults' >= faults
        BY NumbersAssumption DEF TypeOK
    <3> QED BY <3>1, <3>2, Unposted DEF Copies
  <2> QED BY <2>1, <2>2
<1>5. Seconds'
    BY <1>1 DEF Copies, Seconds, Links
<1>6. ASSUME NEW t \in Tasks PROVE Fresh(tasks[t])'
    BY DEF Dull, Fresh
<1> QED BY <1>4, <1>5, <1>6 DEF Copies

\* What is posted after a post of the current message.
LEMMA PostedIs ==
    ASSUME TypeOK, TypeOK', NEW t \in Tasks, tasks[t].todo # {}, Post(t)
    PROVE  LET s == Least(tasks[t].todo)
               p == tasks[t].part
           IN  \A r, q : Posted(r, q)' <=> Posted(r, q) \/ (r = s /\ q = p)
<1> DEFINE s == Least(tasks[t].todo)
           p == tasks[t].part
<1>1. Tells' = Tells \cup {<<s, p>>}
    BY PostTells
<1>2. \A r, q : Posted(r, q) <=> <<r, q>> \in Tells
    BY TellsIs
<1>3. \A r, q : Posted(r, q)' <=> <<r, q>> \in Tells'
    BY DEF Posted, Tells
<1> HIDE DEF s, p
<1> SUFFICES ASSUME NEW r, NEW q
             PROVE  Posted(r, q)' <=> Posted(r, q) \/ (r = s /\ q = p)
    BY DEF s, p
<1>4. <<r, q>> = <<s, p>> <=> r = s /\ q = p
    OBVIOUS
<1> QED BY <1>1, <1>2, <1>3, <1>4

\* Who is at a message is alone at it.
LEMMA Alone ==
    ASSUME TypeOK, UnderLock, NEW t \in Tasks, Inside(t)
    PROVE  \A u \in Tasks : u # t => Dull(tasks[u])
  BY DEF UnderLock, Inside, Relies, Dull

\* A task that is not at any message goes on to send the first part of one.
LEMMA BeginStep ==
    ASSUME TypeOK, TypeOK', UnderLock, Copies, NEW t \in Tasks, tasks[t].pc = "each",
           UNCHANGED <<telegram, known, faults>>,
           tasks[t].todo # {}, known[Least(tasks[t].todo)] # "linked",
           First(tasks'[t], "send", Least(tasks[t].todo)),
           \A u \in Tasks \ {t} : tasks'[u] = tasks[u]
    PROVE  Copies'
<1> DEFINE s == Least(tasks[t].todo)
<1>1. s \in Seqs
  <2>1. tasks[t].todo \in SUBSET Seqs
      BY DEF TypeOK, Task
  <2> QED BY <2>1, LeastSeq
<1>2. \A u \in Tasks : Dull(tasks[u])
    BY Alone DEF Dull, Inside
<1>3. \A r, p : Posted(r, p)' <=> Posted(r, p)
    BY DEF Posted
<1> HIDE DEF s
<1>4. Owed' \subseteq Owed
  <2> SUFFICES ASSUME NEW r \in Owed' PROVE r \in Owed
      OBVIOUS
  <2>1. /\ r \in Seqs /\ Posted(r, 1)
        /\ known[r] # "linked" \/ \E u \in Tasks : First(tasks'[u], "send", r)
      BY <1>3 DEF Owed
  <2>2. \A u \in Tasks : First(tasks'[u], "send", r) => r = s
      BY <1>2 DEF First, Dull, s
  <2>3. known[r] # "linked"
      BY <2>1, <2>2 DEF s
  <2> QED BY <1>2, <2>1, <2>3 DEF Owed, First, Dull
<1>5. Balance'
  <2>1. faults' >= faults
      BY NumbersAssumption DEF TypeOK
  <2> QED BY <1>4, <2>1, Unposted DEF Copies
<1>6. ASSUME NEW u \in Tasks PROVE Fresh(tasks[u])'
  <2>1. CASE u = t
    <3>1. ~Posted(s, 2)
        BY <1>1 DEF Copies, Seconds, s
    <3>2. Least(tasks'[t].todo) = s /\ tasks'[t].part = 1
        BY DEF First, s
    <3> QED BY <1>3, <2>1, <3>1, <3>2 DEF Fresh
  <2>2. CASE u # t
      BY <1>2, <2>2 DEF Fresh, Dull
  <2> QED BY <2>1, <2>2
<1>7. Seconds'
    BY <1>3 DEF Copies, Seconds
<1> QED BY <1>5, <1>6, <1>7 DEF Copies

\* The part is posted, and the task goes on to record it.
LEMMA SendStep ==
    ASSUME TypeOK, TypeOK', UnderLock, Copies, NEW t \in Tasks, Send(t)
    PROVE  Copies'
<1> DEFINE s == Least(tasks[t].todo)
           p == tasks[t].part
<1>1. /\ tasks[t].pc = "send" /\ Post(t) /\ known' = known /\ faults' = faults
      /\ ~Dull(tasks[t])
    BY DEF Send, directus, Dull
<1>2. tasks[t].todo # {} /\ s \in Seqs /\ p \in 1..2 /\ \A u \in Tasks : u # t => Dull(tasks[u])
    BY <1>1, CurrentIs
<1>3. /\ tasks'[t].pc = "record" /\ tasks'[t].todo = tasks[t].todo /\ tasks'[t].part = p
      /\ \A u \in Tasks \ {t} : tasks'[u] = tasks[u]
  <2>1. tasks[t] \in Task /\ tasks' = [tasks EXCEPT ![t] = [tasks[t] EXCEPT !.pc = "record"]]
      BY DEF TypeOK, Send, Become
  <2> QED BY <2>1 DEF TypeOK, Task
<1>4. \A r, q : Posted(r, q)' <=> Posted(r, q) \/ (r = s /\ q = p)
    BY <1>1, <1>2, PostedIs
<1>5. Fresh(tasks[t])
    BY DEF Copies
<1>6. ~Posted(s, 2) /\ (p = 2 => known[s] = "linked")
    BY <1>1, <1>5 DEF Fresh
<1>7. p = 1 \/ p = 2
    BY <1>2
<1>8. ASSUME NEW r \in Owed' PROVE r \in Owed /\ (p = 1 => r # s)
  <2>1. /\ r \in Seqs /\ Posted(r, 1)'
        /\ known[r] # "linked" \/ \E u \in Tasks : First(tasks'[u], "send", r)
        /\ ~First(tasks'[t], "record", r)
      BY <1>1 DEF Owed
  <2>2. known[r] # "linked"
      BY <1>2, <1>3, <2>1 DEF First, Dull
  <2>3. p = 1 => r # s
      BY <1>3, <2>1 DEF First
  <2>4. Posted(r, 1)
    <3>1. CASE p = 1
        BY <1>4, <2>1, <2>3, <3>1
    <3>2. CASE p # 1
        BY <1>4, <2>1, <3>2
    <3> QED BY <3>1, <3>2
  <2>5. \A u \in Tasks : ~First(tasks[u], "record", r)
      BY <1>1, <1>2 DEF First, Dull
  <2> QED BY <2>1, <2>2, <2>3, <2>4, <2>5 DEF Owed
<1>9. p = 1 /\ Posted(s, 1) => s \in Owed
  <2>1. p = 1 => First(tasks[t], "send", s)
      BY <1>1 DEF First
  <2>2. \A u \in Tasks : ~First(tasks[u], "record", s)
      BY <1>1, <1>2 DEF First, Dull
  <2> QED BY <1>2, <2>1, <2>2 DEF Owed
<1>10. \/ ~Posted(s, p) /\ Owed' \subseteq Owed
       \/ s \in Owed /\ Owed' \subseteq Owed \ {s}
  <2>1. Owed' \subseteq Owed /\ (p = 1 => Owed' \subseteq Owed \ {s})
      BY <1>8
  <2>2. CASE p = 2
      BY <1>6, <2>1, <2>2
  <2>3. CASE p = 1
      BY <1>9, <2>1, <2>3
  <2> QED BY <1>7, <2>2, <2>3
<1>11. Balance'
    BY <1>1, <1>2, <1>10, Posting DEF Copies
<1>12. Seconds'
  <2> SUFFICES ASSUME NEW r \in Seqs, Posted(r, 2)' PROVE known'[r] = "linked"
      BY DEF Seconds
  <2>1. Posted(r, 2) \/ (r = s /\ p = 2)
      BY <1>4
  <2> QED BY <1>1, <1>6, <2>1 DEF Copies, Seconds
<1>13. ASSUME NEW u \in Tasks PROVE Fresh(tasks[u])'
  <2>1. CASE u = t
    <3>1. ASSUME NEW r, r = s, p = 1 PROVE ~Posted(r, 2)'
        BY <1>4, <1>6, <3>1
    <3>2. Least(tasks'[t].todo) = s
        BY <1>3
    <3> QED BY <1>1, <1>3, <1>6, <2>1, <3>1, <3>2 DEF Fresh
  <2>2. CASE u # t
      BY <1>2, <1>3, <2>2 DEF Fresh, Dull
  <2> QED BY <2>1, <2>2
<1> QED BY <1>11, <1>12, <1>13 DEF Copies

\* The part is posted and the task never hears of it.
LEMMA LostStep ==
    ASSUME TypeOK, TypeOK', UnderLock, Copies, NEW t \in Tasks, tasks[t].pc = "send", Post(t),
           known' = known, faults' = faults + 1, \A u \in Tasks : Dull(tasks'[u])
    PROVE  Copies'
<1> DEFINE s == Least(tasks[t].todo)
           p == tasks[t].part
<1>1. ~Dull(tasks[t])
    BY DEF Dull
<1>2. tasks[t].todo # {} /\ s \in Seqs /\ p \in 1..2 /\ \A u \in Tasks : u # t => Dull(tasks[u])
    BY <1>1, CurrentIs
<1>3. \A r, q : Posted(r, q)' <=> Posted(r, q) \/ (r = s /\ q = p)
    BY <1>2, PostedIs
<1>4. Fresh(tasks[t])
    BY DEF Copies
<1>5. ~Posted(s, 2) /\ (p = 2 => known[s] = "linked")
    BY <1>4 DEF Fresh
<1>6. \A r \in Seqs, u \in Tasks : ~First(tasks[u], "record", r)
    BY <1>2 DEF First, Dull
<1>7. ASSUME NEW r \in Owed' PROVE r \in Owed \/ (r = s /\ p = 1 /\ ~Posted(s, 1))
  <2>1. /\ r \in Seqs /\ Posted(r, 1)'
        /\ known[r] # "linked" \/ \E u \in Tasks : First(tasks'[u], "send", r)
      BY DEF Owed
  <2>2. known[r] # "linked"
      BY <2>1 DEF First, Dull
  <2>3. Posted(r, 1) \/ (r = s /\ p = 1)
      BY <1>3, <2>1
  <2> QED BY <1>6, <2>1, <2>2, <2>3 DEF Owed
<1>8. \/ ~Posted(s, p) /\ Owed' \subseteq Owed \cup {s}
      \/ Owed' \subseteq Owed
  <2>1. CASE p = 1 /\ ~Posted(s, 1)
    <3>1. Owed' \subseteq Owed \cup {s}
        BY <1>7
    <3> QED BY <2>1, <3>1
  <2>2. CASE ~(p = 1 /\ ~Posted(s, 1))
    <3>1. Owed' \subseteq Owed
        BY <1>7, <2>2
    <3> QED BY <3>1
  <2> QED BY <2>1, <2>2
<1>9. Balance'
    BY <1>2, <1>8, Posting DEF Copies
<1>10. Seconds'
  <2> SUFFICES ASSUME NEW r \in Seqs, Posted(r, 2)' PROVE known'[r] = "linked"
      BY DEF Seconds
  <2>1. Posted(r, 2) \/ (r = s /\ p = 2)
      BY <1>3
  <2> QED BY <1>5, <2>1 DEF Copies, Seconds
<1>11. ASSUME NEW u \in Tasks PROVE Fresh(tasks[u])'
    BY DEF Fresh, Dull
<1> QED BY <1>9, <1>10, <1>11 DEF Copies

\* A part is recorded, and the task goes on to the next part or message.
LEMMA RecordStep ==
    ASSUME TypeOK, TypeOK', UnderLock, Copies, NEW t \in Tasks, Record(t)
    PROVE  Copies'
<1> DEFINE k == tasks[t]
           s == Least(k.todo)
<1>1. k.pc = "record" /\ UNCHANGED telegram /\ faults' = faults /\ ~Dull(k) /\ k \in Task
    BY DEF Record, Dull, TypeOK
<1>2. k.todo # {} /\ s \in Seqs /\ k.part \in 1..2 /\ \A u \in Tasks : u # t => Dull(tasks[u])
    BY <1>1, CurrentIs
<1>3. known' = [known EXCEPT ![s] = "linked"]
    BY DEF Record, Recorded
<1>4. known'[s] = "linked" /\ \A r \in Seqs : r # s => known'[r] = known[r]
    BY <1>2, <1>3 DEF TypeOK
<1>5. \A r, q : Posted(r, q)' <=> Posted(r, q)
    BY <1>1 DEF Posted
<1>6. /\ \A u \in Tasks \ {t} : tasks'[u] = tasks[u]
      /\ \/ Dull(tasks'[t])
         \/ k.part = 1 /\ tasks'[t].pc = "send" /\ tasks'[t].part = 2 /\ tasks'[t].todo = k.todo
  <2>1. CASE k.part + 1 \in Parts(s)
    <3> DEFINE j == [k EXCEPT !.pc = "send", !.part = 2]
    <3>1. tasks' = [tasks EXCEPT ![t] = j]
        BY <2>1, Zenon DEF Record, Become
    <3>2. j.pc = "send" /\ j.part = 2 /\ j.todo = k.todo
      <4>1. 2 \in 1..2
          OBVIOUS
      <4> QED BY <1>1, <4>1, SendFields, Zenon
    <3> HIDE DEF j
    <3>3. tasks'[t] = j /\ \A u \in Tasks \ {t} : tasks'[u] = tasks[u]
        BY <3>1 DEF TypeOK
    <3>4. k.part = 1
      <4>1. Parts(s) \subseteq 1..2
          BY DEF Parts
      <4> HIDE DEF k, s
      <4> QED BY <1>2, <2>1, <4>1
    <3> QED BY <3>2, <3>3, <3>4
  <2>2. CASE k.part + 1 \notin Parts(s)
    <3> DEFINE S == k.todo \ {s}
    <3>1. tasks' = [tasks EXCEPT ![t] = [k EXCEPT !.pc = "each", !.todo = S, !.max = s]]
        BY <2>2 DEF Record, Become
    <3>2. tasks'[t].pc = "each" /\ \A u \in Tasks \ {t} : tasks'[u] = tasks[u]
      <4> HIDE DEF S, s
      <4> QED BY <1>1, <3>1 DEF TypeOK, Task
    <3> QED BY <3>2 DEF Dull
  <2> QED BY <2>1, <2>2
<1> HIDE DEF s
<1>7. Owed' \subseteq Owed
  <2> SUFFICES ASSUME NEW r \in Owed' PROVE r \in Owed
      OBVIOUS
  <2>1. /\ r \in Seqs /\ Posted(r, 1)
        /\ known'[r] # "linked" \/ \E u \in Tasks : First(tasks'[u], "send", r)
      BY <1>5 DEF Owed
  <2>2. \A u \in Tasks : ~First(tasks'[u], "send", r)
      BY <1>2, <1>6 DEF First, Dull
  <2>3. r # s /\ known[r] # "linked"
      BY <1>4, <2>1, <2>2
  <2>4. \A u \in Tasks : ~First(tasks[u], "record", r)
      BY <1>2, <2>3 DEF First, Dull, s
  <2> QED BY <2>1, <2>3, <2>4 DEF Owed
<1>8. Balance'
  <2>1. faults' >= faults
      BY <1>1, NumbersAssumption DEF TypeOK
  <2> QED BY <1>1, <1>7, <2>1, Unposted DEF Copies
<1>9. Seconds'
    BY <1>4, <1>5 DEF Copies, Seconds
<1>10. ASSUME NEW u \in Tasks PROVE Fresh(tasks[u])'
  <2>1. CASE Dull(tasks'[u])
      BY <2>1 DEF Fresh, Dull
  <2>2. CASE ~Dull(tasks'[u])
    <3>1. u = t /\ k.part = 1 /\ Least(tasks'[u].todo) = s /\ tasks'[u].pc = "send"
        BY <1>2, <1>6, <2>2 DEF s
    <3>2. ~Posted(s, 2)
        BY <1>1, <3>1 DEF Copies, Fresh, s
    <3> QED BY <1>4, <1>5, <3>1, <3>2 DEF Fresh
  <2> QED BY <2>1, <2>2
<1> QED BY <1>8, <1>9, <1>10 DEF Copies

LEMMA CopiesInit == Init => Copies
<1> SUFFICES ASSUME Init PROVE Copies
    OBVIOUS
<1>1. TypeOK
    BY TypeInit
<1>2. \A s, p : ~Posted(s, p)
  <2>1. telegram = <<>>
      BY DEF Init
  <2>2. DOMAIN telegram = {}
      BY <2>1
  <2> QED BY <2>2 DEF Posted
<1>3. Owed = {} /\ Len(telegram) = 0
    BY <1>2, EmptySeq DEF Owed, Init
<1>4. Cardinality(Owed) = 0 /\ Cardinality(Tells) \in Nat /\ faults = 0
    BY <1>1, <1>3, TellsIs, FS_EmptySet DEF Init
<1>5. Balance
    BY <1>3, <1>4 DEF Balance
<1>6. Seconds
    BY <1>2 DEF Seconds
<1>7. ASSUME NEW t \in Tasks PROVE Fresh(tasks[t])
    BY DEF Init, Idle, Fresh
<1> QED BY <1>5, <1>6, <1>7 DEF Copies

LEMMA CopiesStep == IInv /\ [Next]_vars => Copies'
<1> SUFFICES ASSUME IInv, [Next]_vars
             PROVE  Copies'
    OBVIOUS
<1> USE DEF directus, channels
<1>0. TypeOK /\ TypeOK' /\ UnderLock /\ Copies /\ faults \in Nat
    BY TypeStep, NumbersAssumption DEF IInv, TypeOK
<1> DEFINE Only(t) == \A u \in Tasks \ {t} : tasks'[u] = tasks[u]
<1>1. ASSUME UNCHANGED <<telegram, tasks>>, Links, faults' \in {faults, faults + 1} PROVE Copies'
  <2>1. faults' >= faults
      BY <1>0, <1>1
  <2> QED BY <1>0, <1>1, <2>1, DullStep
<1>2. ASSUME NEW t \in Tasks, Dull(tasks[t]), Dull(tasks'[t]), Only(t), UNCHANGED telegram, Links,
             faults' \in {faults, faults + 1}
      PROVE  Copies'
  <2>1. faults' >= faults
      BY <1>0, <1>2
  <2> QED BY <1>0, <1>2, <2>1, DullStep
<1>3. UNCHANGED known => Links
    BY DEF Links
<1>4. ASSUME NEW S, Link(S) PROVE Links
    BY <1>0, <1>4 DEF Links, Link, TypeOK
<1>5. \A t \in Tasks : ~Inside(t) => Dull(tasks[t])
    BY DEF Inside, Dull
<1>6. \A t \in Tasks : ~Inside(t)' => Dull(tasks'[t])
    BY DEF Inside, Dull
<1>7. CASE \E a \in Appliers : Announce(a) \/ \E k \in Seqs : Store(a, k)
    BY <1>1, <1>3, <1>7 DEF Announce, Store
<1>8. ASSUME NEW s \in Own, RecordOutbound(s) PROVE Copies'
  <2>1. Links
      BY <1>0, <1>8 DEF RecordOutbound, Links, TypeOK
  <2> QED BY <1>1, <1>8, <2>1 DEF RecordOutbound
<1>9. ASSUME NEW s \in Own, OwnReply(s) PROVE Copies'
    BY <1>1, <1>3, <1>9 DEF OwnReply
<1>10. CASE TakeEcho
    BY <1>1, <1>3, <1>4, <1>10 DEF TakeEcho, Fault
<1>11. CASE TakeConfirmed
    BY <1>1, <1>3, <1>4, <1>11 DEF TakeConfirmed, Fault
<1>12. ASSUME NEW t \in Tasks, ~Inside(t), ~Inside(t)', Only(t),
              UNCHANGED <<telegram, known>>, faults' \in {faults, faults + 1}
       PROVE  Copies'
    BY <1>2, <1>3, <1>5, <1>6, <1>12
<1>13. Run \in Tasks
    BY DEF Tasks
<1>14. CASE TakeNew
  <2> DEFINE S == Head(events).seqs
  <2>1. S \in SUBSET Seqs
    <3>1. Head(events) \in Event
        BY <1>0, <1>14, HeadTailProperties DEF TypeOK, TakeNew
    <3> QED BY <3>1 DEF Event
  <2> HIDE DEF S
  <2> DEFINE k == [Idle EXCEPT !.pc = "ensure", !.batch = S]
  <2>2. k.pc = "ensure" /\ tasks' = [tasks EXCEPT ![Run] = k]
      BY <1>14, <2>1, OutsideFields, Zenon DEF TakeNew, Become, S
  <2> HIDE DEF k
  <2>3. ~Inside(Run)' /\ Only(Run)
      BY <1>0, <1>13, <2>2 DEF TypeOK, Inside
  <2>4. UNCHANGED <<telegram, known, faults>> /\ ~Inside(Run)
      BY <1>14 DEF TakeNew, Free, Inside
  <2> QED BY <1>12, <1>13, <2>3, <2>4
<1>15. CASE TakeLagged
  <2>1. tasks' = [tasks EXCEPT ![Run] = [Idle EXCEPT !.pc = "ensure"]]
      BY <1>15 DEF TakeLagged, Become
  <2>2. ~Inside(Run)' /\ Only(Run)
      BY <1>0, <1>13, <2>1 DEF TypeOK, Inside, Idle
  <2>3. UNCHANGED <<telegram, known>> /\ ~Inside(Run) /\ faults' = faults + 1
      BY <1>15 DEF TakeLagged, Free, Inside, Fault
  <2> QED BY <1>12, <1>13, <2>2, <2>3
<1>16. CASE Flush
  <2> DEFINE S == {s \in Readable : s > bookmark}
  <2>1. S \in SUBSET Seqs
      BY DEF Readable
  <2> HIDE DEF S
  <2> DEFINE k == [Idle EXCEPT !.pc = "lock", !.todo = S]
  <2>2. k.pc = "lock" /\ tasks' = [tasks EXCEPT ![Run] = k]
      BY <1>16, <2>1, OutsideFields, Zenon DEF Flush, Become, S
  <2> HIDE DEF k
  <2>3. ~Inside(Run)' /\ Only(Run)
      BY <1>0, <1>13, <2>2 DEF TypeOK, Inside
  <2>4. UNCHANGED <<telegram, known, faults>> /\ ~Inside(Run)
      BY <1>16 DEF Flush, Free, Inside
  <2> QED BY <1>12, <1>13, <2>3, <2>4
<1>17. ASSUME NEW t \in Tasks, Reconcile(t) PROVE Copies'
  <2>1. tasks' = [tasks EXCEPT ![t] = [Idle EXCEPT !.pc = "ensure"]]
      BY <1>17 DEF Reconcile, Become
  <2>2. ~Inside(t)' /\ Only(t)
      BY <1>0, <2>1 DEF TypeOK, Inside, Idle
  <2>3. UNCHANGED <<telegram, known, faults>> /\ ~Inside(t)
      BY <1>17 DEF Reconcile, Inside
  <2> QED BY <1>12, <2>2, <2>3
<1>18. ASSUME NEW t \in Tasks, tasks[t].pc \notin {"send", "record"}, Proceed(t),
              UNCHANGED <<telegram, known>>, faults' \in {faults, faults + 1}
       PROVE  Copies'
  <2>1. ~Inside(t)' /\ Only(t)
      BY <1>0, <1>18, ProceedLeaves
  <2> QED BY <1>2, <1>3, <1>6, <1>18, <2>1 DEF Dull
<1>19. ASSUME NEW t \in Tasks, EnsureFound(t) \/ NothingNew(t) \/ Erase(t) PROVE Copies'
    BY <1>18, <1>19 DEF EnsureFound, NothingNew, Erase, Fault
<1>20. ASSUME NEW t \in Tasks, EnsureLock(t) PROVE Copies'
  <2>1. tasks' = [tasks EXCEPT ![t] = [tasks[t] EXCEPT !.pc = "create"]] /\ tasks[t] \in Task
      BY <1>0, <1>20 DEF EnsureLock, Become, TypeOK
  <2>2. Dull(tasks'[t]) /\ Only(t)
      BY <1>0, <2>1 DEF TypeOK, Task, Dull
  <2> QED BY <1>2, <1>3, <1>20, <2>2 DEF EnsureLock, Dull
<1>21. ASSUME NEW t \in Tasks, Snapshot(t) PROVE Copies'
  <2>1. PICK first : Become(t, [tasks[t] EXCEPT !.pc = "commit", !.todo = HistoryTail, !.base = first])
      BY <1>21 DEF Snapshot
  <2>2. tasks[t] \in Task
      BY <1>0 DEF TypeOK
  <2>3. tasks'[t].pc = "commit" /\ Only(t)
      BY <1>0, <2>1, <2>2 DEF Become, TypeOK, Task
  <2> QED BY <1>2, <1>3, <1>21, <2>3 DEF Snapshot, Dull
<1>22. ASSUME NEW t \in Tasks, Commit(t) PROVE Copies'
  <2>1. CASE Proceed(t)
      BY <1>18, <1>22, <2>1 DEF Commit
  <2>2. CASE Become(t, [tasks[t] EXCEPT !.pc = "lock"])
    <3>1. tasks[t] \in Task
        BY <1>0 DEF TypeOK
    <3>2. tasks'[t].pc = "lock" /\ Only(t)
        BY <1>0, <2>2, <3>1 DEF Become, TypeOK, Task
    <3> QED BY <1>2, <1>3, <1>22, <3>2 DEF Commit, Dull
  <2> QED BY <1>22, <2>1, <2>2 DEF Commit
<1>23. ASSUME NEW t \in Tasks, Lock(t) PROVE Copies'
  <2>1. tasks' = [tasks EXCEPT ![t] = [tasks[t] EXCEPT !.pc = "each", !.base = bookmark, !.max = bookmark]]
      BY <1>23 DEF Lock, Become
  <2>2. tasks[t] \in Task
      BY <1>0 DEF TypeOK
  <2>3. tasks'[t].pc = "each" /\ Only(t)
      BY <1>0, <2>1, <2>2 DEF TypeOK, Task
  <2> QED BY <1>2, <1>3, <1>23, <2>3 DEF Lock, Dull
<1>24. ASSUME NEW t \in Tasks, Advance(t) PROVE Copies'
  <2>1. tasks[t] \in Task /\ tasks' = [tasks EXCEPT ![t] = [tasks[t] EXCEPT !.pc = "redact"]]
      BY <1>0, <1>24 DEF Advance, Become, TypeOK
  <2>2. tasks'[t].pc = "redact" /\ Only(t)
      BY <1>0, <2>1 DEF TypeOK, Task
  <2> QED BY <1>2, <1>3, <1>24, <2>2 DEF Advance, Dull
<1>25. ASSUME NEW t \in Tasks, Each(t) PROVE Copies'
  <2> DEFINE k == tasks[t]
             s == Least(k.todo)
  <2>1. /\ UNCHANGED <<telegram, known, faults>> /\ k.pc = "each" /\ k.todo # {}
        /\ k \in Task
      BY <1>0, <1>25 DEF Each, TypeOK
  <2>2. CASE Forwarded(t, s)
    <3> DEFINE S == k.todo \ {s}
    <3>1. tasks' = [tasks EXCEPT ![t] = [k EXCEPT !.todo = S]]
        BY <1>25, <2>2 DEF Each, Become
    <3>2. tasks'[t].pc = "each" /\ Only(t)
      <4> HIDE DEF S, s
      <4> QED BY <1>0, <2>1, <3>1 DEF TypeOK, Task
    <3> QED BY <1>2, <1>3, <2>1, <3>2 DEF Dull
  <2>3. CASE ~Forwarded(t, s)
    <3> DEFINE j == [k EXCEPT !.pc = "send", !.part = 1]
    <3>1. tasks' = [tasks EXCEPT ![t] = j]
        BY <1>25, <2>3, Zenon DEF Each, Become
    <3>2. j.pc = "send" /\ j.part = 1 /\ j.todo = k.todo
      <4>1. 1 \in 1..2
          OBVIOUS
      <4> QED BY <2>1, <4>1, SendFields, Zenon
    <3> HIDE DEF j
    <3>3. tasks'[t] = j /\ Only(t)
        BY <1>0, <3>1 DEF TypeOK
    <3>4. First(tasks'[t], "send", s)
        BY <3>2, <3>3 DEF First
    <3>5. known[s] # "linked"
        BY <2>3 DEF Forwarded
    <3> QED BY <1>0, <2>1, <3>3, <3>4, <3>5, BeginStep
  <2> QED BY <2>2, <2>3
<1>26. ASSUME NEW t \in Tasks, Send(t) \/ Record(t) PROVE Copies'
    BY <1>0, <1>26, SendStep, RecordStep
<1>27. ASSUME NEW t \in Tasks, Fail(t) PROVE Copies'
  <2>1. faults' = faults + 1 /\ tasks'[t] = Idle /\ Only(t)
      BY <1>0, <1>27 DEF Fail, Fault, Return, Become, TypeOK
  <2>2. Dull(tasks'[t])
      BY <2>1 DEF Dull, Idle
  <2>3. Links
    <3>1. Recorded(t) => Links
        BY <1>0 DEF Recorded, Links, TypeOK
    <3> QED BY <1>3, <1>27, <3>1 DEF Fail
  <2>4. CASE Dull(tasks[t])
    <3>1. UNCHANGED telegram
        BY <1>27, <2>4 DEF Fail, Dull
    <3> QED BY <1>2, <2>1, <2>2, <2>3, <2>4, <3>1
  <2>5. CASE ~Dull(tasks[t])
    <3>1. \A u \in Tasks : Dull(tasks'[u])
        BY <1>0, <2>1, <2>2, <2>5, CurrentIs
    <3>2. CASE UNCHANGED telegram
        BY <1>0, <2>1, <2>3, <3>1, <3>2, StopStep
    <3>3. CASE Post(t) /\ tasks[t].pc = "send" /\ UNCHANGED known
        BY <1>0, <2>1, <3>1, <3>3, LostStep
    <3> QED BY <1>27, <3>2, <3>3 DEF Fail
  <2> QED BY <2>4, <2>5
<1>28. CASE Crash
  <2>1. \A t \in Tasks : Dull(tasks'[t])
      BY <1>28 DEF Crash, Dull, Idle
  <2> QED BY <1>0, <1>3, <1>28, <2>1, StopStep DEF Crash, Fault
<1>29. CASE UNCHANGED vars
    BY <1>1, <1>3, <1>29 DEF vars
<1> QED BY <1>7, <1>8, <1>9, <1>10, <1>11, <1>14, <1>15, <1>16, <1>17, <1>19, <1>20, <1>21,
           <1>22, <1>23, <1>24, <1>25, <1>26, <1>27, <1>28, <1>29
        DEF Next, Receive, Step

\* The balance is kept ...
LEMMA Balanced == Spec => []IInv
<1>1. Init => IInv
    BY TypeInit, UnderLockInit, CopiesInit DEF IInv
<1>2. IInv /\ [Next]_vars => IInv'
    BY TypeStep, UnderLockStep, CopiesStep DEF IInv
<1> QED BY <1>1, <1>2, PTL DEF Spec

\* ... so that every copy in the topic was paid for by a failure: whatever NewMessages, the
\* flush, the history import and a handler's /sync hold at the same time, nothing is posted
\* twice without one ("idempotent across restarts").
THEOREM CopiesAreAlwaysPaid == Spec => []CopiesArePaid
<1>1. IInv => CopiesArePaid
  <2> SUFFICES ASSUME IInv PROVE CopiesArePaid
      OBVIOUS
  <2> DEFINE a == Cardinality(Owed)
             c == Cardinality(Tells)
             l == Len(telegram)
  <2>1. a \in Nat /\ c \in Nat /\ l \in Nat /\ faults \in Nat /\ l + a <= faults + c
      BY OwedIs, TellsIs DEF IInv, Copies, Balance
  <2>2. l - c <= faults
    <3> HIDE DEF a, c, l
    <3> QED BY <2>1
  <2> QED BY <2>2 DEF CopiesArePaid, Tells
<1> QED BY <1>1, Balanced, PTL


-----------------------------------------------------------------------------
(* The order of the topic *)

Last == telegram[Len(telegram)]

\* The task that posted last goes on behind its post.
Behind(k) == \/ k.pc \in {"each", "send"} /\ Last[1] <= k.max
             \/ k.pc = "send" /\ k.part = 2 /\ Last = <<Least(k.todo), 1>>
             \/ k.pc = "record" /\ Last = <<Least(k.todo), k.part>>

\* Whatever is posted next goes forward.
Onward == telegram # <<>> => Last[1] <= bookmark \/ \E t \in Tasks : Behind(tasks[t])

Paid == \/ Cardinality(Backwards) + 1 <= faults
        \/ Cardinality(Backwards) <= faults /\ Onward

\* Nothing is posted before there is a conversation.
Mapping == /\ ~mapped => telegram = <<>>
           /\ \A t \in Tasks : tasks[t].pc \in {"lock", "each", "send", "record", "redact"} => mapped

Order == TypeOK /\ UnderLock /\ Mapping /\ Paid

LEMMA BackwardsIs ==
    ASSUME TypeOK
    PROVE  /\ Backwards \subseteq 2..Len(telegram)
           /\ IsFiniteSet(Backwards) /\ Cardinality(Backwards) \in Nat
           /\ Len(telegram) \in Nat /\ faults \in Nat /\ bookmark \in Nat
<1>1. Len(telegram) \in Nat /\ faults \in Nat
    BY TellsIs
<1>2. bookmark \in Nat
    BY SeqsAssumption DEF TypeOK
<1>3. Backwards \subseteq 2..Len(telegram)
    BY DEF Backwards
<1>4. IsFiniteSet(2..Len(telegram))
  <2>1. 2 \in Int /\ Len(telegram) \in Int
      BY <1>1
  <2> QED BY <2>1, FS_Interval
<1> QED BY <1>1, <1>2, <1>3, <1>4, FS_Subset, FS_CardinalityType

\* The numbers of a task that forwards.
LEMMA FieldsOf ==
    ASSUME TypeOK, NEW t \in Tasks
    PROVE  /\ tasks[t] \in Task /\ tasks[t].max \in Nat /\ tasks[t].base \in Nat
           /\ tasks[t].part \in 1..2 /\ bookmark \in Nat
           /\ tasks[t].todo # {} => Least(tasks[t].todo) \in Seqs /\ Least(tasks[t].todo) \in Nat
                                    /\ Least(tasks[t].todo) \in tasks[t].todo
<1>1. tasks[t] \in Task
    BY DEF TypeOK
<1>2. tasks[t].todo \in SUBSET Seqs /\ tasks[t].max \in 0..MaxSeq /\ tasks[t].base \in 0..MaxSeq
      /\ tasks[t].part \in 1..2
    BY <1>1 DEF Task
<1>3. Seqs \subseteq Nat /\ 0..MaxSeq \subseteq Nat
    BY SeqsAssumption DEF Seqs
<1> QED BY <1>1, <1>2, <1>3, LeastSeq DEF TypeOK

\* A post is the new last entry.
LEMMA Appends ==
    ASSUME TypeOK, NEW t \in Tasks, tasks[t].todo # {}, Post(t)
    PROVE  /\ Len(telegram') = Len(telegram) + 1
           /\ \A n \in 1..Len(telegram) : telegram'[n] = telegram[n]
           /\ Last' = <<Least(tasks[t].todo), tasks[t].part>>
<1> DEFINE e == <<Least(tasks[t].todo), tasks[t].part>>
           P == Seqs \X (1..2)
<1>1. e \in P
    BY FieldsOf
<1>2. telegram \in Seq(P) /\ telegram' = Append(telegram, e)
    BY DEF TypeOK, Post
<1> HIDE DEF e, P
<1>3. /\ Len(telegram') = Len(telegram) + 1
      /\ \A n \in 1..Len(telegram) : telegram'[n] = telegram[n]
      /\ telegram'[Len(telegram) + 1] = e
    BY <1>1, <1>2
<1> QED BY <1>3 DEF Last, e

\* A post goes backwards only after a failure, and no other post has done so since.
LEMMA PostPaid ==
    ASSUME TypeOK, UnderLock, Paid, NEW t \in Tasks, tasks[t].pc = "send", Post(t)
    PROVE  Cardinality(Backwards') <= faults
<1> DEFINE s == Least(tasks[t].todo)
           p == tasks[t].part
           l == Len(telegram)
<1>1. Relies(t, tasks[t])
    BY DEF UnderLock, Inside
<1>2. /\ tasks[t].todo # {} /\ tasks[t].base = bookmark /\ tasks[t].base <= tasks[t].max
      /\ \A r \in tasks[t].todo : tasks[t].max < r
      /\ \A u \in Tasks : u # t => Dull(tasks[u]) /\ tasks[u].pc # "each"
  <2>1. lock = t
      BY <1>1 DEF Relies
  <2>2. \A u \in Tasks : u # t => ~Inside(u)
      BY <2>1 DEF UnderLock, Relies
  <2> QED BY <1>1, <2>2 DEF Relies, Inside, Dull
<1>3. /\ s \in Nat /\ p \in 1..2 /\ tasks[t].max \in Nat /\ bookmark \in Nat
      /\ tasks[t].max < s /\ bookmark < s
    BY <1>2, FieldsOf
<1>4. /\ Len(telegram') = l + 1 /\ \A n \in 1..l : telegram'[n] = telegram[n]
      /\ telegram'[l + 1] = <<s, p>>
    BY <1>2, Appends DEF Last
<1>5. l \in Nat /\ faults \in Nat /\ Cardinality(Backwards) \in Nat /\ IsFiniteSet(Backwards)
    BY BackwardsIs
<1>6. ASSUME NEW n \in Backwards' PROVE n \in Backwards \/ n = l + 1
  <2>1. n \in 2..(l + 1) /\ ~Before(telegram'[n - 1], telegram'[n])
      BY <1>4 DEF Backwards, Before
  <2>2. CASE n \in 2..l
    <3>1. n - 1 \in 1..l /\ n \in 1..l
        BY <1>5, <2>2
    <3>2. telegram'[n - 1] = telegram[n - 1] /\ telegram'[n] = telegram[n]
        BY <1>4, <3>1
    <3> QED BY <2>1, <2>2, <3>2 DEF Backwards
  <2> QED BY <1>5, <2>1, <2>2
<1>7. CASE Cardinality(Backwards) + 1 <= faults
  <2>1. IsFiniteSet(Backwards \cup {l + 1}) /\ Cardinality(Backwards \cup {l + 1}) <= Cardinality(Backwards) + 1
    <3>1. /\ IsFiniteSet(Backwards \cup {l + 1})
          /\ Cardinality(Backwards \cup {l + 1}) = Cardinality(Backwards)
             \/ Cardinality(Backwards \cup {l + 1}) = Cardinality(Backwards) + 1
        BY <1>5, FS_AddElement
    <3> QED BY <1>5, <3>1
  <2>2. Backwards' \subseteq Backwards \cup {l + 1}
      BY <1>6
  <2>3. /\ Cardinality(Backwards') <= Cardinality(Backwards \cup {l + 1})
        /\ Cardinality(Backwards') \in Nat /\ Cardinality(Backwards \cup {l + 1}) \in Nat
      BY <2>1, <2>2, FS_Subset, FS_CardinalityType
  <2> QED BY <1>5, <1>7, <2>1, <2>3
<1>8. CASE Cardinality(Backwards) <= faults /\ Onward
  <2>1. l + 1 \notin Backwards'
    <3>1. SUFFICES ASSUME l + 1 \in Backwards' PROVE FALSE
        OBVIOUS
    <3>2. l + 1 \in 2..(l + 1) /\ ~Before(telegram'[l], <<s, p>>)
      <4>1. l + 1 \in 2..(l + 1) /\ ~Before(telegram'[l + 1 - 1], telegram'[l + 1])
          BY <1>4, <3>1 DEF Backwards, Before
      <4>2. l + 1 - 1 = l
          BY <1>5
      <4> QED BY <1>4, <4>1, <4>2
    <3>3. l \in 1..l /\ telegram # <<>>
      <4>1. l # 0
          BY <1>5, <3>2
      <4> QED BY <1>5, <4>1, EmptySeq
    <3>4. telegram'[l] = Last
        BY <1>4, <3>3 DEF Last
    <3>5. Last \in Seqs \X (1..2)
      <4> DEFINE P == Seqs \X (1..2)
      <4>1. telegram \in Seq(P)
          BY DEF TypeOK
      <4>2. l \in DOMAIN telegram
          BY <3>3, <4>1
      <4> HIDE DEF P
      <4>3. Last \in P
          BY <4>1, <4>2, ElementOfSeq DEF Last
      <4> QED BY <4>3 DEF P
    <3>6. Last[1] \in Nat
      <4>1. Seqs \subseteq Nat
          BY SeqsAssumption DEF Seqs
      <4> QED BY <3>5, <4>1
    <3>7. CASE Last[1] <= bookmark \/ Last[1] <= tasks[t].max
      <4>1. Last[1] < s
          BY <1>3, <3>6, <3>7
      <4> QED BY <3>2, <3>4, <4>1 DEF Before
    <3>8. CASE p = 2 /\ Last = <<s, 1>>
      <4>1. Before(Last, <<s, p>>)
          BY <3>8 DEF Before
      <4> QED BY <3>2, <3>4, <4>1
    <3>9. Last[1] <= bookmark \/ Behind(tasks[t])
        BY <1>2, <1>8, <3>3 DEF Onward, Behind, Dull
    <3> QED BY <3>7, <3>8, <3>9 DEF Behind
  <2>2. Backwards' \subseteq Backwards
      BY <1>6, <2>1
  <2>3. Cardinality(Backwards') <= Cardinality(Backwards) /\ Cardinality(Backwards') \in Nat
      BY <1>5, <2>2, FS_Subset, FS_CardinalityType
  <2> QED BY <1>5, <1>8, <2>3
<1> QED BY <1>7, <1>8 DEF Paid

-----------------------------------------------------------------------------

\* Every failure pays for one more.
LEMMA FailurePays ==
    ASSUME TypeOK, faults' = faults + 1, Cardinality(Backwards') \in Nat, Cardinality(Backwards') <= faults
    PROVE  Paid'
<1>1. faults \in Nat
    BY BackwardsIs
<1> QED BY <1>1 DEF Paid

LEMMA Afterwards ==
    ASSUME TypeOK, Paid
    PROVE  Cardinality(Backwards) <= faults
  BY BackwardsIs DEF Paid

\* A step that posts nothing.
LEMMA QuietStep ==
    ASSUME TypeOK, Paid, UNCHANGED telegram,
           \/ faults' = faults + 1
           \/ faults' = faults /\ (Onward => Onward')
    PROVE  Paid'
<1>1. Backwards' = Backwards
    BY DEF Backwards, Before
<1>2. Cardinality(Backwards) \in Nat /\ Cardinality(Backwards) <= faults
    BY BackwardsIs, Afterwards
<1>3. CASE faults' = faults + 1
    BY <1>1, <1>2, <1>3, FailurePays
<1>4. CASE faults' = faults /\ (Onward => Onward')
    BY <1>1, <1>4 DEF Paid
<1> QED BY <1>3, <1>4

\* ... of a task that is at no message, or none that moves.
LEMMA AsideStep ==
    ASSUME TypeOK, Paid, UNCHANGED <<telegram, bookmark>>, faults' \in {faults, faults + 1},
           \A t \in Tasks : \/ tasks'[t] = tasks[t]
                            \/ tasks[t].pc \notin {"each", "send", "record"}
    PROVE  Paid'
<1>1. Last' = Last
    BY DEF Last
<1>2. \A t \in Tasks : Behind(tasks[t]) => Behind(tasks[t])'
    BY <1>1 DEF Behind
<1>3. Onward => Onward'
    BY <1>1, <1>2 DEF Onward
<1> QED BY <1>3, QuietStep

LEMMA SendPaid ==
    ASSUME TypeOK, TypeOK', UnderLock, Paid, NEW t \in Tasks, Send(t)
    PROVE  Paid'
<1>1. tasks[t].pc = "send" /\ Post(t) /\ faults' = faults /\ Become(t, [tasks[t] EXCEPT !.pc = "record"])
    BY DEF Send
<1>2. tasks[t].todo # {}
    BY <1>1 DEF UnderLock, Inside, Relies
<1>3. tasks'[t].pc = "record" /\ tasks'[t].todo = tasks[t].todo /\ tasks'[t].part = tasks[t].part
  <2>1. tasks[t] \in Task /\ tasks' = [tasks EXCEPT ![t] = [tasks[t] EXCEPT !.pc = "record"]]
      BY <1>1 DEF TypeOK, Become
  <2> QED BY <2>1 DEF TypeOK, Task
<1>4. Last' = <<Least(tasks[t].todo), tasks[t].part>>
    BY <1>1, <1>2, Appends
<1>5. Behind(tasks[t])'
    BY <1>3, <1>4 DEF Behind
<1> QED BY <1>1, <1>5, PostPaid DEF Paid, Onward

LEMMA RecordPaid ==
    ASSUME TypeOK, UnderLock, Paid, NEW t \in Tasks, Record(t)
    PROVE  Paid'
<1> DEFINE k == tasks[t]
           s == Least(k.todo)
<1>1. k.pc = "record" /\ UNCHANGED <<telegram, bookmark, faults>> /\ k \in Task
    BY FieldsOf DEF Record
<1>2. k.todo # {} /\ s \in Seqs /\ s \in Nat /\ k.part \in 1..2
  <2>1. k.todo # {}
      BY <1>1 DEF UnderLock, Inside, Relies
  <2> QED BY <2>1, FieldsOf
<1>3. Last' = Last
    BY <1>1 DEF Last
<1>4. \/ tasks'[t].pc = "each" /\ tasks'[t].max = s
      \/ k.part = 1 /\ tasks'[t].pc = "send" /\ tasks'[t].part = 2 /\ tasks'[t].todo = k.todo
  <2>1. CASE k.part + 1 \in Parts(s)
    <3> DEFINE j == [k EXCEPT !.pc = "send", !.part = 2]
    <3>1. tasks' = [tasks EXCEPT ![t] = j]
        BY <2>1, Zenon DEF Record, Become
    <3>2. j.pc = "send" /\ j.part = 2 /\ j.todo = k.todo
      <4>1. 2 \in 1..2
          OBVIOUS
      <4> QED BY <1>1, <4>1, SendFields, Zenon
    <3> HIDE DEF j
    <3>3. tasks'[t] = j
        BY <3>1 DEF TypeOK
    <3>4. k.part = 1
      <4>1. Parts(s) \subseteq 1..2
          BY DEF Parts
      <4> HIDE DEF k, s
      <4> QED BY <1>2, <2>1, <4>1
    <3> QED BY <3>2, <3>3, <3>4
  <2>2. CASE k.part + 1 \notin Parts(s)
    <3> DEFINE S == k.todo \ {s}
    <3>1. tasks' = [tasks EXCEPT ![t] = [k EXCEPT !.pc = "each", !.todo = S, !.max = s]]
        BY <2>2 DEF Record, Become
    <3>2. tasks'[t].pc = "each" /\ tasks'[t].max = s
      <4> HIDE DEF S, s
      <4> QED BY <1>1, <3>1 DEF TypeOK, Task
    <3> QED BY <3>2
  <2> QED BY <2>1, <2>2
<1>5. \A u \in Tasks : Behind(tasks[u]) => Behind(tasks[u])'
  <2> SUFFICES ASSUME NEW u \in Tasks, Behind(tasks[u]) PROVE Behind(tasks[u])'
      OBVIOUS
  <2>1. CASE u = t
    <3>1. Last = <<s, k.part>>
        BY <1>1, <2>1 DEF Behind
    <3>2. s <= s
        BY <1>2
    <3>3. Last'[1] = s
        BY <1>3, <3>1
    <3>4. CASE tasks'[t].pc = "each" /\ tasks'[t].max = s
      <4> HIDE DEF k, s
      <4> QED BY <2>1, <3>2, <3>3, <3>4 DEF Behind
    <3>5. CASE k.part = 1 /\ tasks'[t].pc = "send" /\ tasks'[t].part = 2 /\ tasks'[t].todo = k.todo
        BY <1>3, <2>1, <3>1, <3>5 DEF Behind
    <3> QED BY <1>4, <3>4, <3>5
  <2>2. CASE u # t
    <3>1. tasks'[u] = tasks[u]
        BY <2>2 DEF Record, Become, TypeOK
    <3> QED BY <1>3, <3>1 DEF Behind
  <2> QED BY <2>1, <2>2
<1>6. Onward => Onward'
    BY <1>1, <1>3, <1>5 DEF Onward
<1> QED BY <1>1, <1>6, QuietStep

LEMMA EachPaid ==
    ASSUME TypeOK, Paid, NEW t \in Tasks, Each(t)
    PROVE  Paid'
<1> DEFINE k == tasks[t]
           s == Least(k.todo)
<1>1. k.pc = "each" /\ UNCHANGED <<telegram, bookmark, faults>> /\ k \in Task
    BY FieldsOf DEF Each, directus
<1>2. Last' = Last
    BY <1>1 DEF Last
<1>3. tasks'[t].pc \in {"each", "send"} /\ tasks'[t].max = k.max
  <2>1. CASE Forwarded(t, s)
    <3> DEFINE S == k.todo \ {s}
    <3>1. tasks' = [tasks EXCEPT ![t] = [k EXCEPT !.todo = S]]
        BY <2>1 DEF Each, Become
    <3> HIDE DEF S, s
    <3> QED BY <1>1, <3>1 DEF TypeOK, Task
  <2>2. CASE ~Forwarded(t, s)
    <3> DEFINE j == [k EXCEPT !.pc = "send", !.part = 1]
    <3>1. tasks' = [tasks EXCEPT ![t] = j]
        BY <2>2, Zenon DEF Each, Become
    <3>2. j.pc = "send" /\ j.max = k.max
      <4>1. 1 \in 1..2
          OBVIOUS
      <4> QED BY <1>1, <4>1, SendFields, Zenon
    <3> HIDE DEF j
    <3>3. tasks'[t] = j
        BY <3>1 DEF TypeOK
    <3> QED BY <3>2, <3>3
  <2> QED BY <2>1, <2>2
<1>4. \A u \in Tasks : Behind(tasks[u]) => Behind(tasks[u])'
  <2> SUFFICES ASSUME NEW u \in Tasks, Behind(tasks[u]) PROVE Behind(tasks[u])'
      OBVIOUS
  <2>1. CASE u = t
      BY <1>1, <1>2, <1>3, <2>1 DEF Behind
  <2>2. CASE u # t
    <3>1. tasks'[u] = tasks[u]
        BY <2>2 DEF Each, Become, TypeOK
    <3> QED BY <1>2, <3>1 DEF Behind
  <2> QED BY <2>1, <2>2
<1>5. Onward => Onward'
    BY <1>1, <1>2, <1>4 DEF Onward
<1> QED BY <1>1, <1>5, QuietStep

\* What the task is behind is then behind the bookmark.
LEMMA DonePaid ==
    ASSUME TypeOK, UnderLock, Paid, NEW t \in Tasks, NothingNew(t) \/ Advance(t)
    PROVE  Paid'
<1>1. UNCHANGED <<telegram, faults>> /\ tasks[t].pc = "each" /\ bookmark' = tasks[t].max
  <2>1. tasks[t].pc = "each"
      BY DEF NothingNew, Advance
  <2>2. tasks[t].base = bookmark
      BY <2>1 DEF UnderLock, Inside, Relies
  <2> QED BY <2>1, <2>2 DEF NothingNew, Advance, directus
<1>2. Last' = Last
    BY <1>1 DEF Last
<1>3. Relies(t, tasks[t])
    BY <1>1 DEF UnderLock, Inside
<1>4. \A u \in Tasks : Behind(tasks[u]) => u = t
    BY <1>3 DEF Behind, UnderLock, Inside, Relies
<1>5. bookmark \in Nat /\ tasks[t].max \in Nat /\ bookmark <= tasks[t].max
    BY <1>1, <1>3, FieldsOf DEF Relies
<1>6. ASSUME telegram # <<>>, Onward PROVE Last[1] <= tasks[t].max
  <2>1. Last[1] \in Nat
    <3> DEFINE P == Seqs \X (1..2)
    <3>1. telegram \in Seq(P)
        BY DEF TypeOK
    <3>2. Len(telegram) \in DOMAIN telegram
        BY <1>6, <3>1, BackwardsIs, EmptySeq
    <3>3. Last \in P
      <4> HIDE DEF P
      <4> QED BY <3>1, <3>2, ElementOfSeq DEF Last
    <3>4. Seqs \subseteq Nat
        BY SeqsAssumption DEF Seqs
    <3> QED BY <3>3, <3>4
  <2>2. Last[1] <= bookmark \/ Behind(tasks[t])
      BY <1>4, <1>6 DEF Onward
  <2> QED BY <1>1, <1>5, <2>1, <2>2 DEF Behind
<1>7. Onward => Onward'
    BY <1>1, <1>2, <1>6 DEF Onward
<1> QED BY <1>1, <1>7, QuietStep

-----------------------------------------------------------------------------

LEMMA OrderInit == Init => Order
<1> SUFFICES ASSUME Init PROVE Order
    OBVIOUS
<1>1. TypeOK /\ UnderLock
    BY TypeInit, UnderLockInit
<1>2. telegram = <<>> /\ faults = 0
    BY DEF Init
<1>3. Backwards = {}
  <2>1. Len(telegram) = 0
      BY <1>2, EmptySeq
  <2> QED BY <2>1, <1>1, BackwardsIs
<1>4. Cardinality(Backwards) = 0
    BY <1>3, FS_EmptySet
<1>5. Paid
    BY <1>2, <1>4 DEF Paid, Onward
<1>6. Mapping
    BY <1>2 DEF Mapping, Init, Idle
<1> QED BY <1>1, <1>5, <1>6 DEF Order

LEMMA MappingStep == TypeOK /\ Mapping /\ [Next]_vars => Mapping'
<1> SUFFICES ASSUME TypeOK, Mapping, [Next]_vars
             PROVE  Mapping'
    OBVIOUS
<1> USE DEF directus, channels
<1> DEFINE Only(t) == \A u \in Tasks \ {t} : tasks'[u] = tasks[u]
           Late == {"lock", "each", "send", "record", "redact"}
           Kept == telegram' = telegram /\ \A t \in Tasks : tasks'[t].pc \notin Late
<1>1. CASE mapped
  <2>1. ASSUME NEW t \in Tasks, Step(t) \/ Fail(t) PROVE mapped'
      BY <1>1, <2>1 DEF Step, Fail, EnsureFound, EnsureLock, Snapshot, Commit, Lock, Each, Send, Record,
                        NothingNew, Advance, Erase
  <2>2. mapped'
      BY <1>1, <2>1 DEF Next, vars, Receive, Announce, Store, RecordOutbound, OwnReply, TakeNew, TakeEcho,
                        TakeConfirmed, TakeLagged, Flush, Reconcile, Crash
  <2> QED BY <2>2 DEF Mapping
<1>2. CASE ~mapped
  <2>1. telegram = <<>> /\ \A t \in Tasks : tasks[t].pc \notin Late
      BY <1>2 DEF Mapping
  <2>2. Kept => Mapping'
      BY <2>1 DEF Mapping
  <2> HIDE DEF Late
  <2>3. ASSUME NEW t \in Tasks, tasks'[t].pc \notin Late, Only(t), UNCHANGED telegram PROVE Kept
      BY <2>1, <2>3
  <2>4. UNCHANGED <<telegram, tasks>> => Kept
      BY <2>1
  <2>5. Run \in Tasks
      BY DEF Tasks
  <2>6. CASE \/ \E a \in Appliers : Announce(a) \/ \E k \in Seqs : Store(a, k)
             \/ \E s \in Own : RecordOutbound(s) \/ OwnReply(s)
             \/ TakeEcho \/ TakeConfirmed \/ UNCHANGED vars
      BY <2>2, <2>4, <2>6 DEF Announce, Store, RecordOutbound, OwnReply, TakeEcho, TakeConfirmed, vars
  <2>7. CASE TakeNew
    <3> DEFINE S == Head(events).seqs
               k == [Idle EXCEPT !.pc = "ensure", !.batch = S]
    <3>1. S \in SUBSET Seqs
      <4>1. Head(events) \in Event
          BY <2>7, HeadTailProperties DEF TypeOK, TakeNew
      <4> QED BY <4>1 DEF Event
    <3>2. k.pc = "ensure" /\ tasks' = [tasks EXCEPT ![Run] = k]
      <4>1. tasks' = [tasks EXCEPT ![Run] = k]
          BY <2>7, Zenon DEF TakeNew, Become
      <4> HIDE DEF S
      <4> QED BY <3>1, <4>1, OutsideFields, Zenon
    <3> HIDE DEF k, S
    <3>3. tasks'[Run].pc \notin Late /\ Only(Run)
        BY <2>5, <3>2 DEF TypeOK, Late
    <3> QED BY <2>2, <2>3, <2>5, <2>7, <3>3 DEF TakeNew
  <2>8. CASE TakeLagged
    <3>1. tasks' = [tasks EXCEPT ![Run] = [Idle EXCEPT !.pc = "ensure"]] /\ UNCHANGED telegram
        BY <2>8 DEF TakeLagged, Become
    <3>2. tasks'[Run].pc \notin Late /\ Only(Run)
        BY <2>5, <3>1 DEF TypeOK, Idle, Late
    <3> QED BY <2>2, <2>3, <2>5, <3>1, <3>2
  <2>9. CASE Flush
      BY <1>2, <2>9 DEF Flush
  <2>10. ASSUME NEW t \in Tasks, Reconcile(t) PROVE Mapping'
    <3>1. tasks' = [tasks EXCEPT ![t] = [Idle EXCEPT !.pc = "ensure"]] /\ UNCHANGED telegram
        BY <2>10 DEF Reconcile, Become
    <3>2. tasks'[t].pc \notin Late /\ Only(t)
        BY <3>1 DEF TypeOK, Idle, Late
    <3> QED BY <2>2, <2>3, <3>1, <3>2
  <2>11. ASSUME NEW t \in Tasks, Step(t) PROVE Mapping'
    <3>1. tasks[t] \in Task /\ tasks[t].pc \notin {"lock", "each", "send", "record", "redact"}
        BY <2>1 DEF TypeOK, Late
    <3>2. CASE EnsureLock(t)
      <4>1. tasks' = [tasks EXCEPT ![t] = [tasks[t] EXCEPT !.pc = "create"]] /\ UNCHANGED telegram
          BY <3>2 DEF EnsureLock, Become
      <4>2. tasks'[t].pc \notin Late /\ Only(t)
          BY <3>1, <4>1 DEF TypeOK, Task, Late
      <4> QED BY <2>2, <2>3, <4>1, <4>2
    <3>3. CASE Snapshot(t)
      <4>1. PICK first : Become(t, [tasks[t] EXCEPT !.pc = "commit", !.todo = HistoryTail, !.base = first])
          BY <3>3 DEF Snapshot
      <4>2. tasks'[t].pc \notin Late /\ Only(t)
          BY <3>1, <4>1 DEF Become, TypeOK, Task, Late
      <4> QED BY <2>2, <2>3, <3>3, <4>2 DEF Snapshot
    <3>4. CASE Commit(t)
        BY <3>4 DEF Commit, Mapping
    <3> QED BY <1>2, <2>11, <3>1, <3>2, <3>3, <3>4
            DEF Step, EnsureFound, Lock, Each, Send, Record, NothingNew, Advance, Erase
  <2>12. ASSUME NEW t \in Tasks, Fail(t) PROVE Mapping'
    <3>1. tasks'[t] = Idle /\ Only(t)
        BY <2>12 DEF Fail, Return, Become, TypeOK
    <3>2. tasks[t].pc \notin {"send"}
        BY <2>1 DEF Late
    <3>3. tasks'[t].pc \notin Late /\ UNCHANGED telegram
        BY <2>12, <3>1, <3>2 DEF Fail, Idle, Late
    <3> QED BY <2>2, <2>3, <3>1, <3>3
  <2>13. CASE Crash
      BY <2>2, <2>13 DEF Crash, Idle, Late
  <2> QED BY <2>6, <2>7, <2>8, <2>9, <2>10, <2>11, <2>12, <2>13 DEF Next, Receive
<1> QED BY <1>1, <1>2

LEMMA PaidStep == Order /\ [Next]_vars => Paid'
<1> SUFFICES ASSUME Order, [Next]_vars
             PROVE  Paid'
    OBVIOUS
<1> USE DEF directus, channels
<1>0. TypeOK /\ TypeOK' /\ UnderLock /\ Mapping /\ Paid
    BY TypeStep DEF Order
<1> DEFINE Only(t) == \A u \in Tasks : u # t => tasks'[u] = tasks[u]
<1>1. Run \in Tasks
    BY DEF Tasks
<1>2. ASSUME NEW t \in Tasks, \A u \in Tasks : u # t => tasks'[u] = tasks[u],
             tasks[t].pc \notin {"each", "send", "record"},
             UNCHANGED <<telegram, bookmark>>, faults' \in {faults, faults + 1}
      PROVE  Paid'
    BY <1>0, <1>2, AsideStep
<1>3. ASSUME NEW t \in Tasks, NEW k, Become(t, k) PROVE Only(t)
    BY <1>0, <1>3 DEF Become, TypeOK
<1>4. ASSUME NEW t \in Tasks, Proceed(t) PROVE Only(t)
    BY <1>3, <1>4 DEF Proceed
<1>5. CASE \/ \E a \in Appliers : Announce(a) \/ \E k \in Seqs : Store(a, k)
           \/ \E s \in Own : RecordOutbound(s) \/ OwnReply(s)
           \/ TakeEcho \/ TakeConfirmed \/ UNCHANGED vars
    BY <1>0, <1>5, AsideStep
       DEF Announce, Store, RecordOutbound, OwnReply, TakeEcho, TakeConfirmed, Fault, vars
<1>6. CASE TakeNew
    BY <1>1, <1>2, <1>3, <1>6 DEF TakeNew, Free
<1>7. CASE TakeLagged
    BY <1>1, <1>2, <1>3, <1>7 DEF TakeLagged, Free, Fault
<1>8. CASE Flush
    BY <1>1, <1>2, <1>3, <1>8 DEF Flush, Free
<1>9. ASSUME NEW t \in Tasks, Reconcile(t) PROVE Paid'
    BY <1>2, <1>3, <1>9 DEF Reconcile
<1>10. ASSUME NEW t \in Tasks, EnsureFound(t) PROVE Paid'
    BY <1>2, <1>4, <1>10 DEF EnsureFound
<1>11. ASSUME NEW t \in Tasks, EnsureLock(t) PROVE Paid'
    BY <1>2, <1>3, <1>11 DEF EnsureLock
<1>12. ASSUME NEW t \in Tasks, Snapshot(t) PROVE Paid'
    BY <1>2, <1>3, <1>12 DEF Snapshot
<1>13. ASSUME NEW t \in Tasks, Commit(t) PROVE Paid'
  <2>1. ~mapped
      BY <1>0, <1>13 DEF Commit, UnderLock, Inside, Relies
  <2>2. telegram = <<>> /\ UNCHANGED <<telegram, faults>>
      BY <1>0, <1>13, <2>1 DEF Mapping, Commit
  <2> QED BY <1>0, <2>2, QuietStep DEF Onward
<1>14. ASSUME NEW t \in Tasks, Lock(t) PROVE Paid'
    BY <1>2, <1>3, <1>14 DEF Lock
<1>15. ASSUME NEW t \in Tasks, Erase(t) PROVE Paid'
    BY <1>2, <1>4, <1>15 DEF Erase, Fault
<1>16. ASSUME NEW t \in Tasks, Each(t) \/ Send(t) \/ Record(t) \/ NothingNew(t) \/ Advance(t) PROVE Paid'
    BY <1>0, <1>16, EachPaid, SendPaid, RecordPaid, DonePaid
<1>17. ASSUME NEW t \in Tasks, Fail(t) PROVE Paid'
  <2>1. faults' = faults + 1
      BY <1>17 DEF Fail, Fault
  <2>2. CASE UNCHANGED telegram
      BY <1>0, <2>1, <2>2, QuietStep
  <2>3. CASE tasks[t].pc = "send" /\ Post(t)
    <3>1. Cardinality(Backwards') <= faults
        BY <1>0, <2>3, PostPaid
    <3>2. Cardinality(Backwards') \in Nat
      <4>1. (TypeOK => Cardinality(Backwards) \in Nat)'
          BY BackwardsIs, PTL
      <4> QED BY <1>0, <4>1
    <3> QED BY <1>0, <2>1, <3>1, <3>2, FailurePays
  <2> QED BY <1>17, <2>2, <2>3 DEF Fail
<1>18. CASE Crash
    BY <1>0, <1>18, QuietStep DEF Crash, Fault
<1> QED BY <1>5, <1>6, <1>7, <1>8, <1>9, <1>10, <1>11, <1>12, <1>13, <1>14, <1>15, <1>16, <1>17, <1>18
        DEF Next, Receive, Step

\* The topic goes back at most once per failure, whatever the run loop, the flush, the history
\* import and any number of handlers bring, in whatever order their batches are announced, with
\* messages of our own, long ones and ones that came before the conversation.
THEOREM DisorderIsAlwaysPaid == Spec => []DisorderIsPaid
<1>1. Init => Order
    BY OrderInit
<1>2. Order /\ [Next]_vars => Order'
  <2>1. Order /\ [Next]_vars => TypeOK' /\ UnderLock'
      BY TypeStep, UnderLockStep DEF Order
  <2>2. Order /\ [Next]_vars => Mapping' /\ Paid'
      BY MappingStep, PaidStep DEF Order
  <2> QED BY <2>1, <2>2 DEF Order
<1>3. Order => DisorderIsPaid
    BY Afterwards DEF Order, DisorderIsPaid
<1> QED BY <1>1, <1>2, <1>3, PTL DEF Spec
=============================================================================
