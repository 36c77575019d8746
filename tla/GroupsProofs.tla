---------------------------- MODULE GroupsProofs ----------------------------
(***************************************************************************)
(* Theorems about Groups, for any number of names, changes by others, lost *)
(* connections, crashes, deleted topics, failed calls, commands and        *)
(* topics.                                                                 *)
(***************************************************************************)
EXTENDS Groups, SequenceTheorems, FiniteSetTheorems, TLAPS

-----------------------------------------------------------------------------
(* Tasks and their locals *)

Thens == {"idle", "reopen", "send", "forward", "unlock", "closeTopic"}

\* What a step may do with one field of a task's locals.
LEMMA PcTask ==
    ASSUME NEW k \in Task, NEW p \in Steps
    PROVE  LET m == [k EXCEPT !.pc = p]
           IN  /\ m \in Task
               /\ m.pc = p /\ m.then = k.then /\ m.conv = k.conv /\ m.made = k.made
               /\ m.seen = k.seen
  BY DEF Task

LEMMA ThenTask ==
    ASSUME NEW k \in Task, NEW n \in Thens
    PROVE  LET m == [k EXCEPT !.then = n]
           IN  /\ m \in Task
               /\ m.pc = k.pc /\ m.then = n /\ m.conv = k.conv /\ m.made = k.made
               /\ m.seen = k.seen
  BY DEF Task, Thens

LEMMA ConvTask ==
    ASSUME NEW k \in Task, NEW c \in Conv
    PROVE  LET m == [k EXCEPT !.conv = c]
           IN  /\ m \in Task
               /\ m.pc = k.pc /\ m.then = k.then /\ m.conv = c /\ m.made = k.made
               /\ m.seen = k.seen
  BY DEF Task

LEMMA SeenTask ==
    ASSUME NEW k \in Task, NEW g \in Group
    PROVE  LET m == [k EXCEPT !.seen = g]
           IN  /\ m \in Task
               /\ m.pc = k.pc /\ m.then = k.then /\ m.conv = k.conv /\ m.made = k.made
               /\ m.seen = g
  BY DEF Task

LEMMA MadeTask ==
    ASSUME NEW k \in Task, NEW j \in Topics \cup {0}
    PROVE  LET m == [k EXCEPT !.made = j]
           IN  /\ m \in Task
               /\ m.pc = k.pc /\ m.then = k.then /\ m.conv = k.conv /\ m.made = j
               /\ m.seen = k.seen
  BY DEF Task

LEMMA RestTask ==
    Rest \in Task /\ Rest.pc = "idle" /\ Rest.then = "idle" /\ Rest.conv = NoConv /\ Rest.made = 0
<1>1. NoConv \in Conv /\ NoList.group \in Group
    BY BoundsAssumption DEF NoConv, NoList, Conv, Group, Topics
<1>2. "idle" \in Steps
    BY DEF Steps
<1> QED BY <1>1, <1>2 DEF Rest, Task

\* The locals of a task that starts on the topic.
LEMMA StartTask ==
    ASSUME conv \in Conv, row \in Row, NEW p \in Steps, NEW n \in Thens
    PROVE  /\ Start(p, n) \in Task
           /\ Start(p, n).pc = p /\ Start(p, n).then = n
           /\ p \notin {"reconcile", "ensure"} => Start(p, n).conv = conv
           /\ p \in {"edit", "ensure"} => Start(p, n).seen.name = row.name
<1> DEFINE x == IF p \in {"reconcile", "ensure"} THEN NoConv ELSE conv
           y == IF p \in {"edit", "ensure"} THEN row.name ELSE 0
           a == [Rest EXCEPT !.pc = p]
           b == [a EXCEPT !.then = n]
           c == [b EXCEPT !.conv = x]
           g == [c.seen EXCEPT !.name = y]
<1>1. Start(p, n) = [c EXCEPT !.seen = g]
    BY DEF Start
<1>2. x \in Conv /\ (p \notin {"reconcile", "ensure"} => x = conv)
  <2>1. NoConv \in Conv
      BY BoundsAssumption DEF NoConv, Conv
  <2> QED BY <2>1
<1>3. y \in Names /\ (p \in {"edit", "ensure"} => y = row.name)
    BY BoundsAssumption DEF Row
<1> HIDE DEF x, y
<1>4. a \in Task /\ a.pc = p
    BY RestTask, PcTask
<1> HIDE DEF a
<1>5. b \in Task /\ b.pc = p /\ b.then = n
    BY <1>4, ThenTask
<1> HIDE DEF b
<1>6. c \in Task /\ c.pc = p /\ c.then = n /\ c.conv = x
    BY <1>2, <1>5, ConvTask
<1> HIDE DEF c
<1>7. g \in Group /\ g.name = y
    BY <1>3, <1>6 DEF Task, Group
<1> HIDE DEF g
<1> QED BY <1>1, <1>2, <1>3, <1>6, <1>7, SeenTask

\* The locals after Proceed.
Due(k) == IF k.then = "idle" THEN Rest ELSE [Rest EXCEPT !.pc = k.then, !.conv = k.conv]

LEMMA ProceedTask ==
    ASSUME NEW k \in Task, k.then # "unlock"
    PROVE  /\ Due(k) \in Task
           /\ Due(k).pc = k.then /\ Due(k).then = "idle"
           /\ k.then # "idle" => Due(k).conv = k.conv
<1>1. CASE k.then = "idle"
    BY <1>1, RestTask DEF Due
<1>2. CASE k.then # "idle"
  <2> DEFINE a == [Rest EXCEPT !.pc = k.then]
             b == [a EXCEPT !.conv = k.conv]
  <2>1. k.then \in Steps /\ k.conv \in Conv
      BY DEF Task, Steps
  <2>2. Due(k) = b
      BY <1>2 DEF Due
  <2>3. a \in Task /\ a.pc = k.then /\ a.then = "idle"
      BY <2>1, RestTask, PcTask
  <2> HIDE DEF a
  <2>4. b \in Task /\ b.pc = k.then /\ b.then = "idle" /\ b.conv = k.conv
      BY <2>1, <2>3, ConvTask
  <2> QED BY <2>2, <2>4
<1> QED BY <1>1, <1>2

-----------------------------------------------------------------------------
(* The inductive invariant *)

\* Locals of the making of a conversation, and of what is done to one that was found.
Making == {"ensure", "lock", "topic", "create"}
Holding == {"edit", "name", "patched", "left", "reopen", "reopenTopic", "send", "recreate", "map",
            "closeTopic", "close"}

\* Who makes a conversation holds the lock l, and there is no conversation c yet.
Fits(t, k, l, c, p) ==
    /\ l = t <=> k.pc \in {"topic", "create"} \/ k.then = "unlock"
    /\ k.pc \in Making => k.then \in {"idle", "forward"}
    /\ k.then = "unlock" => k.pc \in {"send", "recreate", "map"}
    /\ k.then = "forward" => k.pc \in Making
    /\ k.pc \in {"topic", "create"} => ~c.is
    /\ k.pc \in Holding \cup {"forward"} => c.is
    /\ k.pc \in {"create", "map"} /\ k.made # 0 => p[k.made] # "none"
    /\ k.pc = "idle" => k.then = "idle"

Handles(t) == Fits(t, tasks[t], lock, conv, topics)

TopicState == {"none", "open", "closed", "gone"}

ConvOK == /\ conv \in Conv /\ rows \in {0, 1} /\ (conv.is <=> rows = 1)
          /\ topics \in [Topics -> TopicState] /\ titles \in [Topics -> Names]
          /\ conv.is /\ conv.topic # 0 => topics[conv.topic] # "none"

Inside == /\ ConvOK
          /\ lock \in Tasks \cup {"free"}
          /\ tasks \in [Tasks -> Task]
          /\ \A t \in Tasks : Handles(t)

Outside == /\ group \in Group /\ up \in BOOLEAN
           /\ frames \in Seq(Frame)
           /\ row \in Row /\ (row.known \/ ~row.deleted)
           /\ engine \in [is : BOOLEAN, group : Group]
           /\ events \in Seq(SyncEvents)
           /\ synced \in BOOLEAN /\ calm \in BOOLEAN /\ spoilt \in BOOLEAN
           /\ drops \in Nat /\ deletions \in Nat /\ faults \in Nat

IInv == Outside /\ Inside

\* Topics are numbered in the order they are made.
Packed == \E m \in 0..MaxTopics : \A j \in Topics : topics[j] = "none" <=> j > m

OneGone ==
    /\ deletions = 0 => \A j \in Topics : topics[j] # "gone"
    /\ deletions <= 1 => \A j, k \in Topics : topics[j] = "gone" /\ topics[k] = "gone" => j = k

\* What is replaced is gone, and by another topic.  As long as one topic was deleted a message
\* goes to the conversation c's topic, or that one has just been made, or there are no topics.
Follows(k, c, p, d) ==
    /\ k.pc \in {"recreate", "map"} => k.conv.topic # 0 /\ p[k.conv.topic] = "gone"
    /\ k.pc = "map" => k.made # k.conv.topic
    /\ k.then = "unlock" => c.is
    /\ k.then = "unlock" /\ d <= 1 =>
          \/ k.conv.topic = c.topic
          \/ d # 0 /\ ~(c.topic # 0 /\ p[c.topic] = "gone")

Restoring(t) == Follows(tasks[t], conv, topics, deletions)

\* The inductive invariant for MessageRestoresTopic, beside IInv.
Restores == Packed /\ OneGone /\ \A t \in Tasks : Restoring(t)

LEMMA OneConversationFollows == IInv => OneConversation
<1> SUFFICES ASSUME IInv PROVE OneConversation
    OBVIOUS
<1>1. \A i \in DOMAIN frames : frames[i] \in Frame
    BY LenProperties, ElementOfSeq DEF IInv, Outside
<1>2. \A i \in DOMAIN events : events[i] \in SyncEvents
    BY LenProperties, ElementOfSeq DEF IInv, Outside
<1>3. TypeOK
    BY <1>1, <1>2 DEF IInv, Outside, Inside, ConvOK, Handles, Fits, TopicState, TypeOK
<1> QED BY <1>3 DEF OneConversation, IInv, Inside, ConvOK

-----------------------------------------------------------------------------
(* What a step does to the locals of its task *)

\* The other task is left alone.
Moved(t) == tasks' \in [Tasks -> Task] /\ \A u \in Tasks \ {t} : tasks'[u] = tasks[u]

\* The locals k and m differ in the step alone.
Alike(k, m) == m.then = k.then /\ m.conv = k.conv /\ m.seen = k.seen /\ m.made = k.made

\* From k the task goes on with m, which was due.
Leaves(k, m) == /\ m.then = "idle"
                /\ m.pc = IF k.then = "unlock" THEN "idle" ELSE k.then
                /\ m.pc # "idle" => m.conv = k.conv

\* What an invariant says of a task without the lock.
Harmless(k) ==
    /\ k \in Task
    /\ k.pc \notin {"topic", "create", "map", "recreate"}
    /\ k.then # "unlock"
    /\ k.pc \in Making => k.then \in {"idle", "forward"}
    /\ k.then = "forward" => k.pc \in Making
    /\ k.pc = "idle" => k.then = "idle"

LEMMA Becomes ==
    ASSUME IInv, NEW t \in Tasks, NEW k \in Task, Become(t, k)
    PROVE  Moved(t) /\ tasks'[t] = k
  BY DEF IInv, Inside, Become, Moved

LEMMA GoParts ==
    ASSUME IInv, NEW t \in Tasks, NEW p \in Steps, Go(t, p)
    PROVE  Moved(t) /\ tasks'[t].pc = p /\ Alike(tasks[t], tasks'[t])
<1> DEFINE k == [tasks[t] EXCEPT !.pc = p]
<1>1. tasks[t] \in Task
    BY DEF IInv, Inside
<1>2. k \in Task /\ k.pc = p /\ Alike(tasks[t], k)
    BY <1>1, PcTask DEF Alike
<1>3. Become(t, k)
    BY DEF Go, Become
<1> HIDE DEF k
<1>4. Moved(t) /\ tasks'[t] = k
    BY <1>2, <1>3, Becomes
<1> QED BY <1>2, <1>4

LEMMA RestParts ==
    ASSUME IInv, NEW t \in Tasks, Become(t, Rest)
    PROVE  Moved(t) /\ tasks'[t].pc = "idle" /\ tasks'[t].then = "idle"
<1>1. Moved(t) /\ tasks'[t] = Rest
    BY RestTask, Becomes
<1> QED BY <1>1, RestTask

LEMMA StartParts ==
    ASSUME IInv, NEW t \in Tasks, NEW p \in Steps, NEW n \in Thens, Become(t, Start(p, n))
    PROVE  /\ Moved(t)
           /\ tasks'[t].pc = p /\ tasks'[t].then = n
           /\ p \notin {"reconcile", "ensure"} => tasks'[t].conv = conv
           /\ p \in {"edit", "ensure"} => tasks'[t].seen.name = row.name
<1> DEFINE k == Start(p, n)
<1>1. conv \in Conv /\ row \in Row
    BY DEF IInv, Inside, Outside, ConvOK
<1>2. /\ k \in Task /\ k.pc = p /\ k.then = n
      /\ p \notin {"reconcile", "ensure"} => k.conv = conv
      /\ p \in {"edit", "ensure"} => k.seen.name = row.name
    BY <1>1, StartTask
<1>3. Become(t, k)
    OBVIOUS
<1> HIDE DEF k
<1>4. Moved(t) /\ tasks'[t] = k
    BY <1>2, <1>3, Becomes
<1> QED BY <1>2, <1>4

LEMMA ProceedParts ==
    ASSUME IInv, NEW t \in Tasks, Proceed(t), tasks[t].then # "unlock"
    PROVE  Moved(t) /\ Leaves(tasks[t], tasks'[t])
<1> DEFINE k == Due(tasks[t])
<1>1. tasks[t] \in Task
    BY DEF IInv, Inside
<1>2. k \in Task /\ Leaves(tasks[t], k)
    BY <1>1, ProceedTask DEF Leaves
<1>3. Become(t, k)
    BY DEF Proceed, Due
<1> HIDE DEF k
<1>4. Moved(t) /\ tasks'[t] = k
    BY <1>2, <1>3, Becomes
<1> QED BY <1>2, <1>4

LEMMA InsideTyped ==
    ASSUME IInv, NEW t \in Tasks
    PROVE  /\ tasks[t] \in Task /\ Fits(t, tasks[t], lock, conv, topics)
           /\ conv \in Conv /\ topics \in [Topics -> TopicState] /\ titles \in [Topics -> Names]
           /\ conv.topic \in Topics \cup {0} /\ tasks[t].conv.topic \in Topics \cup {0}
           /\ tasks[t].made \in Topics \cup {0} /\ 0 \notin Topics
           /\ lock \in Tasks \cup {"free"}
           /\ conv.is /\ conv.topic # 0 => topics[conv.topic] # "none"
           /\ rows \in {0, 1} /\ (conv.is <=> rows = 1)
  BY DEF IInv, Inside, ConvOK, Handles, Conv, Task, Topics

\* A message has been sent: the lock is let go if it was held.
LEMMA SentParts ==
    ASSUME IInv, NEW t \in Tasks, tasks[t].pc \in {"send", "recreate", "map"}, Sent(t)
    PROVE  /\ Moved(t) /\ Leaves(tasks[t], tasks'[t])
           /\ lock' = IF tasks[t].then = "unlock" THEN "free" ELSE lock
           /\ lock' \in Tasks \cup {"free"} /\ lock' # t
           /\ \A u \in Tasks \ {t} : lock' = u <=> lock = u
<1>1. Fits(t, tasks[t], lock, conv, topics) /\ lock \in Tasks \cup {"free"} /\ "free" \notin Tasks
    BY InsideTyped DEF Tasks
<1>2. lock = t <=> tasks[t].then = "unlock"
    BY <1>1 DEF Fits
<1>3. CASE tasks[t].then = "unlock"
  <2>1. lock' = "free" /\ Moved(t) /\ tasks'[t].pc = "idle" /\ tasks'[t].then = "idle"
      BY <1>3, RestParts DEF Sent
  <2>2. Leaves(tasks[t], tasks'[t])
      BY <1>3, <2>1 DEF Leaves
  <2> QED BY <1>1, <1>2, <1>3, <2>1, <2>2
<1>4. CASE tasks[t].then # "unlock"
  <2>1. lock' = lock /\ Moved(t) /\ Leaves(tasks[t], tasks'[t])
      BY <1>4, ProceedParts DEF Sent
  <2> QED BY <1>1, <1>2, <1>4, <2>1
<1> QED BY <1>3, <1>4

\* A topic that is made gets the next number.
LEMMA NextFree ==
    ASSUME Packed, NEW j \in Topics, j = 1 + Cardinality({i \in Topics : topics[i] # "none"})
    PROVE  /\ topics[j] = "none"
           /\ \E m \in 0..MaxTopics : \A i \in Topics : topics[i] = "none" /\ i # j <=> i > m
<1>1. PICK m \in 0..MaxTopics : \A i \in Topics : topics[i] = "none" <=> i > m
    BY DEF Packed
<1>2. {i \in Topics : topics[i] # "none"} = 1..m
    BY <1>1, BoundsAssumption DEF Topics
<1>3. Cardinality(1..m) = m
  <2>1. m \in Nat /\ m >= 0
      BY <1>1, BoundsAssumption
  <2> QED BY <2>1, FS_Interval
<1>4. j = m + 1
  <2>1. j = 1 + Cardinality(1..m)
      BY <1>2
  <2> QED BY <1>1, <1>3, <2>1, BoundsAssumption
<1>5. topics[j] = "none"
    BY <1>1, <1>4
<1>6. \A i \in Topics : topics[i] = "none" /\ i # j <=> i > m + 1
    BY <1>1, <1>4 DEF Topics
<1>7. m + 1 \in 0..MaxTopics
    BY <1>1, <1>4, BoundsAssumption DEF Topics
<1> QED BY <1>5, <1>6, <1>7

\* The locals of a task that has a topic j, or none.
LEMMA MakeTask ==
    ASSUME IInv, NEW t \in Tasks, NEW next \in {"create", "map"}, NEW j \in Topics \cup {0},
           Become(t, [tasks[t] EXCEPT !.pc = next, !.made = j])
    PROVE  /\ Moved(t) /\ tasks'[t].pc = next /\ tasks'[t].made = j
           /\ tasks'[t].then = tasks[t].then /\ tasks'[t].conv = tasks[t].conv
           /\ tasks'[t].seen = tasks[t].seen
<1> DEFINE a == [tasks[t] EXCEPT !.pc = next]
           k == [a EXCEPT !.made = j]
<1>1. Become(t, k)
    BY DEF Become
<1>2. tasks[t] \in Task /\ next \in Steps
    BY InsideTyped DEF Steps
<1>3. /\ a \in Task /\ a.pc = next /\ a.then = tasks[t].then /\ a.conv = tasks[t].conv
      /\ a.seen = tasks[t].seen
    BY <1>2, PcTask
<1> HIDE DEF a
<1>4. /\ k \in Task /\ k.pc = next /\ k.made = j /\ k.then = tasks[t].then
      /\ k.conv = tasks[t].conv /\ k.seen = tasks[t].seen
    BY <1>3, MadeTask
<1> HIDE DEF k
<1>5. Moved(t) /\ tasks'[t] = k
    BY <1>1, <1>4, Becomes
<1> QED BY <1>4, <1>5

\* createForumTopic.
LEMMA Makes ==
    ASSUME IInv, NEW t \in Tasks, NEW next \in {"create", "map"}, NEW n \in Names,
           Make(t, next, n)
    PROVE  \E j \in Topics :
              /\ topics' \in [Topics -> TopicState] /\ topics'[j] = "open"
              /\ \A i \in Topics \ {j} : topics'[i] = topics[i]
              /\ titles' \in [Topics -> Names] /\ titles'[j] = n
              /\ \A i \in Topics \ {j} : titles'[i] = titles[i]
              /\ Moved(t) /\ tasks'[t].pc = next /\ tasks'[t].made = j
              /\ tasks'[t].then = tasks[t].then /\ tasks'[t].conv = tasks[t].conv
              /\ tasks'[t].seen = tasks[t].seen
              /\ Packed => topics[j] = "none" /\ Packed'
<1>1. PICK j \in Topics : /\ topics' = [topics EXCEPT ![j] = "open"]
                          /\ titles' = [titles EXCEPT ![j] = n]
                          /\ Become(t, [tasks[t] EXCEPT !.pc = next, !.made = j])
                          /\ j = 1 + Cardinality({i \in Topics : topics[i] # "none"})
    BY DEF Make
<1>2. topics \in [Topics -> TopicState] /\ titles \in [Topics -> Names]
    BY InsideTyped
<1>3. /\ topics' \in [Topics -> TopicState] /\ topics'[j] = "open"
      /\ \A i \in Topics \ {j} : topics'[i] = topics[i]
      /\ titles' \in [Topics -> Names] /\ titles'[j] = n
      /\ \A i \in Topics \ {j} : titles'[i] = titles[i]
    BY <1>1, <1>2 DEF TopicState
<1>4. /\ Moved(t) /\ tasks'[t].pc = next /\ tasks'[t].made = j
      /\ tasks'[t].then = tasks[t].then /\ tasks'[t].conv = tasks[t].conv
      /\ tasks'[t].seen = tasks[t].seen
    BY <1>1, MakeTask
<1>5. ASSUME Packed PROVE topics[j] = "none" /\ Packed'
  <2>1. PICK m \in 0..MaxTopics : \A i \in Topics : topics[i] = "none" /\ i # j <=> i > m
      BY <1>1, <1>5, NextFree
  <2>2. \A i \in Topics : topics'[i] = "none" <=> i > m
      BY <1>3, <2>1
  <2> QED BY <1>1, <1>5, <2>2, NextFree DEF Packed
<1> QED BY <1>3, <1>4, <1>5

-----------------------------------------------------------------------------
(* What keeps the invariant *)

\* Steps of the server and of the engine do not touch the topics.
LEMMA OutsideStep ==
    ASSUME IInv, Outside', UNCHANGED <<telegram, tasks, deletions>>
    PROVE  IInv' /\ (Restores => Restores')
<1>1. IInv'
    BY DEF IInv, Inside, ConvOK, Handles, telegram
<1>2. Restores => Restores'
    BY DEF Restores, Packed, OneGone, Restoring, telegram
<1> QED BY <1>1, <1>2

\* What another task follows is left alone.
LEMMA FollowsKept ==
    ASSUME IInv, NEW u \in Tasks, Restoring(u),
           NEW p, \A i \in Topics : p[i] = "gone" <=> topics[i] = "gone",
           NEW c, c.is = conv.is, c.topic = conv.topic
    PROVE  Follows(tasks[u], c, p, deletions)
<1>1. tasks[u].conv.topic \in Topics \cup {0} /\ conv.topic \in Topics \cup {0}
    BY InsideTyped
<1> QED BY <1>1 DEF Restoring, Follows

\* A step of a task that leaves the other task's hold on the lock and on the topics alone.
LEMMA InsideStep ==
    ASSUME IInv, NEW t \in Tasks, Moved(t), ConvOK',
           \A j \in Topics : topics[j] # "none" => topics'[j] # "none",
           conv.is => conv'.is, conv'.is => conv.is \/ lock = t,
           lock' \in Tasks \cup {"free"},
           \A u \in Tasks \ {t} : lock' = u <=> lock = u,
           Fits(t, tasks'[t], lock', conv', topics')
    PROVE  Inside'
<1>1. ASSUME NEW u \in Tasks \ {t}
      PROVE  Fits(u, tasks[u], lock', conv', topics')
  <2>1. Fits(u, tasks[u], lock, conv, topics) /\ tasks[u].made \in Topics \cup {0}
      BY InsideTyped
  <2>2. lock' = u <=> lock = u
      OBVIOUS
  <2>3. tasks[u].pc \in {"topic", "create"} => ~conv'.is
    <3>1. tasks[u].pc \in {"topic", "create"} => lock = u /\ ~conv.is
        BY <2>1 DEF Fits
    <3> QED BY <3>1
  <2>4. tasks[u].pc \in Holding \cup {"forward"} => conv'.is
      BY <2>1 DEF Fits
  <2>5. tasks[u].pc \in {"create", "map"} /\ tasks[u].made # 0 => topics'[tasks[u].made] # "none"
      BY <2>1 DEF Fits
  <2> QED BY <2>1, <2>2, <2>3, <2>4, <2>5 DEF Fits
<1>2. \A u \in Tasks : Handles(u)'
    BY <1>1 DEF Handles, Moved
<1> QED BY <1>2 DEF Inside, Moved

\* ... and makes no topic, nor a conversation.
LEMMA TaskStep ==
    ASSUME IInv, Outside', UNCHANGED <<rows, deletions>>,
           NEW t \in Tasks, Moved(t),
           conv' \in Conv, conv'.is = conv.is, conv'.topic = conv.topic,
           topics' \in [Topics -> TopicState], titles' \in [Topics -> Names],
           \A j \in Topics : /\ topics'[j] = "none" <=> topics[j] = "none"
                             /\ topics'[j] = "gone" <=> topics[j] = "gone",
           lock' \in Tasks \cup {"free"},
           \A u \in Tasks \ {t} : lock' = u <=> lock = u,
           Fits(t, tasks'[t], lock', conv', topics'),
           \/ tasks'[t].pc \notin {"recreate", "map"} /\ lock' # t
           \/ Restores => Follows(tasks'[t], conv', topics', deletions)
    PROVE  IInv' /\ (Restores => Restores')
<1>1. ConvOK'
  <2>1. conv'.topic \in Topics \cup {0}
      BY DEF Conv
  <2> QED BY <2>1, InsideTyped DEF IInv, Inside, ConvOK
<1>2. Inside'
    BY <1>1, InsideStep
<1>3. ASSUME Restores PROVE Restores'
  <2>1. Packed' /\ OneGone'
      BY <1>3 DEF Restores, Packed, OneGone
  <2>2. \A u \in Tasks : Restoring(u)
      BY <1>3 DEF Restores
  <2>3. ASSUME NEW u \in Tasks \ {t}
        PROVE  Follows(tasks[u], conv', topics', deletions)
      BY <2>2, FollowsKept
  <2>4. Follows(tasks'[t], conv', topics', deletions)
    <3>1. CASE tasks'[t].pc \notin {"recreate", "map"} /\ lock' # t
        BY <3>1 DEF Fits, Follows
    <3> QED BY <3>1, <1>3
  <2>5. \A u \in Tasks : Restoring(u)'
      BY <2>3, <2>4 DEF Restoring, Moved
  <2> QED BY <2>1, <2>5 DEF Restores
<1> QED BY <1>2, <1>3 DEF IInv

\* Telling a task what to do next, and nothing else.
LEMMA QuietStep ==
    ASSUME IInv, Outside', UNCHANGED <<telegram, deletions>>,
           NEW t \in Tasks, Moved(t),
           Fits(t, tasks'[t], lock, conv, topics),
           \/ tasks'[t].pc \notin {"recreate", "map"} /\ lock # t
           \/ Restores => Follows(tasks'[t], conv, topics, deletions)
    PROVE  IInv' /\ (Restores => Restores')
<1>1. UNCHANGED <<rows, conv, topics, titles, lock>>
    BY DEF telegram
<1> QED BY <1>1, InsideTyped, TaskStep

LEMMA HarmlessFits ==
    ASSUME NEW t, NEW k, NEW l, NEW c, NEW p, l # t, Harmless(k),
           k.pc \in Holding \cup {"forward"} => c.is
    PROVE  Fits(t, k, l, c, p)
  BY DEF Fits, Harmless

\* A task that needs no lock does not hold it.
LEMMA IdleBare ==
    ASSUME IInv, NEW t \in Tasks,
           tasks[t].pc \notin {"topic", "create", "send", "recreate", "map"}
    PROVE  lock # t /\ tasks[t].then # "unlock" /\ (tasks[t].pc \notin Making => tasks[t].then # "forward")
  BY InsideTyped DEF Fits

\* A step of a task without the lock to something it needs no lock for.
LEMMA HarmlessStep ==
    ASSUME IInv, Outside', UNCHANGED <<telegram, deletions>>,
           NEW t \in Tasks, Moved(t), Harmless(tasks'[t]),
           tasks'[t].pc \in Holding \cup {"forward"} => conv.is,
           tasks[t].pc \notin {"topic", "create", "send", "recreate", "map"}
    PROVE  IInv' /\ (Restores => Restores')
<1>1. lock # t
    BY IdleBare
<1>2. Fits(t, tasks'[t], lock, conv, topics)
    BY <1>1, HarmlessFits
<1> QED BY <1>1, <1>2, QuietStep DEF Harmless

-----------------------------------------------------------------------------
(* The server and the engine *)

LEMMA AppendTyped ==
    ASSUME NEW S, NEW q \in Seq(S), NEW e \in S
    PROVE  Append(q, e) \in Seq(S)
  BY AppendProperties

LEMMA TailTyped ==
    ASSUME NEW S, NEW q \in Seq(S), q # <<>>
    PROVE  Tail(q) \in Seq(S) /\ Head(q) \in S
  BY HeadTailProperties

\* What is left of a queue is a queue.
LEMMA PartTyped ==
    ASSUME NEW S, NEW q \in Seq(S), NEW i \in 1..(Len(q) + 1), NEW j \in 0..Len(q)
    PROVE  SubSeq(q, i, j) \in Seq(S)
<1>1. Len(q) \in Nat
    BY LenProperties
<1>2. \A n \in i..j : q[n] \in S
  <2> TAKE n \in i..j
  <2>1. n \in 1..Len(q)
      BY <1>1
  <2> QED BY <2>1, ElementOfSeq
<1>3. i \in Int /\ j \in Int
    BY <1>1
<1> QED BY <1>2, <1>3, SubSeqProperties

LEMMA TellTyped ==
    ASSUME frames \in Seq(Frame), NEW f \in Frame, Tell(f)
    PROVE  frames' \in Seq(Frame)
  BY AppendTyped DEF Tell

LEMMA FrameTyped ==
    ASSUME NEW n \in Names
    PROVE  /\ Event("updated", n) \in Frame
           /\ Event("removed", 0) \in Frame /\ Event("joined", 0) \in Frame
           /\ Event("message", 0) \in Frame /\ Event("connected", 0) \in Frame
  BY BoundsAssumption DEF Event, Frame

LEMMA RowTyped ==
    ASSUME row \in Row, row.known \/ ~row.deleted, NEW g \in Group, NEW n \in Names
    PROVE  /\ Seen(n) \in Row /\ Seen(n).known
           /\ Gone \in Row /\ (Gone.known \/ ~Gone.deleted)
           /\ Listed(g) \in Row /\ (Listed(g).known \/ ~Listed(g).deleted)
           /\ LET r == [row EXCEPT !.name = IF row.known THEN n ELSE @]
              IN  r \in Row /\ (r.known \/ ~r.deleted)
  BY DEF Row, Group, Seen, Gone, Listed

LEMMA GroupTyped ==
    ASSUME group \in Group
    PROVE  /\ group.in \in BOOLEAN /\ group.name \in Names
           /\ [group EXCEPT !.in = ~@] \in Group /\ [group EXCEPT !.in = FALSE] \in Group
           /\ [group EXCEPT !.in = ~@].in = ~group.in /\ ~[group EXCEPT !.in = FALSE].in
           /\ Renamed => group' \in Group /\ group'.in = group.in /\ group'.name \in Names
<1>1. group.in \in BOOLEAN /\ group.name \in Names
    BY DEF Group
<1>2. (~group.in) \in BOOLEAN
    OBVIOUS
<1>3. \A b \in BOOLEAN : [group EXCEPT !.in = b] \in Group /\ [group EXCEPT !.in = b].in = b
    BY DEF Group
<1>4. [group EXCEPT !.in = ~group.in] \in Group /\ [group EXCEPT !.in = ~group.in].in = ~group.in
    BY <1>2, <1>3, Zenon
<1>5. ~[group EXCEPT !.in = FALSE].in /\ [group EXCEPT !.in = FALSE] \in Group
    BY <1>3
<1>6. ASSUME Renamed PROVE group' \in Group /\ group'.in = group.in /\ group'.name \in Names
  <2>1. PICK n \in Names : group' = [group EXCEPT !.name = n]
      BY <1>6 DEF Renamed
  <2> QED BY <2>1 DEF Group
<1> QED BY <1>1, <1>4, <1>5, <1>6

\* What the steps of the server, the engine and the socket leave alone.
LEMMA HistoryTyped ==
    ASSUME IInv, UNCHANGED unharmed
    PROVE  /\ synced' \in BOOLEAN /\ calm' \in BOOLEAN /\ spoilt' \in BOOLEAN
           /\ drops' \in Nat /\ deletions' \in Nat /\ faults' \in Nat
           /\ UNCHANGED <<synced, calm, spoilt, drops, deletions, faults>>
  BY DEF IInv, Outside, unharmed, history, losses

LEMMA FaultTyped ==
    ASSUME IInv, Fault
    PROVE  /\ drops' \in Nat /\ deletions' \in Nat /\ faults' \in Nat
           /\ faults' = faults + 1 /\ UNCHANGED <<drops, deletions>>
  BY DEF IInv, Outside, Fault

\* A step that succeeds, or an error.
LEMMA ErrorTyped ==
    ASSUME IInv, UNCHANGED <<history, losses>> \/ (Error /\ UNCHANGED spoilt)
    PROVE  /\ synced' \in BOOLEAN /\ calm' \in BOOLEAN /\ spoilt' \in BOOLEAN
           /\ drops' \in Nat /\ deletions' \in Nat /\ faults' \in Nat
           /\ UNCHANGED deletions
<1>1. CASE UNCHANGED <<history, losses>>
    BY <1>1, HistoryTyped DEF unharmed
<1>2. CASE Error /\ UNCHANGED spoilt
  <2>1. Fault /\ synced' = FALSE /\ calm' = FALSE /\ spoilt' = spoilt
      BY <1>2 DEF Error
  <2> QED BY <2>1, FaultTyped DEF IInv, Outside
<1> QED BY <1>1, <1>2

LEMMA StepRename == ASSUME IInv, Rename
    PROVE IInv' /\ (Restores => Restores')
<1>1. group' \in Group /\ group'.name \in Names
    BY GroupTyped DEF IInv, Outside, Rename
<1>2. frames' \in Seq(Frame)
  <2>1. CASE Tell(Event("updated", group'.name))
      BY <2>1, <1>1, FrameTyped, TellTyped DEF IInv, Outside
  <2>2. CASE UNCHANGED frames
      BY <2>2 DEF IInv, Outside
  <2> QED BY <2>1, <2>2 DEF Rename
<1>3. Outside'
    BY <1>1, <1>2 DEF IInv, Outside, Rename, history, losses
<1> QED BY <1>3, OutsideStep DEF Rename, losses

LEMMA NoName == 0 \in Names
  BY BoundsAssumption

LEMMA Kinds ==
    /\ Event("message", 0) \in Frame /\ Event("connected", 0) \in Frame
    /\ Event("removed", 0) \in Frame /\ Event("joined", 0) \in Frame
  BY NoName, FrameTyped

LEMMA StepMove == ASSUME IInv, Move
    PROVE IInv' /\ (Restores => Restores')
<1>1. group' \in Group
    BY GroupTyped DEF IInv, Outside, Move
<1>2. frames' \in Seq(Frame)
    BY Kinds, TellTyped DEF IInv, Outside, Move
<1>3. calm' \in BOOLEAN /\ synced' \in BOOLEAN
  <2>1. calm' \in BOOLEAN
      BY DEF Move
  <2> QED BY <2>1 DEF Move
<1>4. Outside'
    BY <1>1, <1>2, <1>3 DEF IInv, Outside, Move, losses
<1> QED BY <1>4, OutsideStep DEF Move, losses

LEMMA StepPost == ASSUME IInv, Post
    PROVE IInv' /\ (Restores => Restores')
<1>1. frames' \in Seq(Frame)
    BY Kinds, TellTyped DEF IInv, Outside, Post
<1>2. Outside'
    BY <1>1 DEF IInv, Outside, Post, history, losses
<1> QED BY <1>2, OutsideStep DEF Post, losses

LEMMA StepDrop == ASSUME IInv, Drop
    PROVE IInv' /\ (Restores => Restores')
<1>1. frames' \in Seq(Frame)
  <2>1. PICK n \in 0..Len(frames) : frames' = SubSeq(frames, 1, n)
      BY DEF Drop
  <2>2. frames \in Seq(Frame) /\ Len(frames) \in Nat
      BY LenProperties DEF IInv, Outside
  <2>3. 1 \in 1..(Len(frames) + 1)
      BY <2>2
  <2> QED BY <2>1, <2>2, <2>3, PartTyped
<1>2. drops' \in Nat
    BY DEF IInv, Outside, Drop
<1>3. Outside'
    BY <1>1, <1>2 DEF IInv, Outside, Drop
<1> QED BY <1>3, OutsideStep DEF Drop

LEMMA StepConnect == ASSUME IInv, Connect
    PROVE IInv' /\ (Restores => Restores')
<1>1. frames' \in Seq(Frame)
    BY Kinds, AppendTyped DEF IInv, Outside, Connect
<1>2. Outside'
    BY <1>1 DEF IInv, Outside, Connect, history, losses
<1> QED BY <1>2, OutsideStep DEF Connect, losses

\* The user deletes a topic.
LEMMA StepDeleteTopic == ASSUME IInv, NEW k \in Topics, DeleteTopic(k)
    PROVE IInv' /\ (Restores => Restores')
<1>1. deletions' = deletions + 1 /\ deletions \in Nat /\ deletions' \in Nat
    BY DEF DeleteTopic, IInv, Outside
<1>2. Outside'
    BY <1>1 DEF DeleteTopic, IInv, Outside
<1>3. /\ topics' \in [Topics -> TopicState] /\ topics[k] # "none"
      /\ \A j \in Topics : topics'[j] = IF j = k THEN "gone" ELSE topics[j]
    BY DEF DeleteTopic, IInv, Inside, ConvOK, TopicState
<1>4. UNCHANGED <<conv, rows, titles, lock, tasks>>
    BY DEF DeleteTopic
<1>5. ConvOK'
    BY <1>3, <1>4, InsideTyped DEF IInv, Inside, ConvOK, Conv
<1>6. ASSUME NEW t \in Tasks PROVE Handles(t)'
    BY <1>3, <1>4, InsideTyped DEF Handles, Fits
<1>7. IInv'
    BY <1>2, <1>4, <1>5, <1>6 DEF IInv, Inside
<1>8. ASSUME Restores PROVE Restores'
  <2>1. Packed'
      BY <1>3, <1>8 DEF Restores, Packed
  <2>2. CASE deletions = 0
    <3>1. \A j \in Topics : topics[j] # "gone"
        BY <1>8, <2>2 DEF Restores, OneGone
    <3>2. OneGone'
        BY <1>1, <1>3, <3>1 DEF OneGone
    <3>3. ASSUME NEW t \in Tasks PROVE Restoring(t)'
      <4>1. Follows(tasks[t], conv, topics, deletions) /\ tasks[t].conv.topic \in Topics \cup {0}
          BY <1>8, InsideTyped DEF Restores, Restoring
      <4>2. Follows(tasks[t], conv, topics', deletions')
          BY <2>2, <3>1, <4>1 DEF Follows
      <4> QED BY <4>2, <1>4 DEF Restoring
    <3> QED BY <2>1, <3>2, <3>3 DEF Restores
  <2>3. CASE deletions # 0
    <3>1. ~(deletions' <= 1) /\ deletions' # 0
        BY <1>1, <2>3
    <3>2. ASSUME NEW t \in Tasks PROVE Restoring(t)'
      <4>1. Follows(tasks[t], conv, topics, deletions) /\ tasks[t].conv.topic \in Topics \cup {0}
          BY <1>8, InsideTyped DEF Restores, Restoring
      <4>2. Follows(tasks[t], conv, topics', deletions')
          BY <1>3, <3>1, <4>1 DEF Follows
      <4> QED BY <4>2, <1>4 DEF Restoring
    <3> QED BY <2>1, <3>1, <3>2 DEF Restores, OneGone
  <2> QED BY <2>2, <2>3
<1> QED BY <1>7, <1>8

LEMMA HandleTyped ==
    ASSUME IInv, NEW kind, Handle(kind)
    PROVE  frames' \in Seq(Frame) /\ Head(frames) \in Frame
  BY TailTyped DEF IInv, Outside, Handle

LEMMA EmitTyped ==
    ASSUME IInv, NEW e \in SyncEvents, Emit(e)
    PROVE  events' \in Seq(SyncEvents)
  BY AppendTyped DEF IInv, Outside, Emit

LEMMA GoneTyped == ASSUME IInv PROVE Gone \in Row /\ (Gone.known \/ ~Gone.deleted)
<1>1. group \in Group
    BY DEF IInv, Outside
<1> QED BY <1>1, NoName, RowTyped DEF IInv, Outside

LEMMA StepFetchList == ASSUME IInv, FetchList
    PROVE IInv' /\ (Restores => Restores')
<1>1. frames' \in Seq(Frame)
    BY HandleTyped DEF FetchList
<1>2. engine' \in [is : BOOLEAN, group : Group]
    BY DEF FetchList, IInv, Outside
<1>3. synced' \in BOOLEAN
    BY DEF FetchList
<1>4. Outside'
    BY <1>1, <1>2, <1>3 DEF IInv, Outside, FetchList, losses
<1> QED BY <1>4, OutsideStep DEF FetchList, losses

LEMMA StepWriteList == ASSUME IInv, WriteList
    PROVE IInv' /\ (Restores => Restores')
<1>1. engine.group \in Group
    BY DEF IInv, Outside
<1>2. row' \in Row /\ (row'.known \/ ~row'.deleted)
    BY <1>1, NoName, RowTyped DEF WriteList, IInv, Outside
<1>3. events' \in Seq(SyncEvents)
    BY EmitTyped DEF WriteList, SyncEvents
<1>4. engine' \in [is : BOOLEAN, group : Group]
    BY NoName DEF WriteList, NoList, Group
<1>5. synced' \in BOOLEAN
    BY DEF WriteList, IInv, Outside
<1>6. Outside'
    BY <1>2, <1>3, <1>4, <1>5 DEF IInv, Outside, WriteList, losses
<1> QED BY <1>6, OutsideStep DEF WriteList, losses

LEMMA StepOnJoined == ASSUME IInv, OnJoined
    PROVE IInv' /\ (Restores => Restores')
<1>1. frames' \in Seq(Frame)
    BY HandleTyped DEF OnJoined
<1>2. group \in Group /\ group.name \in Names
    BY GroupTyped DEF IInv, Outside
<1>3. row' \in Row /\ (row'.known \/ ~row'.deleted)
  <2>1. row' = Seen(group.name) \/ row' = Gone \/ row' = row
      BY DEF OnJoined
  <2>2. Seen(group.name).known
      BY DEF Seen
  <2> QED BY <1>2, <2>1, <2>2, RowTyped DEF IInv, Outside
<1>4. events' \in Seq(SyncEvents)
  <2>1. CASE Emit("joined") \/ Emit("deleted")
      BY <2>1, EmitTyped DEF SyncEvents
  <2>2. CASE UNCHANGED events
      BY <2>2 DEF IInv, Outside
  <2> QED BY <2>1, <2>2 DEF OnJoined
<1>5. UNCHANGED <<history, losses>> \/ (Error /\ UNCHANGED spoilt)
    BY DEF OnJoined
<1>6. /\ synced' \in BOOLEAN /\ calm' \in BOOLEAN /\ spoilt' \in BOOLEAN
      /\ drops' \in Nat /\ deletions' \in Nat /\ faults' \in Nat
      /\ UNCHANGED deletions
    BY <1>5, ErrorTyped
<1>7. Outside'
    BY <1>1, <1>3, <1>4, <1>6 DEF IInv, Outside, OnJoined
<1> QED BY <1>6, <1>7, OutsideStep DEF OnJoined

LEMMA StepOnRemoved == ASSUME IInv, OnRemoved
    PROVE IInv' /\ (Restores => Restores')
<1>1. frames' \in Seq(Frame)
    BY HandleTyped DEF OnRemoved
<1>2. row' \in Row /\ (row'.known \/ ~row'.deleted)
    BY GoneTyped DEF OnRemoved
<1>3. events' \in Seq(SyncEvents)
    BY EmitTyped DEF OnRemoved, SyncEvents
<1>4. Outside'
    BY <1>1, <1>2, <1>3 DEF IInv, Outside, OnRemoved, history, losses
<1> QED BY <1>4, OutsideStep DEF OnRemoved, losses

LEMMA StepOnUpdated == ASSUME IInv, OnUpdated
    PROVE IInv' /\ (Restores => Restores')
<1>1. frames' \in Seq(Frame) /\ Head(frames) \in Frame
    BY HandleTyped DEF OnUpdated
<1>2. group \in Group /\ Head(frames).name \in Names
    BY <1>1 DEF IInv, Outside, Frame
<1>3. row' \in Row /\ (row'.known \/ ~row'.deleted)
    BY <1>2, RowTyped DEF OnUpdated, IInv, Outside
<1>4. events' \in Seq(SyncEvents)
    BY EmitTyped DEF OnUpdated, SyncEvents
<1>5. Outside'
    BY <1>1, <1>3, <1>4 DEF IInv, Outside, OnUpdated, history, losses
<1> QED BY <1>5, OutsideStep DEF OnUpdated, losses

LEMMA StepOnMessage == ASSUME IInv, OnMessage
    PROVE IInv' /\ (Restores => Restores')
<1>1. frames' \in Seq(Frame)
    BY HandleTyped DEF OnMessage
<1>2. group \in Group /\ group.name \in Names
    BY GroupTyped DEF IInv, Outside
<1>3. row' \in Row /\ (row'.known \/ ~row'.deleted)
  <2>1. row' = Seen(group.name) \/ row' = row
      BY DEF OnMessage
  <2>2. Seen(group.name).known
      BY DEF Seen
  <2> QED BY <1>2, <2>1, <2>2, RowTyped DEF IInv, Outside
<1>4. events' \in Seq(SyncEvents)
  <2>1. CASE Emit("message")
      BY <2>1, EmitTyped DEF SyncEvents
  <2>2. CASE UNCHANGED events
      BY <2>2 DEF IInv, Outside
  <2> QED BY <2>1, <2>2 DEF OnMessage
<1>5. UNCHANGED <<history, losses>> \/ (Error /\ UNCHANGED spoilt)
    BY DEF OnMessage
<1>6. /\ synced' \in BOOLEAN /\ calm' \in BOOLEAN /\ spoilt' \in BOOLEAN
      /\ drops' \in Nat /\ deletions' \in Nat /\ faults' \in Nat
      /\ UNCHANGED deletions
    BY <1>5, ErrorTyped
<1>7. Outside'
    BY <1>1, <1>3, <1>4, <1>6 DEF IInv, Outside, OnMessage
<1> QED BY <1>6, <1>7, OutsideStep DEF OnMessage

\* The process dies: nobody holds anything any more.
LEMMA CrashTyped ==
    ASSUME IInv
    PROVE  Cardinality({t \in Tasks : tasks[t].pc # "idle"}) \in Nat
<1>1. IsFiniteSet(Tasks)
  <2>1. Tasks = {"loop"} \cup {"chat"} /\ IsFiniteSet({"loop"}) /\ IsFiniteSet({"chat"})
      BY FS_Singleton DEF Tasks
  <2> QED BY <2>1, FS_Union
<1>2. IsFiniteSet({t \in Tasks : tasks[t].pc # "idle"})
    BY <1>1, FS_Subset
<1> QED BY <1>2, FS_CardinalityType

LEMMA CrashTasks ==
    ASSUME Crash
    PROVE  /\ tasks' \in [Tasks -> Task]
           /\ \A t \in Tasks : tasks'[t].pc = "idle" /\ tasks'[t].then = "idle"
<1>1. tasks' = [t \in Tasks |-> Rest]
    BY DEF Crash
<1> QED BY <1>1, RestTask

LEMMA StepCrash == ASSUME IInv, Crash
    PROVE IInv' /\ (Restores => Restores')
<1>1. faults' \in Nat /\ drops' \in Nat
    BY CrashTyped DEF IInv, Outside, Crash
<1>2. engine' \in [is : BOOLEAN, group : Group]
    BY NoName DEF Crash, NoList, Group
<1>3. spoilt' \in BOOLEAN
    BY DEF Crash
<1>4. frames' \in Seq(Frame) /\ events' \in Seq(SyncEvents)
    BY EmptySeq DEF Crash
<1>5. Outside'
    BY <1>1, <1>2, <1>3, <1>4 DEF IInv, Outside, Crash
<1>6. \A t \in Tasks : tasks'[t].pc = "idle" /\ tasks'[t].then = "idle"
    BY CrashTasks
<1>7. lock' = "free" /\ "free" \notin Tasks /\ UNCHANGED <<conv, rows, topics, titles, deletions>>
    BY DEF Crash, Tasks
<1>8. ASSUME NEW t \in Tasks PROVE Handles(t)'
    BY <1>6, <1>7 DEF Handles, Fits, Making, Holding
<1>9. Inside'
    BY <1>7, <1>8, CrashTasks DEF IInv, Inside, ConvOK
<1>10. ASSUME NEW t \in Tasks PROVE Restoring(t)'
    BY <1>6, <1>7 DEF Restoring, Follows
<1>11. ASSUME Restores PROVE Restores'
    BY <1>7, <1>10, <1>11 DEF Restores, Packed, OneGone
<1> QED BY <1>5, <1>9, <1>11 DEF IInv

-----------------------------------------------------------------------------
(* What a task starts with *)

LEMMA RestHarmless ==
    ASSUME NEW k \in Task, k.pc = "idle", k.then = "idle"
    PROVE  Harmless(k)
  BY DEF Harmless, Making

\* What the run loop does for an event.
LEMMA TakeParts ==
    ASSUME IInv, NEW e \in SyncEvents, Become("loop", Begun(e))
    PROVE  /\ Moved("loop") /\ Harmless(tasks'["loop"])
           /\ \/ tasks'["loop"].pc = "idle" /\ tasks'["loop"].then = "idle"
              \/ e = "caughtUp" /\ tasks'["loop"].pc = "reconcile" /\ tasks'["loop"].then = "idle"
              \/ /\ e \in {"joined", "message"} /\ row.known
                 /\ tasks'["loop"].pc = "ensure"
                 /\ tasks'["loop"].then = IF e = "joined" THEN "idle" ELSE "forward"
                 /\ tasks'["loop"].seen.name = row.name
              \/ /\ e = "changed" /\ conv.is /\ row.known /\ conv.name # row.name
                 /\ tasks'["loop"].pc = "edit" /\ tasks'["loop"].then = "send"
                 /\ tasks'["loop"].conv = conv /\ tasks'["loop"].seen.name = row.name
              \/ /\ e = "deleted" /\ conv.is /\ ~conv.closed
                 /\ tasks'["loop"].pc = "send" /\ tasks'["loop"].then = "closeTopic"
                 /\ tasks'["loop"].conv = conv
           /\ e = "caughtUp" => tasks'["loop"].pc = "reconcile"
           /\ e = "changed" /\ conv.is /\ row.known => conv.name = row.name \/ tasks'["loop"].pc = "edit"
           /\ e = "deleted" /\ conv.is => conv.closed \/ tasks'["loop"].pc = "send"
           /\ e = "joined" /\ row.known => tasks'["loop"].pc = "ensure"
           /\ e = "message" /\ row.known /\ ~row.deleted => tasks'["loop"].pc = "ensure"
<1> DEFINE l == "loop"
           k == tasks'[l]
<1>1. l \in Tasks
    BY DEF Tasks
<1>2. /\ "reconcile" \in Steps /\ "ensure" \in Steps /\ "edit" \in Steps /\ "send" \in Steps
      /\ "idle" \in Thens /\ "forward" \in Thens /\ "send" \in Thens /\ "closeTopic" \in Thens
    BY DEF Steps, Thens
<1>3. Become(l, Rest) => Moved(l) /\ k.pc = "idle" /\ k.then = "idle"
    BY <1>1, RestParts
<1>4. Become(l, Start("reconcile", "idle")) => Moved(l) /\ k.pc = "reconcile" /\ k.then = "idle"
    BY <1>1, <1>2, StartParts
<1>5. Become(l, Start("ensure", "idle")) =>
         Moved(l) /\ k.pc = "ensure" /\ k.then = "idle" /\ k.seen.name = row.name
    BY <1>1, <1>2, StartParts
<1>6. Become(l, Start("ensure", "forward")) =>
         Moved(l) /\ k.pc = "ensure" /\ k.then = "forward" /\ k.seen.name = row.name
    BY <1>1, <1>2, StartParts
<1>7. Become(l, Start("edit", "send")) =>
         Moved(l) /\ k.pc = "edit" /\ k.then = "send" /\ k.seen.name = row.name /\ k.conv = conv
    BY <1>1, <1>2, StartParts
<1>8. Become(l, Start("send", "closeTopic")) =>
         Moved(l) /\ k.pc = "send" /\ k.then = "closeTopic" /\ k.conv = conv
    BY <1>1, <1>2, StartParts
<1>9. CASE e = "caughtUp"
  <2>1. Begun(e) = Start("reconcile", "idle")
      BY <1>9 DEF Begun
  <2> QED BY <1>1, <1>4, <1>9, <2>1 DEF Harmless, Making, Moved
<1>10. CASE e = "joined"
  <2>1. Begun(e) = IF row.known THEN Start("ensure", "idle") ELSE Rest
      BY <1>10 DEF Begun
  <2>2. CASE row.known
      BY <1>1, <1>5, <1>10, <2>1, <2>2 DEF Harmless, Making, Moved
  <2>3. CASE ~row.known
      BY <1>1, <1>3, <1>10, <2>1, <2>3, RestHarmless DEF Moved
  <2> QED BY <2>2, <2>3
<1>11. CASE e = "changed"
  <2>1. Begun(e) = IF conv.is /\ row.known /\ conv.name # row.name
                   THEN Start("edit", "send") ELSE Rest
      BY <1>11 DEF Begun
  <2>2. CASE conv.is /\ row.known /\ conv.name # row.name
      BY <1>1, <1>7, <1>11, <2>1, <2>2 DEF Harmless, Making, Moved
  <2>3. CASE ~(conv.is /\ row.known /\ conv.name # row.name)
      BY <1>1, <1>3, <1>11, <2>1, <2>3, RestHarmless DEF Moved
  <2> QED BY <2>2, <2>3
<1>12. CASE e = "deleted"
  <2>1. Begun(e) = IF conv.is /\ ~conv.closed THEN Start("send", "closeTopic") ELSE Rest
      BY <1>12 DEF Begun, OnDeletedEvent
  <2>2. CASE conv.is /\ ~conv.closed
      BY <1>1, <1>8, <1>12, <2>1, <2>2 DEF Harmless, Making, Moved
  <2>3. CASE ~(conv.is /\ ~conv.closed)
      BY <1>1, <1>3, <1>12, <2>1, <2>3, RestHarmless DEF Moved
  <2> QED BY <2>2, <2>3
<1>13. CASE e = "message"
  <2>1. Begun(e) = IF row.known /\ ~row.deleted THEN Start("ensure", "forward") ELSE Rest
      BY <1>13 DEF Begun
  <2>2. CASE row.known /\ ~row.deleted
      BY <1>1, <1>6, <1>13, <2>1, <2>2 DEF Harmless, Making, Moved
  <2>3. CASE ~(row.known /\ ~row.deleted)
      BY <1>1, <1>3, <1>13, <2>1, <2>3, RestHarmless DEF Moved
  <2> QED BY <2>2, <2>3
<1> QED BY <1>9, <1>10, <1>11, <1>12, <1>13 DEF SyncEvents

\* The first step of a handler is no invariant's business but for the event that is gone.
LEMMA StepTakeEvent == ASSUME IInv, TakeEvent
    PROVE IInv' /\ (Restores => Restores')
<1>1. events' \in Seq(SyncEvents) /\ Head(events) \in SyncEvents
    BY TailTyped DEF IInv, Outside, TakeEvent
<1>2. UNCHANGED <<history, losses>> \/ (Error /\ UNCHANGED spoilt)
    BY DEF TakeEvent
<1>3. Outside' /\ UNCHANGED deletions
    BY <1>1, <1>2, ErrorTyped DEF IInv, Outside, TakeEvent
<1>4. CASE Become("loop", Begun(Head(events)))
  <2>1. Moved("loop") /\ Harmless(tasks'["loop"])
        /\ (tasks'["loop"].pc \in Holding \cup {"forward"} => conv.is)
      BY <1>1, <1>4, TakeParts DEF Holding
  <2> QED BY <1>3, <2>1, HarmlessStep DEF TakeEvent, Tasks
<1>5. CASE UNCHANGED tasks
    BY <1>3, <1>5, OutsideStep DEF TakeEvent
<1> QED BY <1>4, <1>5 DEF TakeEvent

\* An older list is as good a start as an event.
LEMMA ReconcileParts ==
    ASSUME IInv, NEW t \in Tasks, Become(t, [Rest EXCEPT !.pc = "reconcile"])
    PROVE  Moved(t) /\ tasks'[t].pc = "reconcile" /\ tasks'[t].then = "idle" /\ Harmless(tasks'[t])
<1> DEFINE k == [Rest EXCEPT !.pc = "reconcile"]
<1>1. k \in Task /\ k.pc = "reconcile" /\ k.then = "idle"
    BY RestTask, PcTask DEF Steps
<1>2. Become(t, k)
    OBVIOUS
<1> HIDE DEF k
<1>3. Moved(t) /\ tasks'[t] = k
    BY <1>1, <1>2, Becomes
<1> QED BY <1>1, <1>3 DEF Harmless, Making

LEMMA StepLag == ASSUME IInv, Lag
    PROVE IInv' /\ (Restores => Restores')
<1>1. events' \in Seq(SyncEvents)
  <2>1. PICK n \in 1..Len(events) : events' = SubSeq(events, n + 1, Len(events))
      BY DEF Lag
  <2>2. events \in Seq(SyncEvents) /\ Len(events) \in Nat
      BY LenProperties DEF IInv, Outside
  <2>3. n + 1 \in 1..(Len(events) + 1) /\ Len(events) \in 0..Len(events)
      BY <2>2
  <2> QED BY <2>1, <2>2, <2>3, PartTyped
<1>2. Outside' /\ UNCHANGED deletions
  <2>1. calm' \in BOOLEAN
      BY DEF Lag
  <2> QED BY <1>1, <2>1, FaultTyped DEF IInv, Outside, Lag
<1>3. Moved("loop") /\ Harmless(tasks'["loop"]) /\ tasks'["loop"].pc = "reconcile"
    BY ReconcileParts DEF Lag, Tasks
<1> QED BY <1>2, <1>3, HarmlessStep DEF Lag, Tasks, Holding

\* What a command begins with.
LEMMA CommandParts ==
    ASSUME IInv, Commands, group' \in Group
    PROVE  /\ Moved("chat") /\ tasks["chat"].pc = "idle"
           /\ tasks'["chat"].then = "idle"
           /\ \/ tasks'["chat"].pc = "fetched" /\ tasks'["chat"].seen = group
              \/ /\ tasks'["chat"].pc = "patched" /\ conv.is
                 /\ tasks'["chat"].conv = conv /\ tasks'["chat"].seen = group'
              \/ tasks'["chat"].pc = "left" /\ conv.is /\ tasks'["chat"].conv = conv
           /\ ~synced' /\ ~calm' /\ UNCHANGED <<spoilt, losses, row, events, engine, telegram, up>>
<1>1. conv \in Conv /\ group \in Group /\ "chat" \in Tasks
    BY DEF IInv, Outside, Inside, ConvOK, Tasks
<1>2. /\ tasks["chat"].pc = "idle" /\ ~synced' /\ ~calm'
      /\ UNCHANGED <<spoilt, losses, row, events, engine, telegram, up>>
    BY DEF Commands, Sync, RenameGroup, Leave, Command
<1>3. CASE Sync
  <2> DEFINE x == [Rest EXCEPT !.pc = "fetched"]
             k == [x EXCEPT !.seen = group]
  <2>1. x \in Task /\ x.pc = "fetched" /\ x.then = "idle"
    <3>1. "fetched" \in Steps
        BY DEF Steps
    <3> QED BY <3>1, RestTask, PcTask
  <2> HIDE DEF x
  <2>2. k \in Task /\ k.pc = "fetched" /\ k.then = "idle" /\ k.seen = group
      BY <1>1, <2>1, SeenTask
  <2>3. Become("chat", k)
      BY <1>3 DEF Sync, Become, x
  <2> HIDE DEF k
  <2>4. Moved("chat") /\ tasks'["chat"] = k
      BY <1>1, <2>2, <2>3, Becomes
  <2> QED BY <1>2, <2>2, <2>4
<1>4. CASE RenameGroup
  <2> DEFINE x == [Rest EXCEPT !.pc = "patched"]
             y == [x EXCEPT !.conv = conv]
             k == [y EXCEPT !.seen = group']
  <2>1. x \in Task /\ x.pc = "patched" /\ x.then = "idle"
    <3>1. "patched" \in Steps
        BY DEF Steps
    <3> QED BY <3>1, RestTask, PcTask
  <2> HIDE DEF x
  <2>2. y \in Task /\ y.pc = "patched" /\ y.then = "idle" /\ y.conv = conv
      BY <1>1, <2>1, ConvTask
  <2> HIDE DEF y
  <2>3. k \in Task /\ k.pc = "patched" /\ k.then = "idle" /\ k.seen = group' /\ k.conv = conv
      BY <1>1, <2>2, SeenTask
  <2>4. Become("chat", k) /\ conv.is
      BY <1>4 DEF RenameGroup, Become, x, y
  <2> HIDE DEF k
  <2>5. Moved("chat") /\ tasks'["chat"] = k
      BY <1>1, <2>3, <2>4, Becomes
  <2> QED BY <1>2, <2>3, <2>4, <2>5
<1>5. CASE Leave
  <2> DEFINE x == [Rest EXCEPT !.pc = "left"]
             y == [x EXCEPT !.conv = conv]
             k == y
  <2>1. x \in Task /\ x.pc = "left" /\ x.then = "idle"
    <3>1. "left" \in Steps
        BY DEF Steps
    <3> QED BY <3>1, RestTask, PcTask
  <2> HIDE DEF x
  <2>2. y \in Task /\ y.pc = "left" /\ y.then = "idle" /\ y.conv = conv
      BY <1>1, <2>1, ConvTask
  <2>3. k \in Task /\ k.pc = "left" /\ k.then = "idle" /\ k.conv = conv
      BY <1>1, <2>2
  <2>4. Become("chat", k) /\ conv.is
      BY <1>5 DEF Leave, Become, x
  <2> HIDE DEF k
  <2>5. Moved("chat") /\ tasks'["chat"] = k
      BY <1>1, <2>3, <2>4, Becomes
  <2> QED BY <1>2, <2>3, <2>4, <2>5
<1> QED BY <1>3, <1>4, <1>5 DEF Commands

LEMMA StepCommands == ASSUME IInv, Commands
    PROVE IInv' /\ (Restores => Restores')
<1>1. group' \in Group /\ frames' \in Seq(Frame)
  <2>1. CASE Sync
      BY <2>1 DEF IInv, Outside, Sync
  <2>2. CASE RenameGroup
    <3>1. group' \in Group /\ group'.name \in Names
        BY <2>2, GroupTyped DEF IInv, Outside, RenameGroup
    <3> QED BY <2>2, <3>1, FrameTyped, TellTyped DEF IInv, Outside, RenameGroup
  <2>3. CASE Leave
    <3>1. group' \in Group
        BY <2>3, GroupTyped DEF IInv, Outside, Leave
    <3> QED BY <2>3, <3>1, Kinds, TellTyped DEF IInv, Outside, Leave
  <2> QED BY <2>1, <2>2, <2>3 DEF Commands
<1>2. /\ Moved("chat") /\ tasks["chat"].pc = "idle" /\ tasks'["chat"].then = "idle"
      /\ tasks'["chat"].pc \in {"fetched", "patched", "left"}
      /\ tasks'["chat"].pc # "fetched" => conv.is
      /\ ~synced' /\ ~calm' /\ UNCHANGED <<spoilt, losses, row, events, engine, telegram, up>>
    BY <1>1, CommandParts
<1>3. Outside'
  <2>1. synced' = FALSE /\ calm' = FALSE
      BY DEF Commands, Sync, RenameGroup, Leave, Command
  <2> QED BY <1>1, <1>2, <2>1 DEF IInv, Outside, losses
<1>4. Harmless(tasks'["chat"]) /\ (tasks'["chat"].pc \in Holding \cup {"forward"} => conv.is)
    BY <1>2 DEF Harmless, Making, Moved, Holding, Tasks
<1> QED BY <1>2, <1>3, <1>4, HarmlessStep DEF Tasks, losses

\* What a command goes on with.
LEMMA WritesParts ==
    ASSUME IInv, Writes
    PROVE  /\ Moved("chat") /\ Harmless(tasks'["chat"])
           /\ \/ /\ SyncWrites /\ tasks["chat"].pc = "fetched"
                 /\ tasks'["chat"].pc = "reconcile" /\ tasks'["chat"].then = "idle"
              \/ /\ RenameWrites /\ tasks["chat"].pc = "patched"
                 /\ tasks'["chat"].pc = "edit" /\ Alike(tasks["chat"], tasks'["chat"])
              \/ /\ LeaveWrites /\ tasks["chat"].pc = "left"
                 /\ tasks'["chat"].pc = "send" /\ tasks'["chat"].then = "closeTopic"
                 /\ tasks'["chat"].conv = tasks["chat"].conv
           /\ tasks'["chat"].pc \in Holding => conv.is
           /\ UNCHANGED <<group, up, frames, engine, telegram, history, losses>>
<1>1. "chat" \in Tasks /\ tasks["chat"] \in Task /\ Fits("chat", tasks["chat"], lock, conv, topics)
    BY InsideTyped DEF Tasks
<1>2. UNCHANGED <<group, up, frames, engine, telegram, history, losses>>
    BY DEF Writes, SyncWrites, RenameWrites, LeaveWrites
<1>3. CASE SyncWrites
  <2>1. Become("chat", [Rest EXCEPT !.pc = "reconcile"]) /\ tasks["chat"].pc = "fetched"
      BY <1>3 DEF SyncWrites
  <2>2. /\ Moved("chat") /\ tasks'["chat"].pc = "reconcile" /\ tasks'["chat"].then = "idle"
        /\ Harmless(tasks'["chat"])
      BY <1>1, <2>1, ReconcileParts
  <2> QED BY <1>2, <1>3, <2>1, <2>2 DEF Holding
<1>4. CASE RenameWrites
  <2>1. Go("chat", "edit") /\ tasks["chat"].pc = "patched" /\ "edit" \in Steps
      BY <1>4 DEF RenameWrites, Steps
  <2>2. Moved("chat") /\ tasks'["chat"].pc = "edit" /\ Alike(tasks["chat"], tasks'["chat"])
      BY <1>1, <2>1, GoParts
  <2>3. tasks["chat"].then \notin {"unlock", "forward"} /\ conv.is
      BY <1>1, <2>1 DEF Fits, Making, Holding
  <2>4. Harmless(tasks'["chat"])
    <3>1. tasks'["chat"] \in Task
        BY <1>1, <2>2 DEF Moved
    <3>2. tasks'["chat"].then = tasks["chat"].then
        BY <2>2 DEF Alike
    <3> QED BY <2>2, <2>3, <3>1, <3>2 DEF Harmless, Making
  <2> QED BY <1>2, <1>4, <2>1, <2>2, <2>3, <2>4
<1>5. CASE LeaveWrites
  <2> DEFINE a == [tasks["chat"] EXCEPT !.pc = "send"]
             k == [a EXCEPT !.then = "closeTopic"]
  <2>1. Become("chat", k) /\ tasks["chat"].pc = "left"
      BY <1>5 DEF LeaveWrites, Become
  <2>2. a \in Task /\ a.pc = "send" /\ a.conv = tasks["chat"].conv
      BY <1>1, PcTask DEF Steps
  <2> HIDE DEF a
  <2>3. k \in Task /\ k.pc = "send" /\ k.then = "closeTopic" /\ k.conv = tasks["chat"].conv
      BY <2>2, ThenTask DEF Thens
  <2> HIDE DEF k
  <2>4. Moved("chat") /\ tasks'["chat"] = k
      BY <1>1, <2>1, <2>3, Becomes
  <2>5. Harmless(tasks'["chat"]) /\ conv.is
      BY <1>1, <2>1, <2>3, <2>4 DEF Harmless, Making, Fits, Holding
  <2> QED BY <1>2, <1>5, <2>1, <2>3, <2>4, <2>5
<1> QED BY <1>3, <1>4, <1>5 DEF Writes

LEMMA StepWrites == ASSUME IInv, Writes
    PROVE IInv' /\ (Restores => Restores')
<1>1. tasks["chat"] \in Task /\ tasks["chat"].seen \in Group /\ tasks["chat"].seen.name \in Names
  <2>1. "chat" \in Tasks
      BY DEF Tasks
  <2> QED BY <2>1, InsideTyped DEF Task, Group
<1>2. row' \in Row /\ (row'.known \/ ~row'.deleted)
  <2>1. row' \in {Listed(tasks["chat"].seen), Gone,
                  [row EXCEPT !.name = IF row.known THEN tasks["chat"].seen.name ELSE @]}
      BY DEF Writes, SyncWrites, RenameWrites, LeaveWrites
  <2> QED BY <1>1, <2>1, RowTyped DEF IInv, Outside
<1>3. events' \in Seq(SyncEvents)
  <2>1. CASE Emit("caughtUp") \/ Emit("deleted")
      BY <2>1, EmitTyped DEF SyncEvents
  <2>2. CASE UNCHANGED events
      BY <2>2 DEF IInv, Outside
  <2> QED BY <2>1, <2>2 DEF Writes, SyncWrites, RenameWrites, LeaveWrites
<1>4. /\ Moved("chat") /\ Harmless(tasks'["chat"]) /\ tasks'["chat"].pc # "forward"
      /\ tasks'["chat"].pc \in Holding => conv.is
      /\ tasks["chat"].pc \in {"fetched", "patched", "left"}
      /\ UNCHANGED <<group, up, frames, engine, telegram, history, losses>>
    BY WritesParts
<1>5. Outside'
    BY <1>2, <1>3, <1>4 DEF IInv, Outside, history, losses
<1> QED BY <1>4, <1>5, HarmlessStep DEF Tasks, losses
-----------------------------------------------------------------------------
(* The topic, a call at a time *)

LEMMA OutsideKept ==
    ASSUME IInv, UNCHANGED <<outside, unharmed>>
    PROVE  Outside' /\ UNCHANGED deletions
  BY HistoryTyped DEF IInv, Outside, outside

LEMMA OutsideSpoilt ==
    ASSUME IInv, UNCHANGED <<outside, synced, calm, losses>>, spoilt' \in BOOLEAN
    PROVE  Outside' /\ UNCHANGED deletions
  BY DEF IInv, Outside, outside, losses

\* A field of the conversation that is not its topic.
LEMMA ConvFields ==
    ASSUME conv \in Conv, NEW n \in Names, NEW b \in BOOLEAN
    PROVE  LET c == [conv EXCEPT !.name = n]
               d == [conv EXCEPT !.closed = b]
           IN  /\ c \in Conv /\ c.is = conv.is /\ c.topic = conv.topic
               /\ c.name = n /\ c.closed = conv.closed
               /\ d \in Conv /\ d.is = conv.is /\ d.topic = conv.topic
               /\ d.name = conv.name /\ d.closed = b
  BY DEF Conv

\* What a task goes on with when it has let go of the lock.
LEMMA LeavesFits ==
    ASSUME IInv, NEW t \in Tasks, tasks[t].pc \in Making \cup Holding,
           Moved(t), Leaves(tasks[t], tasks'[t]),
           NEW l, l # t, NEW c, NEW p, conv.is => c.is, tasks[t].then = "forward" => c.is
    PROVE  Fits(t, tasks'[t], l, c, p) /\ tasks'[t].pc \notin {"recreate", "map"}
<1>1. tasks[t].then \in Thens /\ Fits(t, tasks[t], lock, conv, topics)
    BY InsideTyped DEF Task, Thens
<1>2. /\ tasks'[t].then = "idle"
      /\ tasks'[t].pc = IF tasks[t].then = "unlock" THEN "idle" ELSE tasks[t].then
    BY DEF Leaves
<1>3. tasks[t].then \in {"reopen", "send", "closeTopic"} => conv.is
    BY <1>1 DEF Fits, Making
<1> QED BY <1>1, <1>2, <1>3 DEF Fits, Making, Holding, Thens

\* reconcile_topics, for a group it does not skip.
LEMMA ReconcileTopic ==
    ASSUME IInv, NEW t \in Tasks, Reconcile(t)
    PROVE  /\ tasks[t].pc = "reconcile" /\ UNCHANGED <<outside, telegram, unharmed>>
           /\ Moved(t) /\ Harmless(tasks'[t])
           /\ IF ~row.known \/ row.deleted THEN tasks'[t].pc = "idle" /\ tasks'[t].then = "idle"
              ELSE IF ~conv.is
                   THEN tasks'[t].pc = "ensure" /\ tasks'[t].then = "idle" /\ tasks'[t].seen.name = row.name
              ELSE IF conv.name # row.name
                   THEN /\ tasks'[t].pc = "edit" /\ tasks'[t].then = "reopen"
                        /\ tasks'[t].conv = conv /\ tasks'[t].seen.name = row.name
              ELSE tasks'[t].pc = "reopen" /\ tasks'[t].then = "idle" /\ tasks'[t].conv = conv
<1> DEFINE m == tasks'[t]
<1>1. /\ "ensure" \in Steps /\ "edit" \in Steps /\ "reopen" \in Steps
      /\ "idle" \in Thens /\ "reopen" \in Thens
    BY DEF Steps, Thens
<1>2. Become(t, Rest) => Moved(t) /\ m.pc = "idle" /\ m.then = "idle"
    BY RestParts
<1>3. Become(t, Start("ensure", "idle")) =>
         Moved(t) /\ m.pc = "ensure" /\ m.then = "idle" /\ m.seen.name = row.name
    BY <1>1, StartParts
<1>4. Become(t, Start("edit", "reopen")) =>
         Moved(t) /\ m.pc = "edit" /\ m.then = "reopen" /\ m.seen.name = row.name /\ m.conv = conv
    BY <1>1, StartParts
<1>5. Become(t, Start("reopen", "idle")) =>
         Moved(t) /\ m.pc = "reopen" /\ m.then = "idle" /\ m.conv = conv
    BY <1>1, StartParts
<1>6. tasks[t].pc = "reconcile" /\ UNCHANGED <<outside, telegram, unharmed>>
    BY DEF Reconcile
<1>7. CASE ~row.known \/ row.deleted
    BY <1>2, <1>6, <1>7, RestHarmless DEF Reconcile, Moved
<1>8. CASE ~(~row.known \/ row.deleted) /\ ~conv.is
    BY <1>3, <1>6, <1>8 DEF Reconcile, Harmless, Making, Moved
<1>9. CASE ~(~row.known \/ row.deleted) /\ conv.is /\ conv.name # row.name
    BY <1>4, <1>6, <1>9 DEF Reconcile, Harmless, Making, Moved
<1>10. CASE ~(~row.known \/ row.deleted) /\ conv.is /\ conv.name = row.name
    BY <1>5, <1>6, <1>10 DEF Reconcile, Harmless, Making, Moved
<1> QED BY <1>7, <1>8, <1>9, <1>10

LEMMA StepReconcile == ASSUME IInv, NEW t \in Tasks, Reconcile(t)
    PROVE IInv' /\ (Restores => Restores')
<1>1. /\ tasks[t].pc = "reconcile" /\ UNCHANGED <<outside, telegram, unharmed>>
      /\ Moved(t) /\ Harmless(tasks'[t])
      /\ tasks'[t].pc \in Holding \cup {"forward"} => conv.is
    BY ReconcileTopic DEF Holding
<1> QED BY <1>1, OutsideKept, HarmlessStep

\* rename_topic renames the topic.
LEMMA EditTopic ==
    ASSUME IInv, NEW t \in Tasks, Edit(t)
    PROVE  /\ tasks[t].pc = "edit"
           /\ UNCHANGED <<outside, conv, rows, topics, lock, synced, calm, losses>>
           /\ Moved(t) /\ tasks'[t].pc = "name" /\ Alike(tasks[t], tasks'[t])
           /\ titles' \in [Topics -> Names]
           /\ \A j \in Topics : titles'[j] = IF j = tasks[t].conv.topic THEN tasks[t].seen.name ELSE titles[j]
           /\ spoilt' = (spoilt \/ \E u \in Tasks \ {t} : tasks[u].pc = "name")
<1>1. Moved(t) /\ tasks'[t].pc = "name" /\ Alike(tasks[t], tasks'[t])
  <2>1. Go(t, "name") /\ "name" \in Steps
      BY DEF Edit, Steps
  <2> QED BY <2>1, GoParts
<1>2. titles \in [Topics -> Names] /\ tasks[t].seen.name \in Names
    BY InsideTyped DEF Task, Group
<1>3. /\ titles' \in [Topics -> Names]
      /\ \A j \in Topics : titles'[j] = IF j = tasks[t].conv.topic THEN tasks[t].seen.name ELSE titles[j]
    BY <1>2 DEF Edit
<1>4. spoilt' = (spoilt \/ \E u \in Tasks \ {t} : tasks[u].pc = "name")
    BY DEF Edit, Meanwhile
<1> QED BY <1>1, <1>3, <1>4 DEF Edit

LEMMA StepEdit == ASSUME IInv, NEW t \in Tasks, Edit(t)
    PROVE IInv' /\ (Restores => Restores')
<1>1. /\ tasks[t].pc = "edit"
      /\ UNCHANGED <<outside, conv, rows, topics, lock, synced, calm, losses>>
      /\ Moved(t) /\ tasks'[t].pc = "name" /\ Alike(tasks[t], tasks'[t])
      /\ titles' \in [Topics -> Names]
    BY EditTopic
<1>2. spoilt' \in BOOLEAN
    BY DEF Edit
<1>3. Outside' /\ UNCHANGED deletions
    BY <1>1, <1>2, OutsideSpoilt
<1>4. Fits(t, tasks'[t], lock, conv, topics) /\ lock # t
    BY <1>1, InsideTyped, IdleBare DEF Fits, Alike, Making, Holding
<1> QED BY <1>1, <1>3, <1>4, InsideTyped, TaskStep

\* ... and the conversation.
LEMMA SetNameTopic ==
    ASSUME IInv, NEW t \in Tasks, SetName(t)
    PROVE  /\ tasks[t].pc = "name" /\ UNCHANGED <<outside, rows, topics, titles, lock, unharmed>>
           /\ Moved(t) /\ Leaves(tasks[t], tasks'[t])
           /\ conv' \in Conv /\ conv'.is = conv.is /\ conv'.topic = conv.topic
           /\ conv'.closed = conv.closed /\ conv'.name = tasks[t].seen.name
<1>1. tasks[t].pc = "name" /\ tasks[t].seen.name \in Names
    BY InsideTyped DEF SetName, Task, Group
<1>2. tasks[t].then # "unlock"
    BY <1>1, IdleBare
<1>3. Moved(t) /\ Leaves(tasks[t], tasks'[t])
    BY <1>2, ProceedParts DEF SetName
<1> QED BY <1>1, <1>3, InsideTyped, ConvFields DEF SetName

LEMMA StepSetName == ASSUME IInv, NEW t \in Tasks, SetName(t)
    PROVE IInv' /\ (Restores => Restores')
<1>1. /\ tasks[t].pc = "name" /\ UNCHANGED <<outside, rows, topics, titles, lock, unharmed>>
      /\ Moved(t) /\ Leaves(tasks[t], tasks'[t])
      /\ conv' \in Conv /\ conv'.is = conv.is /\ conv'.topic = conv.topic
    BY SetNameTopic
<1>2. lock # t /\ tasks[t].then # "forward" /\ tasks[t].pc \in Making \cup Holding
    BY <1>1, IdleBare DEF Making, Holding
<1>3. Fits(t, tasks'[t], lock, conv', topics) /\ tasks'[t].pc \notin {"recreate", "map"}
    BY <1>1, <1>2, LeavesFits
<1> QED BY <1>1, <1>2, <1>3, OutsideKept, InsideTyped, TaskStep

\* A conversation that is found closed is opened, and then its topic.
LEMMA ReopenParts ==
    ASSUME IInv, NEW t \in Tasks, Reopen(t)
    PROVE  /\ tasks[t].pc = "reopen" /\ UNCHANGED <<outside, rows, topics, titles, lock, unharmed>>
           /\ Moved(t)
           /\ conv' \in Conv /\ conv'.is = conv.is /\ conv'.topic = conv.topic
           /\ conv'.name = conv.name
           /\ \/ /\ ~tasks[t].conv.closed /\ conv' = conv
                 /\ tasks'[t].pc = "idle" /\ tasks'[t].then = "idle"
              \/ /\ tasks[t].conv.closed /\ ~conv'.closed
                 /\ tasks'[t].pc = "reopenTopic" /\ Alike(tasks[t], tasks'[t])
<1>1. tasks[t].pc = "reopen" /\ UNCHANGED <<outside, rows, topics, titles, lock, unharmed>>
    BY DEF Reopen
<1>2. CASE tasks[t].conv.closed
  <2>1. conv' = [conv EXCEPT !.closed = FALSE] /\ Go(t, "reopenTopic") /\ "reopenTopic" \in Steps
      BY <1>2 DEF Reopen, Steps
  <2>2. Moved(t) /\ tasks'[t].pc = "reopenTopic" /\ Alike(tasks[t], tasks'[t])
      BY <2>1, GoParts
  <2> QED BY <1>1, <1>2, <2>1, <2>2, NoName, InsideTyped, ConvFields
<1>3. CASE ~tasks[t].conv.closed
  <2>1. conv' = conv /\ Become(t, Rest)
      BY <1>3 DEF Reopen
  <2> QED BY <1>1, <1>3, <2>1, RestParts, InsideTyped
<1> QED BY <1>2, <1>3

LEMMA StepReopen == ASSUME IInv, NEW t \in Tasks, Reopen(t)
    PROVE IInv' /\ (Restores => Restores')
<1>1. /\ tasks[t].pc = "reopen" /\ UNCHANGED <<outside, rows, topics, titles, lock, unharmed>>
      /\ Moved(t)
      /\ conv' \in Conv /\ conv'.is = conv.is /\ conv'.topic = conv.topic
      /\ \/ tasks'[t].pc = "idle" /\ tasks'[t].then = "idle"
         \/ tasks'[t].pc = "reopenTopic" /\ Alike(tasks[t], tasks'[t])
    BY ReopenParts
<1>2. lock # t /\ tasks[t].then \notin {"unlock", "forward"} /\ conv.is
    BY <1>1, IdleBare, InsideTyped DEF Fits, Making, Holding
<1>3. Fits(t, tasks'[t], lock, conv', topics)
    BY <1>1, <1>2 DEF Fits, Alike, Making, Holding
<1> QED BY <1>1, <1>2, <1>3, OutsideKept, InsideTyped, TaskStep

\* A topic that is opened or closed is neither made nor deleted.
LEMMA Turned ==
    ASSUME IInv, NEW k, NEW a \in {"open", "closed"}, NEW b \in {"open", "closed"}, Turn(k, a, b)
    PROVE  /\ topics' \in [Topics -> TopicState]
           /\ \A j \in Topics : /\ topics'[j] = IF j = k /\ topics[j] = a THEN b ELSE topics[j]
                                /\ topics'[j] = "none" <=> topics[j] = "none"
                                /\ topics'[j] = "gone" <=> topics[j] = "gone"
<1>1. topics \in [Topics -> TopicState]
    BY DEF IInv, Inside, ConvOK
<1> QED BY <1>1 DEF Turn, TopicState

LEMMA ReopenTopicParts ==
    ASSUME IInv, NEW t \in Tasks, ReopenTopic(t)
    PROVE  /\ tasks[t].pc = "reopenTopic"
           /\ UNCHANGED <<outside, conv, rows, titles, lock, synced, calm, losses>>
           /\ Moved(t) /\ tasks'[t].pc = "idle" /\ tasks'[t].then = "idle"
           /\ topics' \in [Topics -> TopicState]
           /\ \A j \in Topics :
                 /\ topics'[j] = IF j = tasks[t].conv.topic /\ topics[j] = "closed" THEN "open" ELSE topics[j]
                 /\ topics'[j] = "none" <=> topics[j] = "none"
                 /\ topics'[j] = "gone" <=> topics[j] = "gone"
           /\ spoilt' = (spoilt \/ conv.closed \/ \E u \in Tasks \ {t} : tasks[u].pc = "close")
<1>1. tasks[t].pc = "reopenTopic" /\ UNCHANGED <<outside, conv, rows, titles, lock, synced, calm, losses>>
    BY DEF ReopenTopic
<1>2. Moved(t) /\ tasks'[t].pc = "idle" /\ tasks'[t].then = "idle"
    BY RestParts DEF ReopenTopic
<1>3. Turn(tasks[t].conv.topic, "closed", "open")
    BY DEF ReopenTopic
<1>4. spoilt' = (spoilt \/ conv.closed \/ \E u \in Tasks \ {t} : tasks[u].pc = "close")
    BY DEF ReopenTopic, Meanwhile
<1> QED BY <1>1, <1>2, <1>3, <1>4, Turned

LEMMA StepReopenTopic == ASSUME IInv, NEW t \in Tasks, ReopenTopic(t)
    PROVE IInv' /\ (Restores => Restores')
<1>1. /\ tasks[t].pc = "reopenTopic"
      /\ UNCHANGED <<outside, conv, rows, titles, lock, synced, calm, losses>>
      /\ Moved(t) /\ tasks'[t].pc = "idle" /\ tasks'[t].then = "idle"
      /\ topics' \in [Topics -> TopicState]
      /\ \A j \in Topics : /\ topics'[j] = "none" <=> topics[j] = "none"
                           /\ topics'[j] = "gone" <=> topics[j] = "gone"
    BY ReopenTopicParts
<1>2. Outside' /\ UNCHANGED deletions
  <2>1. spoilt' \in BOOLEAN
      BY DEF ReopenTopic
  <2> QED BY <1>1, <2>1, OutsideSpoilt
<1>3. lock # t
    BY <1>1, IdleBare
<1>4. Fits(t, tasks'[t], lock, conv, topics')
    BY <1>1, <1>3 DEF Fits, Making, Holding
<1> QED BY <1>1, <1>2, <1>3, <1>4, InsideTyped, TaskStep

\* ensure_conversation looks.
LEMMA EnsureTopic ==
    ASSUME IInv, NEW t \in Tasks, Ensure(t)
    PROVE  /\ tasks[t].pc = "ensure" /\ UNCHANGED <<outside, telegram, unharmed>>
           /\ Moved(t)
           /\ \/ conv.is /\ Leaves(tasks[t], tasks'[t])
              \/ ~conv.is /\ tasks'[t].pc = "lock" /\ Alike(tasks[t], tasks'[t])
<1>1. tasks[t].pc = "ensure" /\ UNCHANGED <<outside, telegram, unharmed>>
    BY DEF Ensure
<1>2. tasks[t].then # "unlock"
    BY <1>1, IdleBare
<1>3. "lock" \in Steps
    BY DEF Steps
<1>4. CASE conv.is
    BY <1>1, <1>2, <1>4, ProceedParts DEF Ensure
<1>5. CASE ~conv.is
    BY <1>1, <1>3, <1>5, GoParts DEF Ensure
<1> QED BY <1>4, <1>5

LEMMA StepEnsure == ASSUME IInv, NEW t \in Tasks, Ensure(t)
    PROVE IInv' /\ (Restores => Restores')
<1>1. /\ tasks[t].pc = "ensure" /\ UNCHANGED <<outside, telegram, unharmed>>
      /\ Moved(t)
      /\ \/ conv.is /\ Leaves(tasks[t], tasks'[t])
         \/ ~conv.is /\ tasks'[t].pc = "lock" /\ Alike(tasks[t], tasks'[t])
    BY EnsureTopic
<1>2. lock # t /\ tasks[t].then \in {"idle", "forward"} /\ tasks[t].pc \in Making \cup Holding
    BY <1>1, IdleBare, InsideTyped DEF Fits, Making
<1>3. Outside' /\ UNCHANGED <<telegram, deletions>>
    BY <1>1, OutsideKept
<1>4. Fits(t, tasks'[t], lock, conv, topics) /\ tasks'[t].pc \notin {"recreate", "map"}
  <2>1. CASE conv.is /\ Leaves(tasks[t], tasks'[t])
    <3>1. Moved(t)
        BY <1>1
    <3> QED BY <1>2, <2>1, <3>1, LeavesFits
  <2>2. CASE tasks'[t].pc = "lock" /\ Alike(tasks[t], tasks'[t])
      BY <1>2, <2>2 DEF Fits, Alike, Making, Holding
  <2> QED BY <1>1, <2>1, <2>2
<1> QED BY <1>1, <1>2, <1>3, <1>4, QuietStep

\* ... and again under the lock.
LEMMA LockTopic ==
    ASSUME IInv, NEW t \in Tasks, Lock(t)
    PROVE  /\ tasks[t].pc = "lock" /\ lock = "free"
           /\ UNCHANGED <<outside, conv, rows, topics, titles, unharmed>>
           /\ Moved(t)
           /\ \/ conv.is /\ Leaves(tasks[t], tasks'[t]) /\ lock' = lock
              \/ ~conv.is /\ tasks'[t].pc = "topic" /\ Alike(tasks[t], tasks'[t]) /\ lock' = t
<1>1. /\ tasks[t].pc = "lock" /\ lock = "free"
      /\ UNCHANGED <<outside, conv, rows, topics, titles, unharmed>>
    BY DEF Lock
<1>2. tasks[t].then # "unlock"
    BY <1>1, IdleBare
<1>3. "topic" \in Steps
    BY DEF Steps
<1>4. CASE conv.is
    BY <1>1, <1>2, <1>4, ProceedParts DEF Lock
<1>5. CASE ~conv.is
    BY <1>1, <1>3, <1>5, GoParts DEF Lock
<1> QED BY <1>4, <1>5

LEMMA StepLock == ASSUME IInv, NEW t \in Tasks, Lock(t)
    PROVE IInv' /\ (Restores => Restores')
<1>1. /\ tasks[t].pc = "lock" /\ lock = "free"
      /\ UNCHANGED <<outside, conv, rows, topics, titles, unharmed>>
      /\ Moved(t)
      /\ \/ conv.is /\ Leaves(tasks[t], tasks'[t]) /\ lock' = lock
         \/ ~conv.is /\ tasks'[t].pc = "topic" /\ Alike(tasks[t], tasks'[t]) /\ lock' = t
    BY LockTopic
<1>2. /\ tasks[t].then \in {"idle", "forward"} /\ tasks[t].pc \in Making \cup Holding
      /\ "free" \notin Tasks
    BY <1>1, IdleBare, InsideTyped DEF Fits, Making, Tasks
<1>3. Outside' /\ UNCHANGED deletions
    BY <1>1, OutsideKept
<1>4. CASE conv.is /\ Leaves(tasks[t], tasks'[t]) /\ lock' = lock
  <2>1. Fits(t, tasks'[t], lock, conv, topics) /\ tasks'[t].pc \notin {"recreate", "map"}
      BY <1>1, <1>2, <1>4, LeavesFits
  <2>2. UNCHANGED telegram
      BY <1>1, <1>4 DEF telegram
  <2> QED BY <1>1, <1>2, <1>3, <2>1, <2>2, QuietStep
<1>5. CASE ~conv.is /\ tasks'[t].pc = "topic" /\ Alike(tasks[t], tasks'[t]) /\ lock' = t
  <2>1. Fits(t, tasks'[t], lock', conv, topics)
      BY <1>2, <1>5 DEF Fits, Alike, Making, Holding
  <2>2. Follows(tasks'[t], conv, topics, deletions)
      BY <1>2, <1>5 DEF Follows, Alike
  <2>3. lock' \in Tasks \cup {"free"} /\ \A u \in Tasks \ {t} : lock' = u <=> lock = u
      BY <1>1, <1>2, <1>5
  <2> QED BY <1>1, <1>3, <2>1, <2>2, <2>3, InsideTyped, TaskStep
<1> QED BY <1>1, <1>4, <1>5

\* The others follow what they followed when a topic is made.
LEMMA MadeRestores ==
    ASSUME IInv, Restores, NEW t \in Tasks, Moved(t),
           NEW j \in Topics, topics'[j] = "open", \A i \in Topics \ {j} : topics'[i] = topics[i],
           topics[j] = "none", Packed', UNCHANGED <<conv, deletions>>,
           Follows(tasks'[t], conv, topics', deletions)
    PROVE  Restores'
<1>1. \A i \in Topics : topics'[i] = "gone" <=> topics[i] = "gone"
    OBVIOUS
<1>2. OneGone'
    BY <1>1 DEF Restores, OneGone
<1>3. ASSUME NEW u \in Tasks \ {t}
      PROVE  Follows(tasks[u], conv, topics', deletions)
    BY <1>1, FollowsKept DEF Restores
<1>4. \A u \in Tasks : Restoring(u)'
    BY <1>3 DEF Restoring, Moved
<1> QED BY <1>2, <1>4 DEF Restores

\* create_topic for a conversation.
LEMMA MakeTopicParts ==
    ASSUME IInv, NEW t \in Tasks, MakeTopic(t)
    PROVE  /\ tasks[t].pc = "topic" /\ UNCHANGED <<outside, conv, rows, lock, unharmed>>
           /\ Moved(t) /\ tasks'[t].pc = "create"
           /\ tasks'[t].then = tasks[t].then /\ tasks'[t].seen = tasks[t].seen
           /\ \E j \in Topics :
                 /\ tasks'[t].made = j
                 /\ topics' \in [Topics -> TopicState] /\ topics'[j] = "open"
                 /\ \A i \in Topics \ {j} : topics'[i] = topics[i]
                 /\ titles' \in [Topics -> Names] /\ titles'[j] = tasks[t].seen.name
                 /\ \A i \in Topics \ {j} : titles'[i] = titles[i]
                 /\ Packed => topics[j] = "none" /\ Packed'
<1>1. tasks[t].pc = "topic" /\ UNCHANGED <<outside, conv, rows, lock, unharmed>>
    BY DEF MakeTopic
<1>2. Make(t, "create", tasks[t].seen.name) /\ tasks[t].seen.name \in Names
    BY InsideTyped DEF MakeTopic, Task, Group
<1> QED BY <1>1, <1>2, Makes

LEMMA StepMakeTopic == ASSUME IInv, NEW t \in Tasks, MakeTopic(t)
    PROVE IInv' /\ (Restores => Restores')
<1>1. /\ tasks[t].pc = "topic" /\ UNCHANGED <<outside, conv, rows, lock, unharmed>>
      /\ Moved(t) /\ tasks'[t].pc = "create" /\ tasks'[t].then = tasks[t].then
    BY MakeTopicParts
<1>2. PICK j \in Topics :
              /\ tasks'[t].made = j
              /\ topics' \in [Topics -> TopicState] /\ topics'[j] = "open"
              /\ \A i \in Topics \ {j} : topics'[i] = topics[i]
              /\ titles' \in [Topics -> Names]
              /\ Packed => topics[j] = "none" /\ Packed'
    BY MakeTopicParts
<1>3. lock = t /\ ~conv.is /\ tasks[t].then \in {"idle", "forward"}
    BY <1>1, InsideTyped DEF Fits, Making
<1>4. Outside' /\ UNCHANGED deletions
    BY <1>1, OutsideKept
<1>5. Fits(t, tasks'[t], lock', conv', topics')
    BY <1>1, <1>2, <1>3 DEF Fits, Making, Holding
<1>6. ConvOK'
    BY <1>1, <1>2, InsideTyped DEF ConvOK
<1>7. \A i \in Topics : topics[i] # "none" => topics'[i] # "none"
    BY <1>2
<1>8. Inside'
    BY <1>1, <1>3, <1>5, <1>6, <1>7, InsideTyped, InsideStep
<1>9. Follows(tasks'[t], conv, topics', deletions)
    BY <1>1, <1>3 DEF Follows
<1>10. Restores => Restores'
    BY <1>1, <1>2, <1>4, <1>9, MadeRestores DEF Restores
<1> QED BY <1>4, <1>8, <1>10 DEF IInv

\* The row of the conversation is written, and the lock let go.
LEMMA CreateParts ==
    ASSUME IInv, NEW t \in Tasks, Create(t)
    PROVE  /\ tasks[t].pc = "create" /\ UNCHANGED <<outside, topics, titles, unharmed>>
           /\ Moved(t) /\ Leaves(tasks[t], tasks'[t])
           /\ conv' \in Conv /\ conv'.is /\ conv'.topic = tasks[t].made
           /\ conv'.name = tasks[t].seen.name /\ ~conv'.closed
           /\ rows' = rows + 1 /\ lock = t /\ lock' = "free" /\ ~conv.is
           /\ tasks[t].then \in {"idle", "forward"}
<1>1. /\ tasks[t].pc = "create" /\ rows' = rows + 1 /\ lock' = "free"
      /\ Proceed(t) /\ UNCHANGED <<outside, topics, titles, unharmed>>
      /\ conv' = [is |-> TRUE, topic |-> tasks[t].made, name |-> tasks[t].seen.name,
                  closed |-> FALSE]
    BY DEF Create
<1>2. lock = t /\ ~conv.is /\ tasks[t].then \in {"idle", "forward"}
    BY <1>1, InsideTyped DEF Fits, Making
<1>3. tasks[t].seen.name \in Names /\ tasks[t].made \in Topics \cup {0}
    BY InsideTyped DEF Task, Group
<1>4. /\ conv' \in Conv /\ conv'.is /\ conv'.topic = tasks[t].made
      /\ conv'.name = tasks[t].seen.name /\ ~conv'.closed
    BY <1>1, <1>3 DEF Conv
<1>5. Moved(t) /\ Leaves(tasks[t], tasks'[t])
    BY <1>1, <1>2, ProceedParts
<1> QED BY <1>1, <1>2, <1>4, <1>5

LEMMA StepCreate == ASSUME IInv, NEW t \in Tasks, Create(t)
    PROVE IInv' /\ (Restores => Restores')
<1>1. /\ tasks[t].pc = "create" /\ UNCHANGED <<outside, topics, titles, unharmed>>
      /\ Moved(t) /\ Leaves(tasks[t], tasks'[t])
      /\ conv' \in Conv /\ conv'.is /\ conv'.topic = tasks[t].made
      /\ rows' = rows + 1 /\ lock = t /\ lock' = "free" /\ ~conv.is
    BY CreateParts
<1>2. tasks[t].made # 0 => topics[tasks[t].made] # "none"
    BY <1>1, InsideTyped DEF Fits
<1>3. Outside' /\ UNCHANGED deletions
    BY <1>1, OutsideKept
<1>4. lock' \in Tasks \cup {"free"} /\ lock' # t /\ \A u \in Tasks \ {t} : lock' = u <=> lock = u
    BY <1>1 DEF Tasks
<1>5. Fits(t, tasks'[t], lock', conv', topics') /\ tasks'[t].pc \notin {"recreate", "map"}
    BY <1>1, <1>4, LeavesFits DEF Making
<1>6. ConvOK'
    BY <1>1, <1>2, InsideTyped DEF ConvOK
<1>7. Inside'
    BY <1>1, <1>4, <1>5, <1>6, InsideStep
<1>8. ASSUME Restores PROVE Restores'
  <2>1. \A u \in Tasks \ {t} : tasks[u].then # "unlock" /\ tasks[u].pc \notin Holding
      BY <1>1, InsideTyped DEF Fits
  <2>2. ASSUME NEW u \in Tasks \ {t} PROVE Follows(tasks[u], conv', topics, deletions)
      BY <1>8, <2>1 DEF Restores, Restoring, Follows, Holding
  <2>3. Follows(tasks'[t], conv', topics, deletions)
      BY <1>4, <1>5 DEF Fits, Follows
  <2>4. \A u \in Tasks : Restoring(u)'
      BY <1>1, <1>3, <2>2, <2>3 DEF Restoring, Moved
  <2>5. Packed' /\ OneGone'
      BY <1>1, <1>3, <1>8 DEF Restores, Packed, OneGone
  <2> QED BY <2>4, <2>5 DEF Restores
<1> QED BY <1>3, <1>7, <1>8 DEF IInv

\* forward_to takes the lock and reads the conversation.
LEMMA ForwardParts ==
    ASSUME IInv, NEW t \in Tasks, Forward(t)
    PROVE  /\ tasks[t].pc = "forward" /\ lock = "free" /\ lock' = t /\ conv.is
           /\ UNCHANGED <<outside, conv, rows, topics, titles, unharmed>>
           /\ Moved(t) /\ tasks'[t].pc = "send" /\ tasks'[t].then = "unlock"
           /\ tasks'[t].conv = conv
<1>1. /\ tasks[t].pc = "forward" /\ lock = "free" /\ lock' = t
      /\ UNCHANGED <<outside, conv, rows, topics, titles, unharmed>>
      /\ Become(t, Start("send", "unlock"))
    BY DEF Forward
<1>2. "send" \in Steps /\ "unlock" \in Thens /\ "send" \notin {"reconcile", "ensure"}
    BY DEF Steps, Thens
<1>3. /\ Moved(t) /\ tasks'[t].pc = "send" /\ tasks'[t].then = "unlock"
      /\ tasks'[t].conv = conv
    BY <1>1, <1>2, StartParts
<1> QED BY <1>1, <1>3, InsideTyped DEF Fits

LEMMA StepForward == ASSUME IInv, NEW t \in Tasks, Forward(t)
    PROVE IInv' /\ (Restores => Restores')
<1>1. /\ lock = "free" /\ lock' = t /\ conv.is
      /\ UNCHANGED <<outside, conv, rows, topics, titles, unharmed>>
      /\ Moved(t) /\ tasks'[t].pc = "send" /\ tasks'[t].then = "unlock"
      /\ tasks'[t].conv = conv
    BY ForwardParts
<1>2. Fits(t, tasks'[t], lock', conv, topics)
    BY <1>1 DEF Fits, Making, Holding
<1>3. Follows(tasks'[t], conv, topics, deletions)
    BY <1>1 DEF Follows
<1>4. lock' \in Tasks \cup {"free"} /\ \A u \in Tasks \ {t} : lock' = u <=> lock = u
    BY <1>1 DEF Tasks
<1>5. Outside' /\ UNCHANGED deletions
    BY <1>1, OutsideKept
<1> QED BY <1>1, <1>2, <1>3, <1>4, <1>5, InsideTyped, TaskStep

\* What is sent arrives, or its topic is missing.
LEMMA SendParts ==
    ASSUME IInv, NEW t \in Tasks, Send(t)
    PROVE  /\ tasks[t].pc = "send"
           /\ UNCHANGED <<outside, conv, rows, topics, titles, unharmed>>
           /\ Moved(t)
           /\ \/ /\ Missing(tasks[t].conv.topic) /\ lock' = lock
                 /\ tasks'[t].pc = "recreate" /\ Alike(tasks[t], tasks'[t])
              \/ ~Missing(tasks[t].conv.topic) /\ Sent(t) /\ Leaves(tasks[t], tasks'[t])
<1>1. /\ tasks[t].pc = "send"
      /\ UNCHANGED <<outside, conv, rows, topics, titles, unharmed>>
    BY DEF Send
<1>2. "recreate" \in Steps
    BY DEF Steps
<1>3. CASE Missing(tasks[t].conv.topic)
    BY <1>1, <1>2, <1>3, GoParts DEF Send
<1>4. CASE ~Missing(tasks[t].conv.topic)
    BY <1>1, <1>4, SentParts DEF Send
<1> QED BY <1>3, <1>4

\* A task that has sent something goes on without the lock.
LEMMA SentStep ==
    ASSUME IInv, NEW t \in Tasks, tasks[t].pc \in {"send", "recreate", "map"}, Sent(t),
           Outside', UNCHANGED <<conv, rows, topics, titles, deletions>>
    PROVE  IInv' /\ (Restores => Restores')
<1>1. /\ Moved(t) /\ Leaves(tasks[t], tasks'[t])
      /\ lock' \in Tasks \cup {"free"} /\ lock' # t
      /\ \A u \in Tasks \ {t} : lock' = u <=> lock = u
    BY SentParts
<1>2. tasks[t].then # "forward" /\ tasks[t].pc \in Making \cup Holding
    BY InsideTyped DEF Fits, Making, Holding
<1>3. Fits(t, tasks'[t], lock', conv, topics) /\ tasks'[t].pc \notin {"recreate", "map"}
    BY <1>1, <1>2, LeavesFits
<1> QED BY <1>1, <1>3, InsideTyped, TaskStep

LEMMA StepSend == ASSUME IInv, NEW t \in Tasks, Send(t)
    PROVE IInv' /\ (Restores => Restores')
<1>1. /\ tasks[t].pc = "send"
      /\ UNCHANGED <<outside, conv, rows, topics, titles, unharmed>> /\ Moved(t)
    BY SendParts
<1>2. Outside' /\ UNCHANGED deletions
    BY <1>1, OutsideKept
<1>3. CASE /\ Missing(tasks[t].conv.topic) /\ lock' = lock
           /\ tasks'[t].pc = "recreate" /\ Alike(tasks[t], tasks'[t])
  <2>1. Fits(t, tasks'[t], lock, conv, topics)
      BY <1>1, <1>3, InsideTyped DEF Fits, Alike, Making, Holding
  <2>2. Restores => Follows(tasks'[t], conv, topics, deletions)
      BY <1>3 DEF Missing, Restores, Restoring, Follows, Alike
  <2>3. UNCHANGED telegram
      BY <1>1, <1>3 DEF telegram
  <2> QED BY <1>1, <1>2, <2>1, <2>2, <2>3, QuietStep
<1>4. CASE Sent(t)
    BY <1>1, <1>2, <1>4, SentStep
<1> QED BY <1>3, <1>4, SendParts

\* The topic is made again, unless somebody has.
LEMMA RecreateParts ==
    ASSUME IInv, NEW t \in Tasks, Recreate(t)
    PROVE  /\ tasks[t].pc = "recreate" /\ UNCHANGED <<outside, conv, rows, unharmed>>
           /\ \/ /\ conv.topic # 0 /\ conv.topic # tasks[t].conv.topic
                 /\ Sent(t) /\ UNCHANGED <<topics, titles>>
              \/ /\ conv.topic \in {0, tasks[t].conv.topic} /\ UNCHANGED lock
                 /\ Moved(t) /\ tasks'[t].pc = "map"
                 /\ tasks'[t].then = tasks[t].then /\ tasks'[t].conv = tasks[t].conv
                 /\ \E j \in Topics :
                       /\ tasks'[t].made = j
                       /\ topics' \in [Topics -> TopicState] /\ topics'[j] = "open"
                       /\ \A i \in Topics \ {j} : topics'[i] = topics[i]
                       /\ titles' \in [Topics -> Names]
                       /\ \A i \in Topics \ {j} : titles'[i] = titles[i]
                       /\ Packed => topics[j] = "none" /\ Packed'
<1>1. tasks[t].pc = "recreate" /\ UNCHANGED <<outside, conv, rows, unharmed>>
    BY DEF Recreate
<1>2. CASE conv.topic \in Topics \ {tasks[t].conv.topic}
    BY <1>1, <1>2, InsideTyped DEF Recreate
<1>3. CASE conv.topic \notin Topics \ {tasks[t].conv.topic}
  <2>1. Make(t, "map", tasks[t].conv.name) /\ UNCHANGED lock
      BY <1>3 DEF Recreate
  <2>2. conv.topic \in {0, tasks[t].conv.topic} /\ tasks[t].conv.name \in Names
      BY <1>3, InsideTyped DEF Task, Conv
  <2>3. \E j \in Topics :
              /\ topics' \in [Topics -> TopicState] /\ topics'[j] = "open"
              /\ \A i \in Topics \ {j} : topics'[i] = topics[i]
              /\ titles' \in [Topics -> Names] /\ titles'[j] = tasks[t].conv.name
              /\ \A i \in Topics \ {j} : titles'[i] = titles[i]
              /\ Moved(t) /\ tasks'[t].pc = "map" /\ tasks'[t].made = j
              /\ tasks'[t].then = tasks[t].then /\ tasks'[t].conv = tasks[t].conv
              /\ tasks'[t].seen = tasks[t].seen
              /\ Packed => topics[j] = "none" /\ Packed'
      BY <2>1, <2>2, Makes
  <2> QED BY <1>1, <2>1, <2>2, <2>3
<1> QED BY <1>2, <1>3

LEMMA StepRecreate == ASSUME IInv, NEW t \in Tasks, Recreate(t)
    PROVE IInv' /\ (Restores => Restores')
<1>1. tasks[t].pc = "recreate" /\ UNCHANGED <<outside, conv, rows, unharmed>>
    BY RecreateParts
<1>2. Outside' /\ UNCHANGED deletions
    BY <1>1, OutsideKept
<1>3. CASE Sent(t) /\ UNCHANGED <<topics, titles>>
    BY <1>1, <1>2, <1>3, SentStep
<1>4. ASSUME NEW j \in Topics, UNCHANGED lock, Moved(t),
             tasks'[t].pc = "map", tasks'[t].then = tasks[t].then,
             tasks'[t].conv = tasks[t].conv, tasks'[t].made = j,
             topics' \in [Topics -> TopicState], topics'[j] = "open",
             \A i \in Topics \ {j} : topics'[i] = topics[i],
             titles' \in [Topics -> Names],
             Packed => topics[j] = "none" /\ Packed'
      PROVE  IInv' /\ (Restores => Restores')
  <2>1. Fits(t, tasks'[t], lock', conv', topics')
      BY <1>1, <1>4, InsideTyped DEF Fits, Making, Holding
  <2>2. ConvOK'
      BY <1>1, <1>4, InsideTyped DEF ConvOK
  <2>3. \A i \in Topics : topics[i] # "none" => topics'[i] # "none"
      BY <1>4
  <2>4. Inside'
      BY <1>1, <1>4, <2>1, <2>2, <2>3, InsideTyped, InsideStep
  <2>5. ASSUME Restores PROVE Restores'
    <3>1. topics[j] = "none" /\ Packed'
        BY <1>4, <2>5 DEF Restores
    <3>2. /\ Follows(tasks[t], conv, topics, deletions)
          /\ tasks[t].conv.topic # 0 /\ topics[tasks[t].conv.topic] = "gone"
        BY <1>1, <2>5 DEF Restores, Restoring, Follows
    <3>3. tasks[t].conv.topic \in Topics
        BY <3>2, InsideTyped
    <3>4. j # tasks[t].conv.topic /\ topics'[tasks[t].conv.topic] = "gone"
        BY <1>4, <3>1, <3>2, <3>3
    <3>5. conv.topic # 0 => (topics'[conv.topic] = "gone" => topics[conv.topic] = "gone")
        BY <1>4, InsideTyped
    <3>6. Follows(tasks'[t], conv, topics', deletions)
        BY <1>4, <3>2, <3>4, <3>5 DEF Follows
    <3> QED BY <1>1, <1>2, <1>4, <2>5, <3>1, <3>6, MadeRestores
  <2> QED BY <1>2, <2>4, <2>5 DEF IInv
<1> QED BY <1>3, <1>4, RecreateParts

\* What a task does with the topic it replaced.
LEMMA MapParts ==
    ASSUME IInv, NEW t \in Tasks, MapTopic(t)
    PROVE  /\ tasks[t].pc = "map" /\ UNCHANGED <<outside, rows, topics, titles, unharmed>>
           /\ Sent(t)
           /\ conv' \in Conv /\ conv'.is = conv.is /\ conv'.topic = tasks[t].made
           /\ conv'.name = conv.name /\ ~conv'.closed
<1> DEFINE a == [conv EXCEPT !.topic = tasks[t].made]
<1>1. a \in Conv /\ a.is = conv.is /\ a.topic = tasks[t].made /\ a.name = conv.name
    BY InsideTyped DEF Conv
<1>2. conv' = [a EXCEPT !.closed = FALSE]
    BY DEF MapTopic
<1> HIDE DEF a
<1>3. /\ conv' \in Conv /\ conv'.is = a.is /\ conv'.topic = a.topic
      /\ conv'.name = a.name /\ ~conv'.closed
    BY <1>1, <1>2 DEF Conv
<1> QED BY <1>1, <1>3 DEF MapTopic

LEMMA StepMapTopic == ASSUME IInv, NEW t \in Tasks, MapTopic(t)
    PROVE IInv' /\ (Restores => Restores')
<1>1. /\ tasks[t].pc = "map" /\ UNCHANGED <<outside, rows, topics, titles, unharmed>>
      /\ Sent(t)
      /\ conv' \in Conv /\ conv'.is = conv.is /\ conv'.topic = tasks[t].made
    BY MapParts
<1>2. Outside' /\ UNCHANGED deletions
    BY <1>1, OutsideKept
<1>3. tasks[t].made # 0 => topics[tasks[t].made] # "none"
    BY <1>1, InsideTyped DEF Fits
<1>4. /\ Moved(t) /\ Leaves(tasks[t], tasks'[t])
      /\ lock' \in Tasks \cup {"free"} /\ lock' # t
      /\ \A u \in Tasks \ {t} : lock' = u <=> lock = u
    BY <1>1, SentParts
<1>5. tasks[t].then # "forward" /\ tasks[t].pc \in Making \cup Holding
    BY <1>1, InsideTyped DEF Fits, Making, Holding
<1>6. Fits(t, tasks'[t], lock', conv', topics') /\ tasks'[t].pc \notin {"recreate", "map"}
    BY <1>1, <1>4, <1>5, LeavesFits
<1>7. ConvOK'
    BY <1>1, <1>3, InsideTyped DEF ConvOK
<1>8. Inside'
    BY <1>1, <1>4, <1>6, <1>7, InsideStep
<1>9. ASSUME Restores PROVE Restores'
  <2>1. /\ Follows(tasks[t], conv, topics, deletions)
        /\ tasks[t].conv.topic # 0 /\ topics[tasks[t].conv.topic] = "gone"
        /\ tasks[t].made # tasks[t].conv.topic
      BY <1>1, <1>9 DEF Restores, Restoring, Follows
  <2>2. tasks[t].conv.topic \in Topics /\ tasks[t].made \in Topics \cup {0}
      BY <2>1, InsideTyped
  <2>3. deletions <= 1 => tasks[t].made = 0 \/ topics[tasks[t].made] # "gone"
      BY <1>9, <2>1, <2>2 DEF Restores, OneGone
  <2>4. deletions # 0
      BY <1>9, <2>1, <2>2 DEF Restores, OneGone
  <2>5. Follows(tasks'[t], conv', topics, deletions)
      BY <1>4, <1>6 DEF Fits, Follows
  <2>6. ASSUME NEW u \in Tasks \ {t} PROVE Follows(tasks[u], conv', topics, deletions)
    <3>1. Follows(tasks[u], conv, topics, deletions)
        BY <1>9 DEF Restores, Restoring
    <3> QED BY <1>1, <2>3, <2>4, <3>1 DEF Follows
  <2>7. \A u \in Tasks : Restoring(u)'
      BY <1>1, <1>2, <1>4, <2>5, <2>6 DEF Restoring, Moved
  <2>8. Packed' /\ OneGone'
      BY <1>1, <1>2, <1>9 DEF Restores, Packed, OneGone
  <2> QED BY <2>7, <2>8 DEF Restores
<1> QED BY <1>2, <1>8, <1>9 DEF IInv

\* closeForumTopic.
LEMMA CloseTopicParts ==
    ASSUME IInv, NEW t \in Tasks, CloseTopic(t)
    PROVE  /\ tasks[t].pc = "closeTopic"
           /\ UNCHANGED <<outside, conv, rows, titles, lock, unharmed>>
           /\ Moved(t) /\ tasks'[t].pc = "close" /\ Alike(tasks[t], tasks'[t])
           /\ topics' \in [Topics -> TopicState]
           /\ \A j \in Topics :
                 /\ topics'[j] = IF j = tasks[t].conv.topic /\ topics[j] = "open" THEN "closed" ELSE topics[j]
                 /\ topics'[j] = "none" <=> topics[j] = "none"
                 /\ topics'[j] = "gone" <=> topics[j] = "gone"
<1>1. tasks[t].pc = "closeTopic" /\ UNCHANGED <<outside, conv, rows, titles, lock, unharmed>>
    BY DEF CloseTopic
<1>2. Moved(t) /\ tasks'[t].pc = "close" /\ Alike(tasks[t], tasks'[t])
  <2>1. Go(t, "close") /\ "close" \in Steps
      BY DEF CloseTopic, Steps
  <2> QED BY <2>1, GoParts
<1>3. Turn(tasks[t].conv.topic, "open", "closed")
    BY DEF CloseTopic
<1> QED BY <1>1, <1>2, <1>3, Turned

LEMMA StepCloseTopic == ASSUME IInv, NEW t \in Tasks, CloseTopic(t)
    PROVE IInv' /\ (Restores => Restores')
<1>1. /\ tasks[t].pc = "closeTopic"
      /\ UNCHANGED <<outside, conv, rows, titles, lock, unharmed>>
      /\ Moved(t) /\ tasks'[t].pc = "close" /\ Alike(tasks[t], tasks'[t])
      /\ topics' \in [Topics -> TopicState]
      /\ \A j \in Topics : /\ topics'[j] = "none" <=> topics[j] = "none"
                           /\ topics'[j] = "gone" <=> topics[j] = "gone"
    BY CloseTopicParts
<1>2. Outside' /\ UNCHANGED deletions
    BY <1>1, OutsideKept
<1>3. lock # t /\ Fits(t, tasks'[t], lock, conv, topics')
    BY <1>1, IdleBare, InsideTyped DEF Fits, Alike, Making, Holding
<1> QED BY <1>1, <1>2, <1>3, InsideTyped, TaskStep

\* set_conversation_closed.
LEMMA CloseParts ==
    ASSUME IInv, NEW t \in Tasks, Close(t)
    PROVE  /\ tasks[t].pc = "close" /\ UNCHANGED <<outside, rows, topics, titles, lock, unharmed>>
           /\ Moved(t) /\ Leaves(tasks[t], tasks'[t])
           /\ conv' \in Conv /\ conv'.is = conv.is /\ conv'.topic = conv.topic
           /\ conv'.name = conv.name /\ conv'.closed
<1>1. tasks[t].pc = "close"
    BY DEF Close
<1>2. tasks[t].then # "unlock"
    BY <1>1, IdleBare
<1>3. Moved(t) /\ Leaves(tasks[t], tasks'[t])
    BY <1>2, ProceedParts DEF Close
<1> QED BY <1>1, <1>3, NoName, InsideTyped, ConvFields DEF Close

LEMMA StepClose == ASSUME IInv, NEW t \in Tasks, Close(t)
    PROVE IInv' /\ (Restores => Restores')
<1>1. /\ tasks[t].pc = "close" /\ UNCHANGED <<outside, rows, topics, titles, lock, unharmed>>
      /\ Moved(t) /\ Leaves(tasks[t], tasks'[t])
      /\ conv' \in Conv /\ conv'.is = conv.is /\ conv'.topic = conv.topic
    BY CloseParts
<1>2. lock # t /\ tasks[t].then # "forward" /\ tasks[t].pc \in Making \cup Holding
    BY <1>1, IdleBare DEF Making, Holding
<1>3. Fits(t, tasks'[t], lock, conv', topics) /\ tasks'[t].pc \notin {"recreate", "map"}
    BY <1>1, <1>2, LeavesFits
<1> QED BY <1>1, <1>2, <1>3, OutsideKept, InsideTyped, TaskStep

-----------------------------------------------------------------------------
(* Failures *)

LEMMA IgnoredParts ==
    ASSUME IInv, NEW t \in Tasks, Ignored(t)
    PROVE  /\ UNCHANGED <<outside, conv, rows, topics, titles, synced, calm, drops, deletions>>
           /\ Moved(t) /\ faults' = faults + 1
           /\ spoilt' = (spoilt \/ tasks[t].pc \in {"topic", "edit", "closeTopic", "reopenTopic"})
           /\ \/ /\ tasks[t].pc = "topic" /\ tasks'[t].pc = "create" /\ tasks'[t].made = 0
                 /\ tasks'[t].then = tasks[t].then /\ tasks'[t].seen = tasks[t].seen
                 /\ UNCHANGED lock
              \/ /\ tasks[t].pc = "recreate" /\ tasks'[t].pc = "map" /\ tasks'[t].made = 0
                 /\ conv.topic \notin Topics \ {tasks[t].conv.topic}
                 /\ tasks'[t].then = tasks[t].then /\ tasks'[t].conv = tasks[t].conv
                 /\ UNCHANGED lock
              \/ /\ \/ tasks[t].pc = "edit" /\ tasks'[t].pc = "name"
                    \/ tasks[t].pc = "closeTopic" /\ tasks'[t].pc = "close"
                 /\ Alike(tasks[t], tasks'[t]) /\ UNCHANGED lock
              \/ /\ tasks[t].pc = "reopenTopic" /\ tasks'[t].pc = "idle" /\ tasks'[t].then = "idle"
                 /\ UNCHANGED lock
              \/ /\ tasks[t].pc \in {"send", "recreate", "map"} /\ Sent(t)
                 /\ Leaves(tasks[t], tasks'[t])
<1>1. /\ UNCHANGED <<outside, conv, rows, topics, titles, synced, calm, drops, deletions>>
      /\ faults' = faults + 1
      /\ spoilt' = (spoilt \/ tasks[t].pc \in {"topic", "edit", "closeTopic", "reopenTopic"})
    BY DEF Ignored, Fault
<1>2. 0 \in Topics \cup {0} /\ "name" \in Steps /\ "close" \in Steps
    BY DEF Steps
<1>3. CASE /\ tasks[t].pc = "topic" /\ UNCHANGED lock
           /\ Become(t, [tasks[t] EXCEPT !.pc = "create", !.made = 0])
    BY <1>1, <1>2, <1>3, MakeTask
<1>4. CASE /\ tasks[t].pc = "recreate" /\ conv.topic \notin Topics \ {tasks[t].conv.topic} /\ UNCHANGED lock
           /\ Become(t, [tasks[t] EXCEPT !.pc = "map", !.made = 0])
    BY <1>1, <1>2, <1>4, MakeTask
<1>5. CASE tasks[t].pc = "edit" /\ Go(t, "name") /\ UNCHANGED lock
    BY <1>1, <1>2, <1>5, GoParts
<1>6. CASE tasks[t].pc = "closeTopic" /\ Go(t, "close") /\ UNCHANGED lock
    BY <1>1, <1>2, <1>6, GoParts
<1>7. CASE tasks[t].pc = "reopenTopic" /\ Become(t, Rest) /\ UNCHANGED lock
    BY <1>1, <1>7, RestParts
<1>8. CASE tasks[t].pc \in {"send", "recreate", "map"} /\ Sent(t)
    BY <1>1, <1>8, SentParts
<1> QED BY <1>3, <1>4, <1>5, <1>6, <1>7, <1>8 DEF Ignored

LEMMA StepIgnored == ASSUME IInv, NEW t \in Tasks, Ignored(t)
    PROVE IInv' /\ (Restores => Restores')
<1>1. /\ UNCHANGED <<outside, conv, rows, topics, titles, synced, calm, drops, deletions>>
      /\ Moved(t) /\ faults' = faults + 1
    BY IgnoredParts
<1>2. Outside'
  <2>1. spoilt' \in BOOLEAN
      BY DEF Ignored
  <2> QED BY <1>1, <2>1 DEF IInv, Outside, outside
<1>3. CASE /\ tasks[t].pc = "topic" /\ tasks'[t].pc = "create" /\ tasks'[t].made = 0
           /\ tasks'[t].then = tasks[t].then /\ UNCHANGED lock
  <2>1. lock = t /\ ~conv.is /\ tasks[t].then \in {"idle", "forward"}
      BY <1>3, InsideTyped DEF Fits, Making
  <2>2. Fits(t, tasks'[t], lock, conv, topics)
      BY <1>3, <2>1 DEF Fits, Making, Holding
  <2>3. Follows(tasks'[t], conv, topics, deletions)
      BY <1>3, <2>1 DEF Follows
  <2>4. UNCHANGED telegram
      BY <1>1, <1>3 DEF telegram
  <2> QED BY <1>1, <1>2, <2>2, <2>3, <2>4, QuietStep
<1>4. CASE /\ tasks[t].pc = "recreate" /\ tasks'[t].pc = "map" /\ tasks'[t].made = 0
           /\ tasks'[t].then = tasks[t].then /\ tasks'[t].conv = tasks[t].conv
           /\ UNCHANGED lock
  <2>1. Fits(t, tasks'[t], lock, conv, topics)
      BY <1>4, InsideTyped DEF Fits, Making, Holding
  <2>2. Restores => Follows(tasks'[t], conv, topics, deletions)
      BY <1>4 DEF Restores, Restoring, Follows
  <2>3. UNCHANGED telegram
      BY <1>1, <1>4 DEF telegram
  <2> QED BY <1>1, <1>2, <2>1, <2>2, <2>3, QuietStep
<1>5. CASE /\ \/ tasks[t].pc = "edit" /\ tasks'[t].pc = "name"
              \/ tasks[t].pc = "closeTopic" /\ tasks'[t].pc = "close"
           /\ Alike(tasks[t], tasks'[t]) /\ UNCHANGED lock
  <2>1. lock # t /\ Fits(t, tasks'[t], lock, conv, topics)
      BY <1>5, IdleBare, InsideTyped DEF Fits, Alike, Making, Holding
  <2>2. UNCHANGED telegram
      BY <1>1, <1>5 DEF telegram
  <2> QED BY <1>1, <1>2, <1>5, <2>1, <2>2, QuietStep
<1>6. CASE /\ tasks[t].pc = "reopenTopic" /\ tasks'[t].pc = "idle" /\ tasks'[t].then = "idle"
           /\ UNCHANGED lock
  <2>1. lock # t
      BY <1>6, IdleBare
  <2>2. Fits(t, tasks'[t], lock, conv, topics)
      BY <1>6, <2>1 DEF Fits, Making, Holding
  <2>3. UNCHANGED telegram
      BY <1>1, <1>6 DEF telegram
  <2> QED BY <1>1, <1>2, <1>6, <2>1, <2>2, <2>3, QuietStep
<1>7. CASE tasks[t].pc \in {"send", "recreate", "map"} /\ Sent(t)
    BY <1>1, <1>2, <1>7, SentStep
<1> QED BY <1>3, <1>4, <1>5, <1>6, <1>7, IgnoredParts

Failing == {"fetched", "patched", "left", "reconcile", "ensure", "lock", "create", "forward",
            "name", "reopen", "close"}

LEMMA GiveUpParts ==
    ASSUME IInv, NEW t \in Tasks, GiveUp(t)
    PROVE  /\ UNCHANGED <<outside, conv, rows, topics, titles, drops, deletions>>
           /\ Moved(t) /\ faults' = faults + 1 /\ ~synced' /\ ~calm'
           /\ spoilt' = (spoilt \/ tasks[t].pc \in {"name", "close"})
           /\ tasks[t].pc \in Failing
           /\ lock' = IF lock = t THEN "free" ELSE lock
           /\ \/ tasks'[t].pc = "idle" /\ tasks'[t].then = "idle"
              \/ tasks[t].pc = "name" /\ Leaves(tasks[t], tasks'[t])
<1>1. /\ UNCHANGED <<outside, conv, rows, topics, titles, drops, deletions>>
      /\ faults' = faults + 1 /\ ~synced' /\ ~calm'
      /\ spoilt' = (spoilt \/ tasks[t].pc \in {"name", "close"})
      /\ tasks[t].pc \in Failing
      /\ lock' = IF lock = t THEN "free" ELSE lock
    BY DEF GiveUp, Error, Fault, Failing
<1>2. CASE tasks[t].pc = "name" /\ Proceed(t)
  <2>1. tasks[t].then # "unlock"
      BY <1>2, IdleBare
  <2> QED BY <1>1, <1>2, <2>1, ProceedParts
<1>3. CASE Become(t, Rest)
    BY <1>1, <1>3, RestParts
<1> QED BY <1>2, <1>3 DEF GiveUp

LEMMA StepGiveUp == ASSUME IInv, NEW t \in Tasks, GiveUp(t)
    PROVE IInv' /\ (Restores => Restores')
<1>1. /\ UNCHANGED <<outside, conv, rows, topics, titles, drops, deletions>>
      /\ Moved(t) /\ faults' = faults + 1
      /\ lock' = IF lock = t THEN "free" ELSE lock
    BY GiveUpParts
<1>2. Outside'
  <2>1. spoilt' \in BOOLEAN /\ synced' \in BOOLEAN /\ calm' \in BOOLEAN
      BY DEF GiveUp, Error
  <2>2. drops' \in Nat /\ deletions' \in Nat /\ faults' \in Nat
      BY <1>1 DEF IInv, Outside
  <2> QED BY <1>1, <2>1, <2>2 DEF IInv, Outside, outside
<1>3. lock' \in Tasks \cup {"free"} /\ lock' # t /\ \A u \in Tasks \ {t} : lock' = u <=> lock = u
    BY <1>1, InsideTyped DEF Tasks
<1>4. Fits(t, tasks'[t], lock', conv, topics) /\ tasks'[t].pc \notin {"recreate", "map"}
  <2>1. CASE tasks'[t].pc = "idle" /\ tasks'[t].then = "idle"
      BY <1>3, <2>1 DEF Fits, Making, Holding
  <2>2. CASE tasks[t].pc = "name" /\ Leaves(tasks[t], tasks'[t])
    <3>1. tasks[t].then # "forward" /\ tasks[t].pc \in Making \cup Holding
        BY <2>2, IdleBare DEF Making, Holding
    <3> QED BY <1>1, <1>3, <2>2, <3>1, LeavesFits
  <2> QED BY <2>1, <2>2, GiveUpParts
<1> QED BY <1>1, <1>2, <1>3, <1>4, InsideTyped, TaskStep

-----------------------------------------------------------------------------
(* Theorems *)

LEMMA IInvInit == Init => IInv
<1> SUFFICES ASSUME Init PROVE IInv
    OBVIOUS
<1>1. Outside
  <2>1. <<>> \in Seq(Frame) /\ <<>> \in Seq(SyncEvents)
      BY EmptySeq
  <2>2. group \in Group /\ row \in Row /\ (row.known \/ ~row.deleted)
      BY NoName DEF Init, Group, Row
  <2>3. engine \in [is : BOOLEAN, group : Group]
      BY NoName DEF Init, NoList, Group
  <2>4. up \in BOOLEAN /\ synced \in BOOLEAN /\ calm \in BOOLEAN /\ spoilt \in BOOLEAN
      BY DEF Init
  <2>5. drops \in Nat /\ deletions \in Nat /\ faults \in Nat
      BY DEF Init
  <2> QED BY <2>1, <2>2, <2>3, <2>4, <2>5 DEF Outside, Init
<1>2. conv = NoConv /\ ~conv.is /\ conv \in Conv
    BY NoName DEF Init, NoConv, Conv
<1>3. topics \in [Topics -> TopicState] /\ titles \in [Topics -> Names]
    BY NoName DEF Init, TopicState
<1>4. ConvOK
    BY <1>2, <1>3 DEF ConvOK, Init
<1>5. tasks \in [Tasks -> Task] /\ \A t \in Tasks : tasks[t] = Rest
    BY RestTask DEF Init
<1>6. lock = "free" /\ "free" \notin Tasks
    BY DEF Init, Tasks
<1>7. \A t \in Tasks : Handles(t)
    BY <1>5, <1>6, RestTask DEF Handles, Fits, Making, Holding
<1>8. Inside
    BY <1>4, <1>5, <1>6, <1>7 DEF Inside
<1> QED BY <1>1, <1>8 DEF IInv

LEMMA IInvNext == IInv /\ [Next]_vars => IInv' /\ (Restores => Restores')
<1> SUFFICES ASSUME IInv, [Next]_vars PROVE IInv' /\ (Restores => Restores')
    OBVIOUS
<1>1. CASE UNCHANGED vars
  <2>1. Outside' /\ UNCHANGED <<telegram, tasks, deletions>>
      BY <1>1 DEF IInv, Outside, vars, history, losses
  <2> QED BY <2>1, OutsideStep
<1>2. CASE Server \/ Connect
    BY <1>2, StepRename, StepMove, StepPost, StepDrop, StepConnect DEF Server
<1>3. CASE Engine
    BY <1>3, StepFetchList, StepWriteList, StepOnJoined, StepOnRemoved, StepOnUpdated,
       StepOnMessage DEF Engine
<1>4. CASE TakeEvent \/ Lag \/ Commands \/ Writes \/ Crash
    BY <1>4, StepTakeEvent, StepLag, StepCommands, StepWrites, StepCrash
<1>5. ASSUME NEW t \in Tasks, Topic(t)
      PROVE  IInv' /\ (Restores => Restores')
    BY <1>5, StepReconcile, StepEdit, StepSetName, StepReopen, StepReopenTopic, StepEnsure,
       StepLock, StepMakeTopic, StepCreate, StepForward, StepSend, StepRecreate, StepMapTopic,
       StepCloseTopic, StepClose, StepIgnored, StepGiveUp DEF Topic
<1>6. ASSUME NEW k \in Topics, DeleteTopic(k)
      PROVE  IInv' /\ (Restores => Restores')
    BY <1>6, StepDeleteTopic
<1> QED BY <1>1, <1>2, <1>3, <1>4, <1>5, <1>6 DEF Next

\* The inductive invariant holds in every reachable state.
LEMMA Invariant == Spec => []IInv
  BY IInvInit, IInvNext, PTL DEF Spec

\* However many tasks meet a group at once, whatever fails and whatever happens to its topic
\* meanwhile, it gets one conversation (ensure_conversation looks again under conv_lock).
THEOREM OneConversationForever == Spec => []OneConversation
  BY Invariant, OneConversationFollows, PTL

-----------------------------------------------------------------------------
(* A message restores the topic *)

LEMMA RestoresInit == Init => Restores
<1> SUFFICES ASSUME Init PROVE Restores
    OBVIOUS
<1>1. \A k \in Topics : topics[k] = "none"
    BY DEF Init
<1>2. Packed
  <2>1. \A j \in Topics : topics[j] = "none" <=> j > 0
      BY <1>1 DEF Topics
  <2>2. 0 \in 0..MaxTopics
      BY BoundsAssumption
  <2> QED BY <2>1, <2>2 DEF Packed
<1>3. OneGone
    BY <1>1 DEF OneGone
<1>4. \A t \in Tasks : tasks[t] = Rest
    BY DEF Init
<1>5. \A t \in Tasks : Restoring(t)
    BY <1>4, RestTask DEF Restoring, Follows
<1> QED BY <1>2, <1>3, <1>5 DEF Restores

LEMMA RestoresInvariant == Spec => [](IInv /\ Restores)
<1>1. IInv /\ Restores /\ [Next]_vars => (IInv /\ Restores)'
    BY IInvNext
<1>2. Init => IInv /\ Restores
    BY IInvInit, RestoresInit
<1> QED BY <1>1, <1>2, PTL DEF Spec

\* A task's step moves that task alone, and nothing outside.
LEMMA TopicMoves ==
    ASSUME IInv, NEW t \in Tasks, Topic(t)
    PROVE  Moved(t) /\ UNCHANGED <<outside, drops, deletions>>
<1>1. UNCHANGED unharmed \/ UNCHANGED losses => UNCHANGED <<drops, deletions>>
    BY DEF unharmed, losses
<1>2. CASE Reconcile(t)
    BY <1>1, <1>2, ReconcileTopic
<1>3. CASE Edit(t)
    BY <1>1, <1>3, EditTopic
<1>4. CASE SetName(t)
    BY <1>1, <1>4, SetNameTopic
<1>5. CASE Reopen(t)
    BY <1>1, <1>5, ReopenParts
<1>6. CASE ReopenTopic(t)
    BY <1>1, <1>6, ReopenTopicParts
<1>7. CASE Ensure(t)
    BY <1>1, <1>7, EnsureTopic
<1>8. CASE Lock(t)
    BY <1>1, <1>8, LockTopic
<1>9. CASE MakeTopic(t)
    BY <1>1, <1>9, MakeTopicParts
<1>10. CASE Create(t)
    BY <1>1, <1>10, CreateParts
<1>11. CASE Forward(t)
    BY <1>1, <1>11, ForwardParts
<1>12. CASE Send(t)
    BY <1>1, <1>12, SendParts
<1>13. CASE Recreate(t)
  <2>1. Sent(t) => Moved(t)
      BY <1>13, RecreateParts, SentParts
  <2> QED BY <1>1, <1>13, <2>1, RecreateParts
<1>14. CASE MapTopic(t)
  <2>1. Sent(t) => Moved(t)
      BY <1>14, MapParts, SentParts
  <2> QED BY <1>1, <1>14, <2>1, MapParts
<1>15. CASE CloseTopic(t)
    BY <1>1, <1>15, CloseTopicParts
<1>16. CASE Close(t)
    BY <1>1, <1>16, CloseParts
<1>17. CASE Ignored(t)
    BY <1>17, IgnoredParts
<1>18. CASE GiveUp(t)
    BY <1>18, GiveUpParts
<1> QED BY <1>2, <1>3, <1>4, <1>5, <1>6, <1>7, <1>8, <1>9, <1>10, <1>11, <1>12, <1>13, <1>14,
           <1>15, <1>16, <1>17, <1>18 DEF Topic

\* The run loop lets the lock go by a message that was sent to a topic that exists.
LEMMA LoopRestores ==
    ASSUME IInv, Restores, Topic("loop"), deletions' <= 1, faults' = faults,
           tasks["loop"].then = "unlock", tasks'["loop"].pc = "idle"
    PROVE  conv'.topic = 0 \/ topics'[conv'.topic] # "gone"
<1> DEFINE k == tasks["loop"]
<1>1. /\ "loop" \in Tasks /\ Fits("loop", k, lock, conv, topics)
      /\ k.conv.topic \in Topics \cup {0} /\ k.made \in Topics \cup {0}
    BY InsideTyped DEF Tasks
<1>2. k.pc \in {"send", "recreate", "map"}
    BY <1>1 DEF Fits
<1>3. Follows(k, conv, topics, deletions) /\ OneGone
    BY <1>1 DEF Restores, Restoring
<1>4. deletions <= 1 /\ faults' # faults + 1
  <2>1. faults \in Nat /\ UNCHANGED deletions
      BY <1>1, TopicMoves DEF IInv, Outside
  <2> QED BY <2>1
<1>5. k.conv.topic = conv.topic \/ conv.topic = 0 \/ topics[conv.topic] # "gone"
    BY <1>3, <1>4 DEF Follows
<1>6. ~Ignored("loop") /\ ~GiveUp("loop")
    BY <1>1, <1>4, IgnoredParts, GiveUpParts
<1>7. Send("loop") \/ Recreate("loop") \/ MapTopic("loop")
    BY <1>2, <1>6 DEF Topic, Reconcile, Edit, SetName, Reopen, ReopenTopic, Ensure, Lock,
       MakeTopic, Create, Forward, CloseTopic, Close
<1>8. CASE Send("loop")
  <2>1. ~Missing(k.conv.topic) /\ UNCHANGED <<conv, topics>>
      BY <1>1, <1>8, SendParts
  <2> QED BY <1>5, <2>1 DEF Missing
<1>9. CASE Recreate("loop")
  <2>1. conv.topic # 0 /\ conv.topic # k.conv.topic /\ UNCHANGED <<conv, topics>>
      BY <1>1, <1>9, RecreateParts
  <2> QED BY <1>5, <2>1
<1>10. CASE MapTopic("loop")
  <2>1. k.pc = "map" /\ conv'.topic = k.made /\ UNCHANGED topics
      BY <1>1, <1>10, MapParts
  <2>2. k.made # k.conv.topic /\ k.conv.topic # 0 /\ topics[k.conv.topic] = "gone"
      BY <1>3, <2>1 DEF Follows
  <2>3. k.made = 0 \/ topics[k.made] # "gone"
      BY <1>1, <1>3, <1>4, <2>2 DEF OneGone
  <2> QED BY <2>1, <2>3
<1> QED BY <1>7, <1>8, <1>9, <1>10

\* A crash costs the run loop's call.
LEMMA CrashFaults ==
    ASSUME IInv, Crash, NEW t \in Tasks, tasks[t].pc # "idle"
    PROVE  faults' > faults
<1> DEFINE S == {u \in Tasks : tasks[u].pc # "idle"}
<1>1. Cardinality(S) \in Nat /\ faults \in Nat
    BY CrashTyped DEF IInv, Outside
<1>2. Cardinality(S) # 0
  <2>1. IsFiniteSet(S)
    <3>1. Tasks = {"loop"} \cup {"chat"} /\ IsFiniteSet({"loop"}) /\ IsFiniteSet({"chat"})
        BY FS_Singleton DEF Tasks
    <3>2. IsFiniteSet(Tasks)
        BY <3>1, FS_Union
    <3> QED BY <3>2, FS_Subset
  <2>2. S # {}
      OBVIOUS
  <2> QED BY <2>1, <2>2, FS_EmptySet
<1>3. faults' = faults + Cardinality(S)
    BY DEF Crash
<1> HIDE DEF S
<1> QED BY <1>1, <1>2, <1>3

\* As long as the user deleted at most one topic: when a message has been forwarded the topic
\* exists again, or there is none, whatever failed before and for any number of names, moves and
\* commands (send_to_conv, recreate_topic).
THEOREM MessageRestores == Spec => MessageRestoresTopic
<1> DEFINE Restored == /\ deletions' <= 1 /\ faults' = faults
                       /\ tasks["loop"].then = "unlock" /\ tasks'["loop"].pc = "idle"
                       => conv'.topic = 0 \/ topics'[conv'.topic] # "gone"
<1>1. ASSUME IInv, Restores, [Next]_vars, deletions' <= 1, faults' = faults,
             tasks["loop"].then = "unlock", tasks'["loop"].pc = "idle"
      PROVE  conv'.topic = 0 \/ topics'[conv'.topic] # "gone"
  <2>1. "loop" \in Tasks /\ "chat" \in Tasks /\ "loop" # "chat"
      BY DEF Tasks
  <2>2. tasks["loop"].pc \in {"send", "recreate", "map"}
    <3>1. Fits("loop", tasks["loop"], lock, conv, topics)
        BY <2>1, <1>1, InsideTyped
    <3> QED BY <1>1, <3>1 DEF Fits
  <2>3. tasks'["loop"] # tasks["loop"]
      BY <1>1, <2>2
  <2>4. ~(Server \/ Connect \/ Engine \/ TakeEvent \/ Lag \/ UNCHANGED vars)
      BY <2>2, <2>3 DEF Server, Rename, Move, Post, Drop, Connect, Engine, FetchList, WriteList,
         OnJoined, OnRemoved, OnUpdated, OnMessage, TakeEvent, Lag, vars
  <2>5. ~Crash
    <3>1. faults \in Nat
        BY <1>1 DEF IInv, Outside
    <3> QED BY <1>1, <2>1, <2>2, <3>1, CrashFaults
  <2>6. ~Commands /\ ~Writes /\ ~Topic("chat")
    <3>1. Commands => Moved("chat")
      <4>1. Commands => IInv'
          BY <1>1, StepCommands
      <4>2. IInv' => group' \in Group
          BY DEF IInv, Outside
      <4> QED BY <1>1, <4>1, <4>2, CommandParts
    <3>2. Writes => Moved("chat")
        BY <1>1, WritesParts
    <3>3. Topic("chat") => Moved("chat")
        BY <1>1, <2>1, TopicMoves
    <3> QED BY <2>1, <2>3, <3>1, <3>2, <3>3 DEF Moved
  <2>7. \A k \in Topics : ~DeleteTopic(k)
      BY <2>3 DEF DeleteTopic
  <2>8. Topic("loop")
      BY <1>1, <2>4, <2>5, <2>6, <2>7 DEF Next, Tasks
  <2> QED BY <1>1, <2>8, LoopRestores
<1>2. IInv /\ Restores /\ [Next]_vars => Restored
    BY <1>1
<1>3. Spec => [][Restored]_vars
  <2>1. IInv /\ Restores /\ [Next]_vars => [Restored]_vars
      BY <1>2
  <2> QED BY <2>1, RestoresInvariant, PTL DEF Spec
<1> QED BY <1>3 DEF MessageRestoresTopic

-----------------------------------------------------------------------------
(* Topics that are left over *)

\* A task that has made a topic, or could not, and has not stored it yet.
Storing(k) == k.pc \in {"create", "map"}

Lost(k, p) == k = 0 \/ p[k] = "gone"

\* Two topics more may be made when a conversation is left without one: the first two tasks that
\* find the topic missing replace it both.  A task that has made one of them claims it.
Claim(k, c) == IF k.pc = "create" \/ (k.pc = "map" /\ c.topic \in {0, k.conv.topic}) THEN 1 ELSE 0

\* ... and will leave it without one if what it stores is none.
Pledge(k, p) == IF Storing(k) /\ Lost(k.made, p) THEN 2 ELSE 0

Allowed(c, p, k, m) == IF c.is /\ ~Lost(c.topic, p) THEN 0
                       ELSE (IF c.is THEN 2 ELSE 1) - Claim(k, c) - Claim(m, c)

Spare(c, p, k, m) == Allowed(c, p, k, m) + Pledge(k, p) + Pledge(m, p)

\* What is not stored yet is nobody else's.
Own == \A t \in Tasks : Storing(tasks[t]) /\ tasks[t].made # 0 =>
          /\ conv.is => tasks[t].made # conv.topic
          /\ \A u \in Tasks \ {t} : Storing(tasks[u]) => tasks[u].made # tasks[t].made

Paid(t, u) == Cardinality(Live) + Spare(conv, topics, tasks[t], tasks[u]) <= 1 + deletions + faults

\* The inductive invariant for OneTopic, beside IInv and Restores.
Counted == Own /\ \A t, u \in Tasks : t # u => Paid(t, u)

LEMMA TwoTasks ==
    /\ "loop" \in Tasks /\ "chat" \in Tasks /\ "loop" # "chat"
    /\ \A t \in Tasks : \E u \in Tasks : u # t /\ \A v \in Tasks : v = t \/ v = u
  BY DEF Tasks

LEMMA ClaimTyped ==
    ASSUME NEW k, NEW c, NEW p
    PROVE  Claim(k, c) \in {0, 1} /\ Pledge(k, p) \in {0, 2}
  BY DEF Claim, Pledge

\* Nobody claims more than is allowed.
LEMMA AllowedTyped ==
    ASSUME IInv, NEW t \in Tasks, NEW u \in Tasks, t # u
    PROVE  /\ Allowed(conv, topics, tasks[t], tasks[u]) \in {0, 1, 2}
           /\ Spare(conv, topics, tasks[t], tasks[u]) \in Nat
           /\ Spare(conv, topics, tasks[t], tasks[u]) >= Allowed(conv, topics, tasks[t], tasks[u])
<1>1. /\ Claim(tasks[t], conv) \in {0, 1} /\ Claim(tasks[u], conv) \in {0, 1}
      /\ Pledge(tasks[t], topics) \in {0, 2} /\ Pledge(tasks[u], topics) \in {0, 2}
    BY ClaimTyped
<1>2. ~conv.is => Claim(tasks[t], conv) = 0 \/ Claim(tasks[u], conv) = 0
  <2>1. ~conv.is => tasks[t].pc # "map" /\ tasks[u].pc # "map"
      BY InsideTyped DEF Fits, Holding
  <2>2. tasks[t].pc # "create" \/ tasks[u].pc # "create"
      BY InsideTyped DEF Fits
  <2> QED BY <2>1, <2>2 DEF Claim
<1>3. Allowed(conv, topics, tasks[t], tasks[u]) \in {0, 1, 2}
    BY <1>1, <1>2 DEF Allowed
<1> QED BY <1>1, <1>3 DEF Spare

\* The locals' order does not matter.
LEMMA SpareBoth ==
    ASSUME NEW c, NEW p, NEW k, NEW m
    PROVE  Spare(c, p, k, m) \in Int /\ Spare(c, p, k, m) = Spare(c, p, m, k)
<1>1. /\ Claim(k, c) \in {0, 1} /\ Claim(m, c) \in {0, 1}
      /\ Pledge(k, p) \in {0, 2} /\ Pledge(m, p) \in {0, 2}
    BY ClaimTyped
<1>2. Allowed(c, p, k, m) \in Int /\ Allowed(c, p, k, m) = Allowed(c, p, m, k)
    BY <1>1 DEF Allowed
<1> QED BY <1>1, <1>2 DEF Spare

LEMMA TopicsFinite ==
    ASSUME NEW S, S \subseteq Topics
    PROVE  IsFiniteSet(S) /\ Cardinality(S) \in Nat
<1>1. IsFiniteSet(Topics)
    BY BoundsAssumption, FS_Interval DEF Topics
<1>2. IsFiniteSet(S)
    BY <1>1, FS_Subset
<1> QED BY <1>2, FS_CardinalityType

LEMMA LiveTyped ==
    ASSUME IInv
    PROVE  IsFiniteSet(Live) /\ Cardinality(Live) \in Nat /\ deletions \in Nat /\ faults \in Nat
<1>1. Live \subseteq Topics
    BY DEF Live
<1> QED BY <1>1, TopicsFinite DEF IInv, Outside

\* The account after a step, from the account before it.
LEMMA Balance ==
    ASSUME IInv, IInv', Counted, NEW t \in Tasks, NEW u \in Tasks, t # u,
           NEW a \in Int, NEW b \in Int,
           Cardinality(Live') <= Cardinality(Live) + a,
           Spare(conv', topics', tasks'[t], tasks'[u]) <= Spare(conv, topics, tasks[t], tasks[u]) + b,
           deletions' + faults' >= deletions + faults + a + b
    PROVE  \A v, w \in Tasks : v # w => Paid(v, w)'
<1>1. /\ Cardinality(Live) \in Nat /\ deletions \in Nat /\ faults \in Nat
      /\ Cardinality(Live') \in Nat /\ deletions' \in Nat /\ faults' \in Nat
  <2>1. Live' \subseteq Topics
      BY DEF Live
  <2> QED BY <2>1, LiveTyped, TopicsFinite DEF IInv, Outside
<1>2. /\ Spare(conv, topics, tasks[t], tasks[u]) \in Int
      /\ Spare(conv', topics', tasks'[t], tasks'[u]) \in Int
      /\ Spare(conv', topics', tasks'[t], tasks'[u]) = Spare(conv', topics', tasks'[u], tasks'[t])
    BY SpareBoth
<1>3. Cardinality(Live) + Spare(conv, topics, tasks[t], tasks[u]) <= 1 + deletions + faults
    BY DEF Counted, Paid
<1>4. Cardinality(Live') + Spare(conv', topics', tasks'[t], tasks'[u]) <= 1 + deletions' + faults'
  <2> DEFINE i == Spare(conv, topics, tasks[t], tasks[u])
             j == Spare(conv', topics', tasks'[t], tasks'[u])
             x == Cardinality(Live)
             y == Cardinality(Live')
  <2>1. /\ i \in Int /\ j \in Int /\ x \in Nat /\ y \in Nat
        /\ x + i <= 1 + deletions + faults /\ y <= x + a /\ j <= i + b
        /\ deletions \in Nat /\ faults \in Nat /\ deletions' \in Nat /\ faults' \in Nat
      BY <1>1, <1>2, <1>3
  <2> HIDE DEF i, j, x, y
  <2>2. y + j <= 1 + deletions' + faults'
      BY <2>1
  <2> QED BY <2>2 DEF i, j, x, y
<1>5. Paid(t, u)' /\ Paid(u, t)'
    BY <1>2, <1>4 DEF Paid
<1>6. \A v \in Tasks : v = t \/ v = u
    BY DEF Tasks
<1> QED BY <1>5, <1>6

\* What is opened or closed is as much of a topic as before.
SameTopics == \A j \in Topics : /\ topics'[j] \in {"open", "closed"} <=> topics[j] \in {"open", "closed"}
                                /\ topics'[j] = "gone" <=> topics[j] = "gone"

LEMMA PledgeKept ==
    ASSUME IInv, SameTopics, NEW u \in Tasks
    PROVE  Pledge(tasks[u], topics') = Pledge(tasks[u], topics)
<1>1. tasks[u].made \in Topics \cup {0}
    BY InsideTyped
<1> QED BY <1>1 DEF Pledge, Lost, SameTopics

\* Steps that make no topic and store none.
LEMMA CountKept ==
    ASSUME IInv, IInv', Counted, NEW t \in Tasks, Moved(t), SameTopics,
           conv'.is = conv.is, conv'.topic = conv.topic,
           ~Storing(tasks'[t]), deletions' = deletions,
           faults' = faults + 1 \/ (faults' = faults /\ ~Storing(tasks[t]))
    PROVE  Counted'
<1>1. PICK u \in Tasks : u # t /\ \A v \in Tasks : v = t \/ v = u
    BY TwoTasks
<1>2. tasks'[u] = tasks[u]
    BY <1>1 DEF Moved
<1>3. Own'
    BY <1>1, <1>2 DEF Counted, Own
<1>4. Cardinality(Live') <= Cardinality(Live) + 0
  <2>1. Live' = Live
      BY DEF Live, SameTopics
  <2> QED BY <2>1, LiveTyped
<1>5. /\ Claim(tasks[t], conv) \in {0, 1} /\ Claim(tasks[u], conv) \in {0, 1}
      /\ Pledge(tasks[t], topics) \in {0, 2} /\ Pledge(tasks[u], topics) \in {0, 2}
    BY ClaimTyped
<1>6. /\ Claim(tasks'[t], conv') = 0 /\ Pledge(tasks'[t], topics') = 0
      /\ Claim(tasks'[u], conv') = Claim(tasks[u], conv)
      /\ Pledge(tasks'[u], topics') = Pledge(tasks[u], topics)
      /\ ~Storing(tasks[t]) => Claim(tasks[t], conv) = 0 /\ Pledge(tasks[t], topics) = 0
    BY <1>2, PledgeKept DEF Claim, Pledge, Storing
<1>7. conv'.is /\ ~Lost(conv'.topic, topics') <=> conv.is /\ ~Lost(conv.topic, topics)
    BY InsideTyped DEF Lost, SameTopics
<1>8. Allowed(conv', topics', tasks'[t], tasks'[u])
        <= Allowed(conv, topics, tasks[t], tasks[u]) + Claim(tasks[t], conv)
    BY <1>5, <1>6, <1>7 DEF Allowed
<1>9. /\ Allowed(conv, topics, tasks[t], tasks[u]) \in Int
      /\ Allowed(conv', topics', tasks'[t], tasks'[u]) \in Int
    BY <1>5, <1>6 DEF Allowed
<1>10. Spare(conv', topics', tasks'[t], tasks'[u])
         <= Spare(conv, topics, tasks[t], tasks[u]) + Claim(tasks[t], conv)
    BY <1>5, <1>6, <1>8, <1>9 DEF Spare
<1>11. deletions' + faults' >= deletions + faults + 0 + Claim(tasks[t], conv)
    BY <1>5, <1>6, LiveTyped
<1>12. Claim(tasks[t], conv) \in Int /\ 0 \in Int
    BY <1>5
<1>13. \A v, w \in Tasks : v # w => Paid(v, w)'
    BY <1>1, <1>4, <1>10, <1>11, <1>12, Balance
<1> QED BY <1>3, <1>13 DEF Counted

\* ... nor move a task.
LEMMA CountSame ==
    ASSUME IInv, Counted, UNCHANGED <<conv, topics, tasks, deletions>>,
           faults' = faults \/ faults' = faults + 1
    PROVE  Counted'
<1>1. Own'
    BY DEF Counted, Own
<1>2. ASSUME NEW t \in Tasks, NEW u \in Tasks, t # u
      PROVE  Paid(t, u)'
  <2>1. Cardinality(Live) \in Nat /\ deletions \in Nat /\ faults \in Nat
      BY LiveTyped
  <2>2. Spare(conv, topics, tasks[t], tasks[u]) \in Nat
      BY <1>2, AllowedTyped
  <2>3. Live' = Live
      BY DEF Live
  <2>4. Cardinality(Live) + Spare(conv, topics, tasks[t], tasks[u]) <= 1 + deletions + faults
      BY <1>2 DEF Counted, Paid
  <2>5. Cardinality(Live) + Spare(conv, topics, tasks[t], tasks[u]) <= 1 + deletions + faults'
      BY <2>1, <2>2, <2>4
  <2> QED BY <2>3, <2>5 DEF Paid
<1> QED BY <1>1, <1>2 DEF Counted

\* A topic is made, or could not be, for a conversation that has none.
LEMMA CountMake ==
    ASSUME IInv, IInv', Counted, NEW t \in Tasks, Moved(t), UNCHANGED <<conv, deletions>>,
           ~Storing(tasks[t]), Storing(tasks'[t]), Claim(tasks'[t], conv) = 1,
           conv.is => Lost(conv.topic, topics),
           \/ /\ faults' = faults
              /\ \E j \in Topics : /\ tasks'[t].made = j /\ topics[j] = "none" /\ topics'[j] = "open"
                                   /\ \A i \in Topics \ {j} : topics'[i] = topics[i]
           \/ faults' = faults + 1 /\ tasks'[t].made = 0 /\ topics' = topics
    PROVE  Counted'
<1>1. PICK u \in Tasks : u # t /\ \A v \in Tasks : v = t \/ v = u
    BY TwoTasks
<1>2. tasks'[u] = tasks[u] /\ tasks[u].made \in Topics \cup {0}
    BY <1>1, InsideTyped DEF Moved
<1>3. /\ Storing(tasks[u]) /\ tasks[u].made # 0 => topics[tasks[u].made] # "none"
      /\ conv.is /\ conv.topic # 0 => topics[conv.topic] # "none"
    BY <1>1, InsideTyped DEF Fits, Storing
<1>4. /\ Claim(tasks[u], conv) \in {0, 1}
      /\ Pledge(tasks[u], topics) \in {0, 2}
      /\ Claim(tasks[t], conv) = 0 /\ Pledge(tasks[t], topics) = 0
    BY ClaimTyped DEF Claim, Pledge, Storing
<1>5. \A j \in Topics : topics'[j] = "gone" <=> topics[j] = "gone"
    OBVIOUS
<1>6. Pledge(tasks'[u], topics') = Pledge(tasks[u], topics)
    BY <1>2, <1>5 DEF Pledge, Lost
<1>7. conv.is => Lost(conv.topic, topics')
    BY <1>5, InsideTyped DEF Lost
<1>8. Allowed(conv', topics', tasks'[t], tasks'[u]) = Allowed(conv, topics, tasks[t], tasks[u]) - 1
    BY <1>2, <1>4, <1>7 DEF Allowed
<1>9. Allowed(conv, topics, tasks[t], tasks[u]) \in Int
    BY <1>4 DEF Allowed
<1>10. CASE /\ faults' = faults
            /\ \E j \in Topics : /\ tasks'[t].made = j /\ topics[j] = "none" /\ topics'[j] = "open"
                                 /\ \A i \in Topics \ {j} : topics'[i] = topics[i]
  <2>1. PICK j \in Topics : /\ tasks'[t].made = j /\ topics[j] = "none" /\ topics'[j] = "open"
                            /\ \A i \in Topics \ {j} : topics'[i] = topics[i]
      BY <1>10
  <2>2. j # 0
      BY DEF Topics
  <2>3. Own'
    <3>1. conv.is => j # conv.topic
        BY <1>3, <2>1, <2>2
    <3>2. Storing(tasks[u]) => tasks[u].made # j
        BY <1>3, <2>1, <2>2
    <3> QED BY <1>1, <1>2, <2>1, <3>1, <3>2 DEF Counted, Own
  <2>4. Cardinality(Live') <= Cardinality(Live) + 1
    <3>1. Live' = Live \cup {j} /\ j \notin Live
        BY <2>1 DEF Live
    <3>2. Cardinality(Live \cup {j}) = Cardinality(Live) + 1
        BY <3>1, LiveTyped, FS_AddElement
    <3> QED BY <3>1, <3>2, LiveTyped
  <2>5. Pledge(tasks'[t], topics') = 0
      BY <2>1, <2>2 DEF Pledge, Lost
  <2>6. Spare(conv', topics', tasks'[t], tasks'[u])
          <= Spare(conv, topics, tasks[t], tasks[u]) + (-1)
      BY <1>4, <1>6, <1>8, <1>9, <2>5 DEF Spare
  <2>7. deletions' + faults' >= deletions + faults + 1 + (-1) /\ 1 \in Int /\ -1 \in Int
      BY <1>10, LiveTyped
  <2>8. \A v, w \in Tasks : v # w => Paid(v, w)'
      BY <1>1, <2>4, <2>6, <2>7, Balance
  <2> QED BY <2>3, <2>8 DEF Counted
<1>11. CASE faults' = faults + 1 /\ tasks'[t].made = 0 /\ topics' = topics
  <2>1. Own'
      BY <1>1, <1>2, <1>11 DEF Counted, Own
  <2>2. Cardinality(Live') <= Cardinality(Live) + 0
    <3>1. Live' = Live
        BY <1>11 DEF Live
    <3> QED BY <3>1, LiveTyped
  <2>3. Pledge(tasks'[t], topics') = 2
      BY <1>11 DEF Pledge, Lost
  <2>4. Spare(conv', topics', tasks'[t], tasks'[u])
          <= Spare(conv, topics, tasks[t], tasks[u]) + 1
      BY <1>4, <1>6, <1>8, <1>9, <2>3 DEF Spare
  <2>5. deletions' + faults' >= deletions + faults + 0 + 1 /\ 1 \in Int /\ 0 \in Int
      BY <1>11, LiveTyped
  <2>6. \A v, w \in Tasks : v # w => Paid(v, w)'
      BY <1>1, <2>2, <2>4, <2>5, Balance
  <2> QED BY <2>1, <2>6 DEF Counted
<1> QED BY <1>10, <1>11

\* What was made is stored: the conversation has a topic, or may make others.
LEMMA CountStore ==
    ASSUME IInv, IInv', Counted, NEW t \in Tasks, Moved(t), UNCHANGED <<topics, deletions, faults>>,
           Storing(tasks[t]), ~Storing(tasks'[t]), conv'.is, conv'.topic = tasks[t].made,
           conv.is \/ tasks[t].pc = "create"
    PROVE  Counted'
<1>1. PICK u \in Tasks : u # t /\ \A v \in Tasks : v = t \/ v = u
    BY TwoTasks
<1>2. tasks'[u] = tasks[u]
    BY <1>1 DEF Moved
<1>3. Own'
  <2>1. Storing(tasks[u]) /\ tasks[u].made # 0 => tasks[u].made # conv'.topic
      BY <1>1 DEF Counted, Own
  <2> QED BY <1>1, <1>2, <2>1 DEF Own
<1>4. Cardinality(Live') <= Cardinality(Live) + 0
  <2>1. Live' = Live
      BY DEF Live
  <2> QED BY <2>1, LiveTyped
<1>5. /\ Claim(tasks'[u], conv') \in {0, 1} /\ Pledge(tasks[u], topics) \in {0, 2}
      /\ Pledge(tasks[t], topics) \in {0, 2}
      /\ Claim(tasks'[t], conv') = 0 /\ Pledge(tasks'[t], topics') = 0
      /\ Pledge(tasks'[u], topics') = Pledge(tasks[u], topics)
    BY <1>2, ClaimTyped DEF Claim, Pledge, Storing
<1>6. Allowed(conv, topics, tasks[t], tasks[u]) \in {0, 1, 2}
    BY <1>1, AllowedTyped
<1>7. Allowed(conv', topics', tasks'[t], tasks'[u]) <= Pledge(tasks[t], topics)
    BY <1>5 DEF Allowed, Pledge
<1>8. Allowed(conv', topics', tasks'[t], tasks'[u]) \in Int
    BY <1>5 DEF Allowed
<1>9. Spare(conv', topics', tasks'[t], tasks'[u]) <= Spare(conv, topics, tasks[t], tasks[u]) + 0
    BY <1>5, <1>6, <1>7, <1>8 DEF Spare
<1>10. deletions' + faults' >= deletions + faults + 0 + 0 /\ 0 \in Int
    BY LiveTyped
<1>11. \A v, w \in Tasks : v # w => Paid(v, w)'
    BY <1>1, <1>4, <1>9, <1>10, Balance
<1> QED BY <1>3, <1>11 DEF Counted

\* The user deletes a topic: two tasks may replace it.
LEMMA CountDelete ==
    ASSUME IInv, IInv', Counted, NEW k \in Topics, DeleteTopic(k)
    PROVE  Counted'
<1>1. PICK t \in Tasks, u \in Tasks : u # t /\ \A v \in Tasks : v = t \/ v = u
    BY TwoTasks
<1>2. /\ topics[k] \in {"open", "closed"} /\ UNCHANGED <<conv, tasks, faults>>
      /\ deletions' = deletions + 1 /\ k # 0
      /\ \A j \in Topics : topics'[j] = IF j = k THEN "gone" ELSE topics[j]
    BY InsideTyped DEF DeleteTopic, Topics, IInv, Inside, ConvOK
<1>3. Own'
    BY <1>2 DEF Counted, Own
<1>4. Cardinality(Live') <= Cardinality(Live) + (-1)
  <2>1. Live' = Live \ {k} /\ k \in Live
      BY <1>2 DEF Live
  <2>2. Cardinality(Live \ {k}) = Cardinality(Live) - 1
      BY <2>1, LiveTyped, FS_RemoveElement
  <2> QED BY <2>1, <2>2, LiveTyped
<1>5. /\ tasks[t].made \in Topics \cup {0} /\ tasks[u].made \in Topics \cup {0}
      /\ conv.topic \in Topics \cup {0}
    BY InsideTyped
<1>6. /\ Claim(tasks[t], conv) \in {0, 1} /\ Claim(tasks[u], conv) \in {0, 1}
      /\ Pledge(tasks[t], topics) \in {0, 2} /\ Pledge(tasks[u], topics) \in {0, 2}
      /\ Pledge(tasks[t], topics') \in {0, 2} /\ Pledge(tasks[u], topics') \in {0, 2}
    BY ClaimTyped
<1>7. Allowed(conv, topics, tasks[t], tasks[u]) \in {0, 1, 2}
    BY <1>1, AllowedTyped
<1>8. /\ Storing(tasks[t]) /\ Storing(tasks[u]) /\ tasks[t].made # 0 => tasks[t].made # tasks[u].made
      /\ conv.is /\ Storing(tasks[t]) /\ tasks[t].made # 0 => tasks[t].made # conv.topic
      /\ conv.is /\ Storing(tasks[u]) /\ tasks[u].made # 0 => tasks[u].made # conv.topic
    BY <1>1 DEF Counted, Own
<1>9. /\ Pledge(tasks[t], topics') = Pledge(tasks[t], topics) \/ (Storing(tasks[t]) /\ tasks[t].made = k)
      /\ Pledge(tasks[u], topics') = Pledge(tasks[u], topics) \/ (Storing(tasks[u]) /\ tasks[u].made = k)
    BY <1>2, <1>5 DEF Pledge, Lost
<1>10. conv.is /\ Lost(conv.topic, topics') => Lost(conv.topic, topics) \/ conv.topic = k
    BY <1>2, <1>5 DEF Lost
<1>11. Lost(conv.topic, topics) => Lost(conv.topic, topics')
    BY <1>2, <1>5 DEF Lost
<1>12. \/ Allowed(conv, topics', tasks[t], tasks[u]) = Allowed(conv, topics, tasks[t], tasks[u])
       \/ /\ conv.is /\ conv.topic = k
          /\ Allowed(conv, topics', tasks[t], tasks[u]) \in {0, 1, 2}
    BY <1>6, <1>10, <1>11 DEF Allowed
<1>13. Spare(conv, topics', tasks[t], tasks[u]) <= Spare(conv, topics, tasks[t], tasks[u]) + 2
  <2>1. CASE conv.is /\ conv.topic = k
    <3>1. /\ Pledge(tasks[t], topics') = Pledge(tasks[t], topics)
          /\ Pledge(tasks[u], topics') = Pledge(tasks[u], topics)
        BY <1>2, <1>8, <1>9, <2>1
    <3>2. Allowed(conv, topics', tasks[t], tasks[u]) \in {0, 1, 2}
        BY <1>7, <1>12
    <3> QED BY <1>6, <1>7, <3>1, <3>2 DEF Spare
  <2>2. CASE ~(conv.is /\ conv.topic = k)
    <3>1. Allowed(conv, topics', tasks[t], tasks[u]) = Allowed(conv, topics, tasks[t], tasks[u])
        BY <1>12, <2>2
    <3>2. \/ Pledge(tasks[t], topics') = Pledge(tasks[t], topics)
          \/ Pledge(tasks[u], topics') = Pledge(tasks[u], topics)
        BY <1>2, <1>8, <1>9
    <3> QED BY <1>6, <1>7, <3>1, <3>2 DEF Spare
  <2> QED BY <2>1, <2>2
<1>14. deletions' + faults' >= deletions + faults + (-1) + 2 /\ -1 \in Int /\ 2 \in Int
    BY <1>2, LiveTyped
<1>15. Spare(conv', topics', tasks'[t], tasks'[u]) <= Spare(conv, topics, tasks[t], tasks[u]) + 2
    BY <1>2, <1>13
<1>16. \A v, w \in Tasks : v # w => Paid(v, w)'
    BY <1>1, <1>4, <1>14, <1>15, Balance
<1> QED BY <1>3, <1>16 DEF Counted

\* A crash costs a failure for every task that was at work.
LEMMA CountCrash ==
    ASSUME IInv, IInv', Counted, Crash
    PROVE  Counted'
<1>1. PICK t \in Tasks, u \in Tasks : u # t /\ \A v \in Tasks : v = t \/ v = u
    BY TwoTasks
<1> DEFINE S == {v \in Tasks : tasks[v].pc # "idle"}
           n == Cardinality(S)
<1>2. UNCHANGED <<conv, topics, deletions>> /\ faults' = faults + n
    BY DEF Crash
<1>3. tasks'[t].pc = "idle" /\ tasks'[u].pc = "idle" /\ \A v \in Tasks : ~Storing(tasks'[v])
    BY CrashTasks DEF Storing
<1>4. Own'
    BY <1>3 DEF Own
<1>5. Cardinality(Live') <= Cardinality(Live) + 0
  <2>1. Live' = Live
      BY <1>2 DEF Live
  <2> QED BY <2>1, LiveTyped
<1>6. /\ Claim(tasks[t], conv) \in {0, 1} /\ Claim(tasks[u], conv) \in {0, 1}
      /\ Pledge(tasks[t], topics) \in {0, 2} /\ Pledge(tasks[u], topics) \in {0, 2}
    BY ClaimTyped
<1>7. IsFiniteSet(S) /\ n \in Nat
  <2>1. Tasks = {"loop"} \cup {"chat"} /\ IsFiniteSet({"loop"}) /\ IsFiniteSet({"chat"})
      BY FS_Singleton DEF Tasks
  <2>2. IsFiniteSet(Tasks)
      BY <2>1, FS_Union
  <2> QED BY <2>2, FS_Subset, FS_CardinalityType
<1>8. n >= Claim(tasks[t], conv) + Claim(tasks[u], conv)
  <2>1. /\ Claim(tasks[t], conv) = 1 => t \in S
        /\ Claim(tasks[u], conv) = 1 => u \in S
      BY DEF Claim
  <2>2. CASE t \in S /\ u \in S
    <3>1. S = {t} \cup {u} /\ u \notin {t}
        BY <1>1, <2>2
    <3>2. IsFiniteSet({t}) /\ Cardinality({t}) = 1
        BY FS_Singleton
    <3>3. Cardinality({t} \cup {u}) = Cardinality({t}) + 1
        BY <3>1, <3>2, FS_AddElement
    <3>4. n = 2
        BY <3>1, <3>2, <3>3
    <3> HIDE DEF n, S
    <3> QED BY <1>6, <3>4
  <2>3. CASE S # {}
    <3>1. n # 0
        BY <1>7, <2>3, FS_EmptySet
    <3> QED BY <1>6, <1>7, <2>1, <2>2, <3>1
  <2>4. CASE S = {}
    <3> QED BY <1>6, <1>7, <2>1, <2>4
  <2> QED BY <2>3, <2>4
<1>9. /\ Claim(tasks'[t], conv) = 0 /\ Claim(tasks'[u], conv) = 0
      /\ Pledge(tasks'[t], topics) = 0 /\ Pledge(tasks'[u], topics) = 0
    BY <1>3 DEF Claim, Pledge
<1>10. /\ Allowed(conv, topics, tasks'[t], tasks'[u])
            <= Allowed(conv, topics, tasks[t], tasks[u]) + Claim(tasks[t], conv) + Claim(tasks[u], conv)
       /\ Allowed(conv, topics, tasks'[t], tasks'[u]) \in Int
       /\ Allowed(conv, topics, tasks[t], tasks[u]) \in Int
    BY <1>6, <1>9 DEF Allowed
<1> HIDE DEF n, S
<1>11. Spare(conv, topics, tasks'[t], tasks'[u]) <= Spare(conv, topics, tasks[t], tasks[u]) + n
    BY <1>6, <1>7, <1>8, <1>9, <1>10 DEF Spare
<1>12. Spare(conv', topics', tasks'[t], tasks'[u]) <= Spare(conv, topics, tasks[t], tasks[u]) + n
    BY <1>2, <1>11
<1>13. deletions' + faults' >= deletions + faults + 0 + n /\ 0 \in Int /\ n \in Int
    BY <1>2, <1>7, LiveTyped
<1>14. \A v, w \in Tasks : v # w => Paid(v, w)'
    BY <1>1, <1>5, <1>12, <1>13, Balance
<1> QED BY <1>4, <1>14 DEF Counted

LEMMA Unharmed ==
    ASSUME UNCHANGED unharmed \/ UNCHANGED losses
    PROVE  UNCHANGED <<deletions, faults>>
  BY DEF unharmed, losses

\* A task's step.
LEMMA CountTopic ==
    ASSUME IInv, IInv', Restores, Counted, NEW t \in Tasks, Topic(t)
    PROVE  Counted'
<1>1. UNCHANGED topics => SameTopics
    BY DEF SameTopics
<1>2. Moved(t) /\ deletions' = deletions /\ faults \in Nat
    BY TopicMoves, LiveTyped
<1>3. CASE Reconcile(t)
  <2>1. UNCHANGED <<conv, topics>>
      BY <1>3, ReconcileTopic DEF telegram
  <2>2. faults' = faults /\ ~Storing(tasks[t]) /\ ~Storing(tasks'[t])
      BY <1>3, ReconcileTopic, Unharmed DEF Storing, Harmless
  <2> QED BY <1>1, <1>2, <2>1, <2>2, CountKept
<1>4. CASE Edit(t)
  <2>1. UNCHANGED <<conv, topics>>
      BY <1>4, EditTopic
  <2>2. faults' = faults /\ ~Storing(tasks[t]) /\ ~Storing(tasks'[t])
      BY <1>4, EditTopic, Unharmed DEF Storing
  <2> QED BY <1>1, <1>2, <2>1, <2>2, CountKept
<1>5. ASSUME Leaves(tasks[t], tasks'[t]) PROVE ~Storing(tasks'[t])
    BY <1>5, InsideTyped DEF Leaves, Storing, Task
<1>6. CASE SetName(t)
  <2>1. UNCHANGED topics /\ conv'.is = conv.is /\ conv'.topic = conv.topic
      BY <1>6, SetNameTopic
  <2>2. faults' = faults /\ ~Storing(tasks[t]) /\ ~Storing(tasks'[t])
      BY <1>5, <1>6, SetNameTopic, Unharmed DEF Storing
  <2> QED BY <1>1, <1>2, <2>1, <2>2, CountKept
<1>7. CASE Reopen(t)
  <2>1. UNCHANGED topics /\ conv'.is = conv.is /\ conv'.topic = conv.topic
      BY <1>7, ReopenParts
  <2>2. faults' = faults /\ ~Storing(tasks[t]) /\ ~Storing(tasks'[t])
      BY <1>7, ReopenParts, Unharmed DEF Storing
  <2> QED BY <1>1, <1>2, <2>1, <2>2, CountKept
<1>8. CASE ReopenTopic(t)
  <2>1. SameTopics
      BY <1>8, ReopenTopicParts DEF SameTopics
  <2>2. conv' = conv
      BY <1>8, ReopenTopicParts
  <2>3. faults' = faults /\ ~Storing(tasks[t]) /\ ~Storing(tasks'[t])
      BY <1>8, ReopenTopicParts, Unharmed DEF Storing
  <2> QED BY <1>2, <2>1, <2>2, <2>3, CountKept
<1>9. CASE Ensure(t)
  <2>1. UNCHANGED <<conv, topics>>
      BY <1>9, EnsureTopic DEF telegram
  <2>2. faults' = faults /\ ~Storing(tasks[t]) /\ ~Storing(tasks'[t])
      BY <1>5, <1>9, EnsureTopic, Unharmed DEF Storing
  <2> QED BY <1>1, <1>2, <2>1, <2>2, CountKept
<1>10. CASE Lock(t)
  <2>1. UNCHANGED <<conv, topics>>
      BY <1>10, LockTopic
  <2>2. faults' = faults /\ ~Storing(tasks[t]) /\ ~Storing(tasks'[t])
      BY <1>5, <1>10, LockTopic, Unharmed DEF Storing
  <2> QED BY <1>1, <1>2, <2>1, <2>2, CountKept
<1>11. CASE MakeTopic(t)
  <2>1. /\ ~Storing(tasks[t]) /\ Storing(tasks'[t]) /\ Claim(tasks'[t], conv) = 1
        /\ UNCHANGED conv /\ faults' = faults
      BY <1>11, MakeTopicParts, Unharmed DEF Storing, Claim
  <2>2. ~conv.is
      BY <1>11, MakeTopicParts, InsideTyped DEF Fits
  <2>3. \E j \in Topics : /\ tasks'[t].made = j /\ topics[j] = "none" /\ topics'[j] = "open"
                          /\ \A i \in Topics \ {j} : topics'[i] = topics[i]
      BY <1>11, MakeTopicParts DEF Restores
  <2> QED BY <1>2, <2>1, <2>2, <2>3, CountMake
<1>12. CASE Create(t)
  <2>1. /\ UNCHANGED topics /\ faults' = faults /\ Storing(tasks[t]) /\ tasks[t].pc = "create"
        /\ ~Storing(tasks'[t]) /\ conv'.is /\ conv'.topic = tasks[t].made
      BY <1>5, <1>12, CreateParts, Unharmed DEF Storing
  <2> QED BY <1>2, <2>1, CountStore
<1>13. CASE Forward(t)
  <2>1. UNCHANGED <<conv, topics>>
      BY <1>13, ForwardParts
  <2>2. faults' = faults /\ ~Storing(tasks[t]) /\ ~Storing(tasks'[t])
      BY <1>13, ForwardParts, Unharmed DEF Storing
  <2> QED BY <1>1, <1>2, <2>1, <2>2, CountKept
<1>14. CASE Send(t)
  <2>1. UNCHANGED <<conv, topics>>
      BY <1>14, SendParts
  <2>2. faults' = faults /\ ~Storing(tasks[t]) /\ ~Storing(tasks'[t])
      BY <1>5, <1>14, SendParts, Unharmed DEF Storing
  <2> QED BY <1>1, <1>2, <2>1, <2>2, CountKept
<1>15. CASE Recreate(t)
  <2>1. tasks[t].pc = "recreate" /\ UNCHANGED conv /\ faults' = faults /\ ~Storing(tasks[t])
      BY <1>15, RecreateParts, Unharmed DEF Storing
  <2>2. CASE Sent(t) /\ UNCHANGED <<topics, titles>>
    <3>1. ~Storing(tasks'[t])
        BY <1>5, <2>1, <2>2, SentParts
    <3> QED BY <1>1, <1>2, <2>1, <2>2, <3>1, CountKept
  <2>3. CASE /\ conv.topic \in {0, tasks[t].conv.topic}
             /\ tasks'[t].pc = "map" /\ tasks'[t].conv = tasks[t].conv
             /\ \E j \in Topics : /\ tasks'[t].made = j
                                  /\ topics'[j] = "open"
                                  /\ \A i \in Topics \ {j} : topics'[i] = topics[i]
                                  /\ Packed => topics[j] = "none"
    <3>1. Storing(tasks'[t]) /\ Claim(tasks'[t], conv) = 1
        BY <2>3 DEF Storing, Claim
    <3>2. conv.is => Lost(conv.topic, topics)
        BY <2>1, <2>3 DEF Restores, Restoring, Follows, Lost
    <3>3. \E j \in Topics : /\ tasks'[t].made = j /\ topics[j] = "none" /\ topics'[j] = "open"
                            /\ \A i \in Topics \ {j} : topics'[i] = topics[i]
        BY <2>3 DEF Restores
    <3> QED BY <1>2, <2>1, <3>1, <3>2, <3>3, CountMake
  <2> QED BY <1>15, <2>2, <2>3, RecreateParts
<1>16. CASE MapTopic(t)
  <2>1. /\ UNCHANGED topics /\ faults' = faults /\ Storing(tasks[t]) /\ tasks[t].pc = "map"
        /\ Sent(t) /\ conv'.is = conv.is /\ conv'.topic = tasks[t].made
      BY <1>16, MapParts, Unharmed DEF Storing
  <2>2. ~Storing(tasks'[t]) /\ conv.is
      BY <1>5, <2>1, SentParts, InsideTyped DEF Fits, Holding
  <2> QED BY <1>2, <2>1, <2>2, CountStore
<1>17. CASE CloseTopic(t)
  <2>1. SameTopics
      BY <1>17, CloseTopicParts DEF SameTopics
  <2>2. conv' = conv
      BY <1>17, CloseTopicParts
  <2>3. faults' = faults /\ ~Storing(tasks[t]) /\ ~Storing(tasks'[t])
      BY <1>17, CloseTopicParts, Unharmed DEF Storing
  <2> QED BY <1>2, <2>1, <2>2, <2>3, CountKept
<1>18. CASE Close(t)
  <2>1. UNCHANGED topics /\ conv'.is = conv.is /\ conv'.topic = conv.topic
      BY <1>18, CloseParts
  <2>2. faults' = faults /\ ~Storing(tasks[t]) /\ ~Storing(tasks'[t])
      BY <1>5, <1>18, CloseParts, Unharmed DEF Storing
  <2> QED BY <1>1, <1>2, <2>1, <2>2, CountKept
<1>19. CASE Ignored(t)
  <2>1. UNCHANGED <<conv, topics>> /\ faults' = faults + 1
      BY <1>19, IgnoredParts
  <2>2. CASE tasks[t].pc = "topic" /\ tasks'[t].pc = "create" /\ tasks'[t].made = 0
    <3>1. ~Storing(tasks[t]) /\ Storing(tasks'[t]) /\ Claim(tasks'[t], conv) = 1
        BY <2>2 DEF Storing, Claim
    <3>2. ~conv.is
        BY <2>2, InsideTyped DEF Fits
    <3> QED BY <1>2, <2>1, <2>2, <3>1, <3>2, CountMake
  <2>3. CASE /\ tasks[t].pc = "recreate" /\ tasks'[t].pc = "map" /\ tasks'[t].made = 0
             /\ conv.topic \notin Topics \ {tasks[t].conv.topic} /\ tasks'[t].conv = tasks[t].conv
    <3>1. conv.topic \in {0, tasks[t].conv.topic}
        BY <2>3, InsideTyped
    <3>2. ~Storing(tasks[t]) /\ Storing(tasks'[t]) /\ Claim(tasks'[t], conv) = 1
        BY <2>3, <3>1 DEF Storing, Claim
    <3>3. conv.is => Lost(conv.topic, topics)
        BY <2>3, <3>1 DEF Restores, Restoring, Follows, Lost
    <3> QED BY <1>2, <2>1, <2>3, <3>2, <3>3, CountMake
  <2>4. CASE \/ tasks'[t].pc \in {"name", "close", "idle"}
             \/ Leaves(tasks[t], tasks'[t])
    <3>1. ~Storing(tasks'[t])
        BY <1>5, <2>4 DEF Storing
    <3> QED BY <1>1, <1>2, <2>1, <3>1, CountKept
  <2> QED BY <1>19, <2>2, <2>3, <2>4, IgnoredParts
<1>20. CASE GiveUp(t)
  <2>1. UNCHANGED <<conv, topics>> /\ faults' = faults + 1
      BY <1>20, GiveUpParts
  <2>2. ~Storing(tasks'[t])
      BY <1>5, <1>20, GiveUpParts DEF Storing
  <2> QED BY <1>1, <1>2, <2>1, <2>2, CountKept
<1> QED BY <1>3, <1>4, <1>6, <1>7, <1>8, <1>9, <1>10, <1>11, <1>12, <1>13, <1>14, <1>15, <1>16,
           <1>17, <1>18, <1>19, <1>20 DEF Topic

LEMMA CountedInit == Init => Counted
<1> SUFFICES ASSUME Init PROVE Counted
    OBVIOUS
<1>1. \A t \in Tasks : tasks[t].pc = "idle"
    BY RestTask DEF Init
<1>2. ~conv.is /\ deletions = 0 /\ faults = 0
    BY DEF Init, NoConv
<1>3. Live = {}
    BY DEF Init, Live
<1>4. Cardinality(Live) = 0
    BY <1>3, FS_EmptySet
<1>5. ASSUME NEW t \in Tasks PROVE Claim(tasks[t], conv) = 0 /\ Pledge(tasks[t], topics) = 0
    BY <1>1 DEF Claim, Pledge, Storing
<1>6. ASSUME NEW t \in Tasks, NEW u \in Tasks PROVE Paid(t, u)
  <2>1. Spare(conv, topics, tasks[t], tasks[u]) = 1
      BY <1>2, <1>5 DEF Spare, Allowed
  <2> QED BY <1>2, <1>4, <2>1 DEF Paid
<1> QED BY <1>1, <1>6 DEF Counted, Own, Storing

LEMMA CountedNext == IInv /\ Restores /\ Counted /\ [Next]_vars => Counted'
<1> SUFFICES ASSUME IInv, Restores, Counted, [Next]_vars PROVE Counted'
    OBVIOUS
<1>1. IInv' /\ faults \in Nat
    BY IInvNext, LiveTyped
<1>2. CASE UNCHANGED vars \/ Server \/ Connect \/ Engine
  <2>1. UNCHANGED <<conv, topics, tasks, deletions>>
      BY <1>2 DEF vars, Server, Rename, Move, Post, Drop, Connect, Engine, FetchList, WriteList,
         OnJoined, OnRemoved, OnUpdated, OnMessage, telegram, losses, Error, Fault
  <2>2. faults' = faults \/ faults' = faults + 1
      BY <1>2 DEF vars, Server, Rename, Move, Post, Drop, Connect, Engine, FetchList, WriteList,
         OnJoined, OnRemoved, OnUpdated, OnMessage, losses, Error, Fault
  <2> QED BY <2>1, <2>2, CountSame
<1>3. CASE TakeEvent
  <2>1. /\ UNCHANGED <<conv, topics, deletions>> /\ tasks["loop"].pc = "idle"
        /\ faults' = faults \/ faults' = faults + 1
      BY <1>3 DEF TakeEvent, telegram, losses, Error, Fault
  <2>2. CASE UNCHANGED tasks
      BY <2>1, <2>2, CountSame
  <2>3. CASE Become("loop", Begun(Head(events)))
    <3>1. Head(events) \in SyncEvents
        BY <1>3, TailTyped DEF IInv, Outside, TakeEvent
    <3>2. Moved("loop") /\ Harmless(tasks'["loop"])
        BY <2>3, <3>1, TakeParts
    <3> QED BY <1>1, <2>1, <3>2, TwoTasks, CountKept DEF Harmless, Storing, SameTopics
  <2> QED BY <1>3, <2>2, <2>3 DEF TakeEvent
<1>4. CASE Lag
  <2>1. /\ UNCHANGED <<conv, topics, deletions>> /\ faults' = faults + 1
        /\ Moved("loop") /\ Harmless(tasks'["loop"])
      BY <1>4, ReconcileParts, TwoTasks DEF Lag, telegram, Fault
  <2> QED BY <1>1, <2>1, TwoTasks, CountKept DEF Harmless, Storing, SameTopics
<1>5. CASE Commands
  <2>1. group' \in Group
      BY <1>1 DEF IInv, Outside
  <2>2. /\ UNCHANGED <<conv, topics, deletions, faults>> /\ Moved("chat") /\ tasks["chat"].pc = "idle"
        /\ tasks'["chat"].pc \in {"fetched", "patched", "left"}
      BY <1>5, <2>1, CommandParts DEF telegram, losses
  <2> QED BY <1>1, <2>2, TwoTasks, CountKept DEF Storing, SameTopics
<1>6. CASE Writes
  <2>1. /\ UNCHANGED <<conv, topics, deletions, faults>> /\ Moved("chat") /\ Harmless(tasks'["chat"])
        /\ tasks["chat"].pc \in {"fetched", "patched", "left"}
      BY <1>6, WritesParts DEF telegram, losses
  <2> QED BY <1>1, <2>1, TwoTasks, CountKept DEF Harmless, Storing, SameTopics
<1>7. CASE Crash
    BY <1>1, <1>7, CountCrash
<1>8. ASSUME NEW t \in Tasks, Topic(t) PROVE Counted'
    BY <1>1, <1>8, CountTopic
<1>9. ASSUME NEW k \in Topics, DeleteTopic(k) PROVE Counted'
    BY <1>1, <1>9, CountDelete
<1> QED BY <1>2, <1>3, <1>4, <1>5, <1>6, <1>7, <1>8, <1>9 DEF Next

LEMMA CountedFollows == IInv /\ Counted => OneTopic
<1> SUFFICES ASSUME IInv, Counted PROVE OneTopic
    OBVIOUS
<1>1. PICK t \in Tasks, u \in Tasks : u # t
    BY TwoTasks
<1>2. /\ Spare(conv, topics, tasks[t], tasks[u]) \in Nat
      /\ Cardinality(Live) + Spare(conv, topics, tasks[t], tasks[u]) <= 1 + deletions + faults
    BY <1>1, AllowedTyped DEF Counted, Paid
<1> QED BY <1>2, LiveTyped DEF OneTopic

\* Every topic that is left over was paid for by a topic that the user deleted or by a failed
\* call, of which a crash has one for each task (create_conversation's `?`, recreate_topic).
THEOREM OneTopicForever == Spec => []OneTopic
<1>1. Init => IInv /\ Restores /\ Counted
    BY IInvInit, RestoresInit, CountedInit
<1>2. IInv /\ Restores /\ Counted /\ [Next]_vars => (IInv /\ Restores /\ Counted)'
    BY IInvNext, CountedNext
<1> QED BY <1>1, <1>2, CountedFollows, PTL DEF Spec

-----------------------------------------------------------------------------
(* What waits in the queues *)

\* What waits in a queue of frames, or of events.
Has(q, k) == \E i \in DOMAIN q : q[i].kind = k
Waits(q, e) == \E i \in DOMAIN q : q[i] = e

LatestOf(q) == q[Len(q)]

LEMMA AppendParts ==
    ASSUME NEW S, NEW q \in Seq(S), NEW e \in S
    PROVE  LET r == Append(q, e)
               n == Len(q) + 1
           IN  /\ n \in Nat /\ n \in DOMAIN r /\ r[n] = e
               /\ \A i \in DOMAIN q : i \in DOMAIN r /\ i \in Nat /\ i < n /\ r[i] = q[i]
               /\ \A i \in DOMAIN r : i = n \/ i \in DOMAIN q
<1>1. Len(q) \in Nat /\ DOMAIN q = 1..Len(q)
    BY LenProperties
<1>2. /\ DOMAIN Append(q, e) = 1..(Len(q) + 1)
      /\ \A i \in 1..Len(q) : Append(q, e)[i] = q[i]
      /\ Append(q, e)[Len(q) + 1] = e
  <2>1. /\ Append(q, e) \in Seq(S) /\ Len(Append(q, e)) = Len(q) + 1
        /\ \A i \in 1..Len(q) : Append(q, e)[i] = q[i]
        /\ Append(q, e)[Len(q) + 1] = e
      BY AppendProperties
  <2>2. DOMAIN Append(q, e) = 1..Len(Append(q, e))
      BY <2>1, LenProperties
  <2> QED BY <2>1, <2>2
<1> QED BY <1>1, <1>2

LEMMA TailParts ==
    ASSUME NEW S, NEW q \in Seq(S), q # <<>>
    PROVE  LET r == Tail(q)
           IN  /\ Head(q) = q[1] /\ 1 \in DOMAIN q
               /\ \A i \in DOMAIN q : i \in Nat /\ i >= 1
               /\ \A i \in DOMAIN r : i \in Nat /\ i + 1 \in DOMAIN q /\ i + 1 > 1 /\ r[i] = q[i + 1]
               /\ \A i \in DOMAIN q : i > 1 => i - 1 \in DOMAIN r /\ r[i - 1] = q[i]
<1>1. Len(q) \in Nat /\ DOMAIN q = 1..Len(q) /\ Len(q) >= 1
  <2>1. Len(q) \in Nat /\ DOMAIN q = 1..Len(q)
      BY LenProperties
  <2>2. Len(q) # 0
      BY EmptySeq
  <2> QED BY <2>1, <2>2
<1>2. Head(q) = q[1] /\ Len(Tail(q)) = Len(q) - 1 /\ \A i \in 1..Len(Tail(q)) : Tail(q)[i] = q[i + 1]
    BY HeadTailProperties
<1>3. DOMAIN Tail(q) = 1..(Len(q) - 1)
  <2>1. DOMAIN Tail(q) = 1..Len(Tail(q))
      BY HeadTailProperties, LenProperties
  <2> QED BY <1>2, <2>1
<1>4. \A i \in 1..(Len(q) - 1) : i \in Nat /\ i + 1 \in 1..Len(q) /\ i + 1 > 1
    BY <1>1
<1>5. \A i \in 1..Len(q) : i > 1 => i - 1 \in 1..(Len(q) - 1) /\ i - 1 + 1 = i
    BY <1>1
<1>6. \A i \in DOMAIN q : i > 1 => i - 1 \in DOMAIN Tail(q) /\ Tail(q)[i - 1] = q[i]
  <2> TAKE i \in DOMAIN q
  <2> HAVE i > 1
  <2>1. i - 1 \in 1..(Len(q) - 1) /\ i - 1 + 1 = i
      BY <1>1, <1>5
  <2>2. Tail(q)[i - 1] = q[i - 1 + 1]
      BY <1>2, <2>1
  <2> QED BY <1>3, <2>1, <2>2
<1> QED BY <1>1, <1>2, <1>3, <1>4, <1>6

\* What is added, or read, is all that changes.
LEMMA HasParts ==
    ASSUME NEW q \in Seq(Frame), NEW e \in Frame, NEW k
    PROVE  /\ Has(Append(q, e), k) <=> Has(q, k) \/ e.kind = k
           /\ q # <<>> => (Has(q, k) <=> Head(q).kind = k \/ Has(Tail(q), k))
<1>1. Has(Append(q, e), k) <=> Has(q, k) \/ e.kind = k
  <2> DEFINE r == Append(q, e)
             n == Len(q) + 1
  <2>1. /\ n \in DOMAIN r /\ r[n] = e
        /\ \A i \in DOMAIN q : i \in DOMAIN r /\ r[i] = q[i]
        /\ \A i \in DOMAIN r : i = n \/ i \in DOMAIN q
      BY AppendParts
  <2> HIDE DEF r, n
  <2>2. Has(r, k) <=> Has(q, k) \/ e.kind = k
      BY <2>1 DEF Has
  <2> QED BY <2>2 DEF r
<1>2. ASSUME q # <<>> PROVE Has(q, k) <=> Head(q).kind = k \/ Has(Tail(q), k)
  <2> DEFINE r == Tail(q)
  <2>1. /\ Head(q) = q[1] /\ 1 \in DOMAIN q
        /\ \A i \in DOMAIN q : i \in Nat /\ i >= 1
        /\ \A i \in DOMAIN r : i + 1 \in DOMAIN q /\ r[i] = q[i + 1]
        /\ \A i \in DOMAIN q : i > 1 => i - 1 \in DOMAIN r /\ r[i - 1] = q[i]
      BY <1>2, TailParts
  <2> HIDE DEF r
  <2>2. Has(q, k) => q[1].kind = k \/ Has(r, k)
    <3> SUFFICES ASSUME NEW i \in DOMAIN q, q[i].kind = k PROVE q[1].kind = k \/ Has(r, k)
        BY DEF Has
    <3>1. CASE i = 1
        BY <3>1
    <3>2. CASE i > 1
        BY <2>1, <3>2 DEF Has
    <3> QED BY <2>1, <3>1, <3>2
  <2>3. q[1].kind = k => Has(q, k)
      BY <2>1 DEF Has
  <2>4. Has(r, k) => Has(q, k)
      BY <2>1 DEF Has
  <2>5. Has(q, k) <=> Head(q).kind = k \/ Has(r, k)
      BY <2>1, <2>2, <2>3, <2>4
  <2> QED BY <2>5 DEF r
<1> QED BY <1>1, <1>2

LEMMA WaitsParts ==
    ASSUME NEW q \in Seq(SyncEvents), NEW e \in SyncEvents, NEW k
    PROVE  /\ Waits(Append(q, e), k) <=> Waits(q, k) \/ e = k
           /\ q # <<>> => (Waits(q, k) <=> Head(q) = k \/ Waits(Tail(q), k))
<1>1. Waits(Append(q, e), k) <=> Waits(q, k) \/ e = k
  <2> DEFINE r == Append(q, e)
             n == Len(q) + 1
  <2>1. /\ n \in DOMAIN r /\ r[n] = e
        /\ \A i \in DOMAIN q : i \in DOMAIN r /\ r[i] = q[i]
        /\ \A i \in DOMAIN r : i = n \/ i \in DOMAIN q
      BY AppendParts
  <2> HIDE DEF r, n
  <2>2. Waits(r, k) <=> Waits(q, k) \/ e = k
      BY <2>1 DEF Waits
  <2> QED BY <2>2 DEF r
<1>2. ASSUME q # <<>> PROVE Waits(q, k) <=> Head(q) = k \/ Waits(Tail(q), k)
  <2> DEFINE r == Tail(q)
  <2>1. /\ Head(q) = q[1] /\ 1 \in DOMAIN q
        /\ \A i \in DOMAIN q : i \in Nat /\ i >= 1
        /\ \A i \in DOMAIN r : i + 1 \in DOMAIN q /\ r[i] = q[i + 1]
        /\ \A i \in DOMAIN q : i > 1 => i - 1 \in DOMAIN r /\ r[i - 1] = q[i]
      BY <1>2, TailParts
  <2> HIDE DEF r
  <2>2. Waits(q, k) => q[1] = k \/ Waits(r, k)
    <3> SUFFICES ASSUME NEW i \in DOMAIN q, q[i] = k PROVE q[1] = k \/ Waits(r, k)
        BY DEF Waits
    <3>1. CASE i = 1
        BY <3>1
    <3>2. CASE i > 1
        BY <2>1, <3>2 DEF Waits
    <3> QED BY <2>1, <3>1, <3>2
  <2>3. q[1] = k => Waits(q, k)
      BY <2>1 DEF Waits
  <2>4. Waits(r, k) => Waits(q, k)
      BY <2>1 DEF Waits
  <2>5. Waits(q, k) <=> Head(q) = k \/ Waits(r, k)
      BY <2>1, <2>2, <2>3, <2>4
  <2> QED BY <2>5 DEF r
<1> QED BY <1>1, <1>2

LEMMA LatestParts ==
    ASSUME NEW S, NEW q \in Seq(S), NEW e \in S
    PROVE  Append(q, e) # <<>> /\ LatestOf(Append(q, e)) = e
<1>1. /\ Append(q, e) \in Seq(S) /\ Len(Append(q, e)) = Len(q) + 1
      /\ Append(q, e)[Len(q) + 1] = e
    BY AppendProperties
<1>2. Len(q) \in Nat
    BY LenProperties
<1>3. Len(Append(q, e)) # 0
    BY <1>1, <1>2
<1> QED BY <1>1, <1>3, EmptySeq DEF LatestOf

LEMMA LatestTail ==
    ASSUME NEW S, NEW q \in Seq(S), q # <<>>
    PROVE  \/ Tail(q) = <<>> /\ Head(q) = LatestOf(q)
           \/ Tail(q) # <<>> /\ LatestOf(Tail(q)) = LatestOf(q)
<1>1. /\ Tail(q) \in Seq(S) /\ Len(Tail(q)) = Len(q) - 1 /\ Head(q) = q[1]
      /\ \A i \in 1..Len(Tail(q)) : Tail(q)[i] = q[i + 1]
    BY HeadTailProperties
<1>2. Len(q) \in Nat /\ Len(q) >= 1
  <2>1. Len(q) \in Nat /\ Len(q) # 0
      BY EmptySeq, LenProperties
  <2> QED BY <2>1
<1>3. CASE Tail(q) = <<>>
  <2>1. Len(Tail(q)) = 0
      BY <1>1, <1>3, EmptySeq
  <2>2. Len(q) - 1 = 0
      BY <1>1, <2>1
  <2>3. Len(q) = 1
      BY <1>2, <2>2
  <2> QED BY <1>1, <1>3, <2>3 DEF LatestOf
<1>4. CASE Tail(q) # <<>>
  <2>1. Len(Tail(q)) # 0
      BY <1>1, <1>4, EmptySeq
  <2>2. Len(Tail(q)) \in 1..Len(Tail(q)) /\ Len(Tail(q)) + 1 = Len(q)
      BY <1>1, <1>2, <2>1
  <2> QED BY <1>1, <1>4, <2>2 DEF LatestOf
<1> QED BY <1>3, <1>4

-----------------------------------------------------------------------------
(* The topic looks as its row says *)

\* What a task with locals k does to the topics p with titles n, and the conversation c.
Mirrors(k, c, p, n) ==
    /\ k.pc \notin {"recreate", "map"}
    /\ k.pc = "create" => k.made # 0 /\ p[k.made] = "open" /\ n[k.made] = k.seen.name
    /\ k.pc \in Holding => k.conv.topic = c.topic
    /\ k.pc = "name" => n[c.topic] = k.seen.name
    /\ k.pc = "close" => p[c.topic] = "closed"

Doing(pc) == \E t \in Tasks : tasks[t].pc = pc

Mirrored ==
    /\ \A k \in Topics : topics[k] # "gone"
    /\ conv.is => conv.topic # 0
    /\ \A t \in Tasks : Mirrors(tasks[t], conv, topics, titles)
    /\ ~(tasks["loop"].pc = "name" /\ tasks["chat"].pc = "name")
    /\ conv.is /\ ~Doing("name") => titles[conv.topic] = conv.name
    /\ conv.is /\ conv.closed => topics[conv.topic] = "closed"
    /\ conv.is /\ topics[conv.topic] = "closed" => conv.closed \/ Doing("reopenTopic") \/ Doing("close")

\* The inductive invariant for Shown, beside IInv and Restores.
Mirror == ~spoilt => Mirrored

LEMMA MirrorSame ==
    ASSUME Mirror, UNCHANGED <<conv, topics, titles, tasks, spoilt>>
    PROVE  Mirror'
  BY DEF Mirror, Mirrored, Doing

\* Where a task is half-way, or has a topic of its own.
Middle == {"name", "create", "reopenTopic", "close", "recreate", "map"}

LEMMA DoingMoved ==
    ASSUME NEW t \in Tasks, Moved(t), NEW p
    PROVE  /\ tasks'[t].pc # p /\ tasks[t].pc # p => (Doing(p)' <=> Doing(p))
           /\ tasks'[t].pc = p => Doing(p)'
           /\ Doing(p)' => tasks'[t].pc = p \/ Doing(p)
           /\ tasks[t].pc # p /\ Doing(p) => Doing(p)'
<1>1. \A u \in Tasks : u # t => tasks'[u] = tasks[u]
    BY DEF Moved
<1> QED BY <1>1 DEF Doing

\* A task that is not half-way goes to another place that is not.
LEMMA MirrorQuiet ==
    ASSUME IInv, Mirror, NEW t \in Tasks, Moved(t), UNCHANGED <<conv, topics, titles, spoilt>>,
           tasks[t].pc \notin Middle, tasks'[t].pc \notin Middle,
           tasks'[t].pc \in Holding => tasks'[t].conv.topic = conv.topic
    PROVE  Mirror'
<1> SUFFICES ASSUME Mirrored, ~spoilt PROVE Mirrored'
    BY DEF Mirror
<1>1. \A u \in Tasks : Mirrors(tasks'[u], conv, topics, titles)
  <2>1. Mirrors(tasks'[t], conv, topics, titles)
      BY DEF Mirrors, Middle
  <2> QED BY <2>1 DEF Mirrored, Moved
<1>2. /\ Doing("name")' <=> Doing("name")
      /\ Doing("reopenTopic")' <=> Doing("reopenTopic")
      /\ Doing("close")' <=> Doing("close")
    BY DoingMoved DEF Middle
<1>3. ~(tasks'["loop"].pc = "name" /\ tasks'["chat"].pc = "name")
    BY DEF Mirrored, Moved, Middle, Tasks
<1> QED BY <1>1, <1>2, <1>3 DEF Mirrored

\* A message arrives wherever it is sent.
LEMMA MirrorSent ==
    ASSUME IInv, Mirror, ~spoilt, NEW t \in Tasks, tasks[t].pc = "send", Sent(t),
           UNCHANGED <<conv, topics, titles, spoilt>>
    PROVE  Mirror'
<1>1. Moved(t) /\ Leaves(tasks[t], tasks'[t])
    BY SentParts
<1>2. tasks[t].then \in Thens /\ Fits(t, tasks[t], lock, conv, topics)
    BY InsideTyped DEF Task, Thens
<1>3. tasks'[t].pc \notin Middle
    BY <1>1, <1>2 DEF Leaves, Middle, Thens
<1>4. tasks[t].conv.topic = conv.topic
    BY DEF Mirror, Mirrored, Mirrors, Holding
<1>5. tasks'[t].pc \in Holding => tasks'[t].conv.topic = conv.topic
  <2>1. tasks'[t].pc \in Holding => tasks'[t].pc # "idle"
      BY DEF Holding
  <2> QED BY <1>1, <1>4, <2>1 DEF Leaves
<1> QED BY <1>1, <1>3, <1>5, MirrorQuiet DEF Middle

LEMMA MirrorReconcile == ASSUME IInv, Mirror, NEW t \in Tasks, Reconcile(t) PROVE Mirror'
<1>1. /\ tasks[t].pc = "reconcile" /\ UNCHANGED <<conv, topics, titles, spoilt>> /\ Moved(t)
      /\ tasks'[t].pc \in {"idle", "ensure", "edit", "reopen"}
      /\ tasks'[t].pc \in {"edit", "reopen"} => tasks'[t].conv = conv
    BY ReconcileTopic DEF telegram, unharmed, history
<1> QED BY <1>1, MirrorQuiet DEF Middle, Holding

LEMMA MirrorEdit == ASSUME IInv, Mirror, NEW t \in Tasks, Edit(t) PROVE Mirror'
<1> SUFFICES ASSUME ~spoilt' PROVE Mirrored'
    BY DEF Mirror
<1> DEFINE k == tasks[t]
           m == tasks'[t]
<1>1. /\ k.pc = "edit" /\ UNCHANGED <<conv, topics>>
      /\ Moved(t) /\ m.pc = "name" /\ Alike(k, m)
      /\ \A j \in Topics : titles'[j] = IF j = k.conv.topic THEN k.seen.name ELSE titles[j]
      /\ ~spoilt /\ \A u \in Tasks \ {t} : tasks[u].pc # "name"
    BY EditTopic
<1>2. Mirrored
    BY <1>1 DEF Mirror
<1>3. conv.is /\ conv.topic \in Topics /\ k.conv.topic = conv.topic
  <2>1. conv.is /\ conv.topic \in Topics \cup {0}
      BY <1>1, InsideTyped DEF Fits, Holding
  <2> QED BY <1>1, <1>2, <2>1 DEF Mirrored, Mirrors, Holding
<1>4. titles'[conv.topic] = k.seen.name
    BY <1>1, <1>3
<1>5. Mirrors(m, conv, topics, titles')
    BY <1>1, <1>3, <1>4 DEF Mirrors, Alike
<1>6. ASSUME NEW u \in Tasks \ {t} PROVE Mirrors(tasks'[u], conv, topics, titles')
  <2>1. tasks'[u] = tasks[u] /\ tasks[u].pc # "name"
      BY <1>1 DEF Moved
  <2>2. tasks[u].pc # "create"
      BY <1>3, InsideTyped DEF Fits
  <2> QED BY <1>2, <2>1, <2>2 DEF Mirrored, Mirrors
<1>7. \A u \in Tasks : Mirrors(tasks'[u], conv, topics, titles')
    BY <1>5, <1>6
<1>8. /\ Doing("name")'
      /\ Doing("reopenTopic")' <=> Doing("reopenTopic")
      /\ Doing("close")' <=> Doing("close")
    BY <1>1, DoingMoved
<1>9. ~(tasks'["loop"].pc = "name" /\ tasks'["chat"].pc = "name")
    BY <1>1 DEF Moved, Tasks
<1> QED BY <1>1, <1>2, <1>7, <1>8, <1>9 DEF Mirrored

LEMMA MirrorSetName == ASSUME IInv, Mirror, NEW t \in Tasks, SetName(t) PROVE Mirror'
<1> SUFFICES ASSUME ~spoilt' PROVE Mirrored'
    BY DEF Mirror
<1> DEFINE k == tasks[t]
           m == tasks'[t]
<1>1. /\ k.pc = "name" /\ UNCHANGED <<topics, titles, spoilt>>
      /\ Moved(t) /\ Leaves(k, m)
      /\ conv'.is = conv.is /\ conv'.topic = conv.topic
      /\ conv'.closed = conv.closed /\ conv'.name = k.seen.name
    BY SetNameTopic DEF unharmed, history
<1>2. Mirrored
    BY <1>1 DEF Mirror
<1>3. /\ titles[conv.topic] = k.seen.name /\ k.conv.topic = conv.topic
      /\ \A u \in Tasks \ {t} : tasks[u].pc # "name"
    BY <1>1, <1>2 DEF Mirrored, Mirrors, Holding, Tasks
<1>4. m.pc \in Thens
    BY <1>1, InsideTyped DEF Leaves, Task, Thens
<1>5. k.then # "unlock"
    BY <1>1, IdleBare
<1>6. m.pc \in Holding => m.conv = k.conv
  <2>1. m.pc \in Holding => m.pc # "idle"
      BY DEF Holding
  <2> QED BY <1>1, <2>1 DEF Leaves
<1>7. Mirrors(m, conv', topics, titles)
    BY <1>1, <1>3, <1>4, <1>6 DEF Mirrors, Thens
<1>8. ASSUME NEW u \in Tasks \ {t} PROVE Mirrors(tasks'[u], conv', topics, titles)
  <2>1. tasks'[u] = tasks[u]
      BY <1>1 DEF Moved
  <2> QED BY <1>1, <1>2, <2>1 DEF Mirrored, Mirrors
<1>9. \A u \in Tasks : Mirrors(tasks'[u], conv', topics, titles)
    BY <1>7, <1>8
<1>10. /\ m.pc # "name" /\ m.pc # "reopenTopic" /\ m.pc # "close"
    BY <1>4 DEF Thens
<1>11. /\ Doing("reopenTopic")' <=> Doing("reopenTopic")
       /\ Doing("close")' <=> Doing("close")
    BY <1>1, <1>10, DoingMoved
<1>12. ~(tasks'["loop"].pc = "name" /\ tasks'["chat"].pc = "name")
    BY <1>1, <1>3, <1>10 DEF Moved, Tasks
<1> QED BY <1>1, <1>2, <1>3, <1>9, <1>11, <1>12 DEF Mirrored

LEMMA MirrorReopen == ASSUME IInv, Mirror, NEW t \in Tasks, Reopen(t) PROVE Mirror'
<1> SUFFICES ASSUME ~spoilt' PROVE Mirrored'
    BY DEF Mirror
<1> DEFINE k == tasks[t]
           m == tasks'[t]
<1>1. /\ k.pc = "reopen" /\ UNCHANGED <<topics, titles, spoilt>>
      /\ Moved(t)
      /\ conv'.is = conv.is /\ conv'.topic = conv.topic /\ conv'.name = conv.name
    BY ReopenParts DEF unharmed, history
<1>2. Mirrored
    BY <1>1 DEF Mirror
<1>3. \/ ~k.conv.closed /\ conv' = conv /\ m.pc = "idle"
      \/ ~conv'.closed /\ m.pc = "reopenTopic" /\ Alike(k, m)
    BY ReopenParts
<1>4. Mirrors(m, conv', topics, titles)
    BY <1>1, <1>2, <1>3 DEF Mirrored, Mirrors, Holding, Alike
<1>5. ASSUME NEW u \in Tasks \ {t} PROVE Mirrors(tasks'[u], conv', topics, titles)
  <2>1. tasks'[u] = tasks[u]
      BY <1>1 DEF Moved
  <2> QED BY <1>1, <1>2, <2>1 DEF Mirrored, Mirrors
<1>6. \A u \in Tasks : Mirrors(tasks'[u], conv', topics, titles)
    BY <1>4, <1>5
<1>7. /\ Doing("name")' <=> Doing("name")
      /\ Doing("close")' <=> Doing("close")
      /\ Doing("reopenTopic") => Doing("reopenTopic")'
      /\ m.pc = "reopenTopic" => Doing("reopenTopic")'
    BY <1>1, <1>3, DoingMoved
<1>8. ~(tasks'["loop"].pc = "name" /\ tasks'["chat"].pc = "name")
    BY <1>1, <1>2, <1>3 DEF Mirrored, Moved, Tasks
<1> QED BY <1>1, <1>2, <1>3, <1>6, <1>7, <1>8 DEF Mirrored

LEMMA MirrorReopenTopic == ASSUME IInv, Mirror, NEW t \in Tasks, ReopenTopic(t) PROVE Mirror'
<1> SUFFICES ASSUME ~spoilt' PROVE Mirrored'
    BY DEF Mirror
<1> DEFINE k == tasks[t]
           m == tasks'[t]
<1>1. /\ k.pc = "reopenTopic" /\ UNCHANGED <<conv, titles>>
      /\ Moved(t) /\ m.pc = "idle"
      /\ \A j \in Topics :
            topics'[j] = IF j = k.conv.topic /\ topics[j] = "closed" THEN "open" ELSE topics[j]
      /\ ~spoilt /\ ~conv.closed /\ \A u \in Tasks \ {t} : tasks[u].pc # "close"
    BY ReopenTopicParts
<1>2. Mirrored
    BY <1>1 DEF Mirror
<1>3. conv.is /\ conv.topic \in Topics /\ k.conv.topic = conv.topic
  <2>1. conv.is /\ conv.topic \in Topics \cup {0}
      BY <1>1, InsideTyped DEF Fits, Holding
  <2> QED BY <1>1, <1>2, <2>1 DEF Mirrored, Mirrors, Holding
<1>4. topics'[conv.topic] # "closed"
    BY <1>1, <1>3
<1>5. Mirrors(m, conv, topics', titles)
    BY <1>1 DEF Mirrors, Holding
<1>6. ASSUME NEW u \in Tasks \ {t} PROVE Mirrors(tasks'[u], conv, topics', titles)
  <2>1. tasks'[u] = tasks[u] /\ tasks[u].pc # "close"
      BY <1>1 DEF Moved
  <2>2. tasks[u].pc # "create"
      BY <1>3, InsideTyped DEF Fits
  <2> QED BY <1>2, <2>1, <2>2 DEF Mirrored, Mirrors
<1>7. \A u \in Tasks : Mirrors(tasks'[u], conv, topics', titles)
    BY <1>5, <1>6
<1>8. Doing("name")' <=> Doing("name")
    BY <1>1, DoingMoved
<1>9. ~(tasks'["loop"].pc = "name" /\ tasks'["chat"].pc = "name")
    BY <1>1, <1>2 DEF Mirrored, Moved, Tasks
<1>10. \A j \in Topics : topics'[j] # "gone"
    BY <1>1, <1>2 DEF Mirrored
<1> QED BY <1>1, <1>2, <1>4, <1>7, <1>8, <1>9, <1>10 DEF Mirrored

\* ensure_conversation holds nothing.
LEMMA MirrorEnsure == ASSUME IInv, Mirror, NEW t \in Tasks, Ensure(t) \/ Lock(t) PROVE Mirror'
<1>1. /\ tasks[t].pc \in {"ensure", "lock"} /\ UNCHANGED <<conv, topics, titles, spoilt>> /\ Moved(t)
      /\ \/ Leaves(tasks[t], tasks'[t])
         \/ tasks'[t].pc \in {"lock", "topic"}
    BY EnsureTopic, LockTopic DEF telegram, unharmed, history
<1>2. tasks[t].then \in {"idle", "forward"}
    BY <1>1, InsideTyped DEF Fits, Making
<1>3. tasks'[t].pc \in {"lock", "topic", "idle", "forward"}
    BY <1>1, <1>2 DEF Leaves
<1> QED BY <1>1, <1>3, MirrorQuiet DEF Middle, Holding

LEMMA MirrorMakeTopic == ASSUME IInv, Restores, Mirror, NEW t \in Tasks, MakeTopic(t) PROVE Mirror'
<1> SUFFICES ASSUME ~spoilt' PROVE Mirrored'
    BY DEF Mirror
<1> DEFINE k == tasks[t]
           m == tasks'[t]
<1>1. /\ k.pc = "topic" /\ UNCHANGED <<conv, lock, spoilt>>
      /\ Moved(t) /\ m.pc = "create" /\ m.seen = k.seen
    BY MakeTopicParts DEF unharmed, history
<1>2. PICK j \in Topics :
         /\ m.made = j /\ topics'[j] = "open" /\ titles'[j] = k.seen.name
         /\ \A i \in Topics \ {j} : topics'[i] = topics[i]
    BY MakeTopicParts
<1>3. Mirrored
    BY <1>1 DEF Mirror
<1>4. ~conv.is /\ lock = t /\ j # 0
    BY <1>1, InsideTyped DEF Fits
<1>5. Mirrors(m, conv, topics', titles')
    BY <1>1, <1>2, <1>4 DEF Mirrors, Holding
<1>6. ASSUME NEW u \in Tasks \ {t} PROVE Mirrors(tasks'[u], conv, topics', titles')
  <2>1. tasks'[u] = tasks[u]
      BY <1>1 DEF Moved
  <2>2. tasks[u].pc \notin Holding \cup {"create"}
      BY <1>4, InsideTyped DEF Fits
  <2> QED BY <2>1, <2>2 DEF Mirrors, Holding
<1>7. \A u \in Tasks : Mirrors(tasks'[u], conv, topics', titles')
    BY <1>5, <1>6
<1>8. ~(tasks'["loop"].pc = "name" /\ tasks'["chat"].pc = "name")
    BY <1>1 DEF Mirrored, Moved, Tasks
<1>9. \A i \in Topics : topics'[i] # "gone"
    BY <1>2, <1>3 DEF Mirrored
<1> QED BY <1>1, <1>4, <1>7, <1>8, <1>9 DEF Mirrored

LEMMA MirrorCreate == ASSUME IInv, Mirror, NEW t \in Tasks, Create(t) PROVE Mirror'
<1> SUFFICES ASSUME ~spoilt' PROVE Mirrored'
    BY DEF Mirror
<1> DEFINE k == tasks[t]
           m == tasks'[t]
<1>1. /\ k.pc = "create" /\ UNCHANGED <<topics, titles, spoilt>>
      /\ Moved(t) /\ Leaves(k, m)
      /\ conv'.is /\ conv'.topic = k.made /\ conv'.name = k.seen.name /\ ~conv'.closed
      /\ ~conv.is /\ k.then \in {"idle", "forward"}
    BY CreateParts DEF unharmed, history
<1>2. Mirrored
    BY <1>1 DEF Mirror
<1>3. k.made # 0 /\ topics[k.made] = "open" /\ titles[k.made] = k.seen.name
    BY <1>1, <1>2 DEF Mirrored, Mirrors
<1>4. m.pc \in {"idle", "forward"}
    BY <1>1 DEF Leaves
<1>5. Mirrors(m, conv', topics, titles)
    BY <1>4 DEF Mirrors, Holding
<1>6. ASSUME NEW u \in Tasks \ {t} PROVE Mirrors(tasks'[u], conv', topics, titles)
  <2>1. tasks'[u] = tasks[u]
      BY <1>1 DEF Moved
  <2>2. tasks[u].pc \notin Holding
      BY <1>1, InsideTyped DEF Fits
  <2> QED BY <1>2, <2>1, <2>2 DEF Mirrored, Mirrors, Holding
<1>7. \A u \in Tasks : Mirrors(tasks'[u], conv', topics, titles)
    BY <1>5, <1>6
<1>8. ~(tasks'["loop"].pc = "name" /\ tasks'["chat"].pc = "name")
    BY <1>1, <1>4 DEF Moved, Tasks
<1> QED BY <1>1, <1>2, <1>3, <1>7, <1>8 DEF Mirrored

LEMMA MirrorForward == ASSUME IInv, Mirror, NEW t \in Tasks, Forward(t) PROVE Mirror'
<1>1. /\ tasks[t].pc = "forward" /\ UNCHANGED <<conv, topics, titles, spoilt>> /\ Moved(t)
      /\ tasks'[t].pc = "send" /\ tasks'[t].conv = conv
    BY ForwardParts DEF unharmed, history
<1> QED BY <1>1, MirrorQuiet DEF Middle

LEMMA MirrorSend ==
    ASSUME IInv, Mirror, NEW t \in Tasks, Send(t) \/ Recreate(t) \/ MapTopic(t)
    PROVE  Mirror'
<1> SUFFICES ASSUME ~spoilt' PROVE Mirror'
    BY DEF Mirror
<1>1. UNCHANGED spoilt
    BY DEF Send, Recreate, MapTopic, unharmed, history
<1>2. Mirrored
    BY <1>1 DEF Mirror
<1>3. Send(t)
    BY <1>2 DEF Mirrored, Mirrors, Recreate, MapTopic
<1>4. tasks[t].pc = "send" /\ UNCHANGED <<conv, topics, titles>>
    BY <1>3, SendParts
<1>5. ~Missing(tasks[t].conv.topic)
  <2>1. tasks[t].conv.topic \in Topics \cup {0}
      BY InsideTyped
  <2> QED BY <1>2, <2>1 DEF Missing, Mirrored
<1> QED BY <1>1, <1>3, <1>4, <1>5, SendParts, MirrorSent

LEMMA MirrorCloseTopic == ASSUME IInv, Mirror, NEW t \in Tasks, CloseTopic(t) PROVE Mirror'
<1> SUFFICES ASSUME ~spoilt' PROVE Mirrored'
    BY DEF Mirror
<1> DEFINE k == tasks[t]
           m == tasks'[t]
<1>1. /\ k.pc = "closeTopic" /\ UNCHANGED <<conv, titles, spoilt>>
      /\ Moved(t) /\ m.pc = "close" /\ Alike(k, m)
      /\ topics' \in [Topics -> TopicState]
      /\ \A j \in Topics :
            topics'[j] = IF j = k.conv.topic /\ topics[j] = "open" THEN "closed" ELSE topics[j]
    BY CloseTopicParts DEF unharmed, history
<1>2. Mirrored
    BY <1>1 DEF Mirror
<1>3. conv.is /\ conv.topic \in Topics /\ k.conv.topic = conv.topic /\ topics[conv.topic] \in {"open", "closed"}
  <2>1. conv.is /\ conv.topic \in Topics \cup {0}
      BY <1>1, InsideTyped DEF Fits, Holding
  <2>2. conv.topic \in Topics /\ k.conv.topic = conv.topic /\ topics[conv.topic] # "gone"
      BY <1>1, <1>2, <2>1 DEF Mirrored, Mirrors, Holding
  <2>3. topics[conv.topic] \in TopicState /\ topics[conv.topic] # "none"
      BY <2>1, <2>2, InsideTyped
  <2> QED BY <2>1, <2>2, <2>3 DEF TopicState
<1>4. topics'[conv.topic] = "closed"
    BY <1>1, <1>3
<1>5. Mirrors(m, conv, topics', titles)
    BY <1>1, <1>3, <1>4 DEF Mirrors, Alike
<1>6. ASSUME NEW u \in Tasks \ {t} PROVE Mirrors(tasks'[u], conv, topics', titles)
  <2>1. tasks'[u] = tasks[u]
      BY <1>1 DEF Moved
  <2>2. tasks[u].pc # "create"
      BY <1>3, InsideTyped DEF Fits
  <2> QED BY <1>2, <1>4, <2>1, <2>2 DEF Mirrored, Mirrors
<1>7. \A u \in Tasks : Mirrors(tasks'[u], conv, topics', titles)
    BY <1>5, <1>6
<1>8. (Doing("name")' <=> Doing("name")) /\ Doing("close")'
    BY <1>1, DoingMoved
<1>9. ~(tasks'["loop"].pc = "name" /\ tasks'["chat"].pc = "name")
    BY <1>1, <1>2 DEF Mirrored, Moved, Tasks
<1>10. \A j \in Topics : topics'[j] # "gone"
    BY <1>1, <1>2 DEF Mirrored
<1> QED BY <1>1, <1>2, <1>4, <1>7, <1>8, <1>9, <1>10 DEF Mirrored

LEMMA MirrorClose == ASSUME IInv, Mirror, NEW t \in Tasks, Close(t) PROVE Mirror'
<1> SUFFICES ASSUME ~spoilt' PROVE Mirrored'
    BY DEF Mirror
<1> DEFINE k == tasks[t]
           m == tasks'[t]
<1>1. /\ k.pc = "close" /\ UNCHANGED <<topics, titles, spoilt>>
      /\ Moved(t) /\ Leaves(k, m)
      /\ conv'.is = conv.is /\ conv'.topic = conv.topic
      /\ conv'.name = conv.name /\ conv'.closed
    BY CloseParts DEF unharmed, history
<1>2. Mirrored
    BY <1>1 DEF Mirror
<1>3. topics[conv.topic] = "closed" /\ k.conv.topic = conv.topic
    BY <1>1, <1>2 DEF Mirrored, Mirrors, Holding
<1>4. m.pc \in Thens
    BY <1>1, InsideTyped DEF Leaves, Task, Thens
<1>5. m.pc \in Holding => m.conv = k.conv
  <2>1. m.pc \in Holding => m.pc # "idle"
      BY DEF Holding
  <2> QED BY <1>1, <2>1 DEF Leaves
<1>6. Mirrors(m, conv', topics, titles)
    BY <1>1, <1>3, <1>4, <1>5 DEF Mirrors, Thens
<1>7. ASSUME NEW u \in Tasks \ {t} PROVE Mirrors(tasks'[u], conv', topics, titles)
  <2>1. tasks'[u] = tasks[u]
      BY <1>1 DEF Moved
  <2> QED BY <1>1, <1>2, <2>1 DEF Mirrored, Mirrors
<1>8. \A u \in Tasks : Mirrors(tasks'[u], conv', topics, titles)
    BY <1>6, <1>7
<1>9. m.pc # "name"
    BY <1>4 DEF Thens
<1>10. Doing("name")' <=> Doing("name")
    BY <1>1, <1>9, DoingMoved
<1>11. ~(tasks'["loop"].pc = "name" /\ tasks'["chat"].pc = "name")
    BY <1>1, <1>2, <1>9 DEF Mirrored, Moved, Tasks
<1> QED BY <1>1, <1>2, <1>3, <1>8, <1>10, <1>11 DEF Mirrored

\* An error that is dropped spoils the topic, unless it is a note's.
LEMMA MirrorIgnored == ASSUME IInv, Mirror, NEW t \in Tasks, Ignored(t) PROVE Mirror'
<1> SUFFICES ASSUME ~spoilt' PROVE Mirror'
    BY DEF Mirror
<1>1. /\ UNCHANGED <<conv, topics, titles, spoilt>> /\ ~spoilt
      /\ tasks[t].pc \notin {"topic", "edit", "closeTopic", "reopenTopic"}
  <2>1. /\ UNCHANGED <<conv, topics, titles>>
        /\ spoilt' = (spoilt \/ tasks[t].pc \in {"topic", "edit", "closeTopic", "reopenTopic"})
      BY IgnoredParts
  <2>2. spoilt \in BOOLEAN
      BY DEF IInv, Outside
  <2> QED BY <2>1, <2>2
<1>2. tasks[t].pc \notin {"recreate", "map"}
    BY <1>1 DEF Mirror, Mirrored, Mirrors
<1>3. tasks[t].pc = "send" /\ Sent(t)
    BY <1>1, <1>2, IgnoredParts
<1> QED BY <1>1, <1>3, MirrorSent

LEMMA MirrorGiveUp == ASSUME IInv, Mirror, NEW t \in Tasks, GiveUp(t) PROVE Mirror'
<1> SUFFICES ASSUME ~spoilt' PROVE Mirrored'
    BY DEF Mirror
<1>1. /\ UNCHANGED <<conv, topics, titles>> /\ ~spoilt /\ Moved(t)
      /\ tasks[t].pc \in Failing /\ tasks[t].pc \notin {"name", "close"}
      /\ tasks'[t].pc = "idle"
    BY GiveUpParts
<1>2. Mirrored
    BY <1>1 DEF Mirror
<1>3. \A u \in Tasks : Mirrors(tasks'[u], conv, topics, titles)
  <2>1. Mirrors(tasks'[t], conv, topics, titles)
      BY <1>1 DEF Mirrors, Holding
  <2> QED BY <1>1, <1>2, <2>1 DEF Mirrored, Moved
<1>4. tasks[t].pc # "reopenTopic"
    BY <1>1 DEF Failing
<1>5. /\ Doing("name")' <=> Doing("name")
      /\ Doing("reopenTopic")' <=> Doing("reopenTopic")
      /\ Doing("close")' <=> Doing("close")
    BY <1>1, <1>4, DoingMoved
<1>6. ~(tasks'["loop"].pc = "name" /\ tasks'["chat"].pc = "name")
    BY <1>1, <1>2 DEF Mirrored, Moved, Tasks
<1> QED BY <1>1, <1>2, <1>3, <1>5, <1>6 DEF Mirrored

LEMMA MirrorTopic == ASSUME IInv, Restores, Mirror, NEW t \in Tasks, Topic(t) PROVE Mirror'
  BY MirrorReconcile, MirrorEdit, MirrorSetName, MirrorReopen, MirrorReopenTopic, MirrorEnsure,
     MirrorMakeTopic, MirrorCreate, MirrorForward, MirrorSend, MirrorCloseTopic, MirrorClose,
     MirrorIgnored, MirrorGiveUp DEF Topic

LEMMA MirrorStarts == ASSUME IInv, Mirror, TakeEvent \/ Lag PROVE Mirror'
<1>1. UNCHANGED <<conv, topics, titles, spoilt>> /\ tasks["loop"].pc = "idle"
    BY DEF TakeEvent, Lag, telegram, history
<1>2. CASE UNCHANGED tasks
    BY <1>1, <1>2, MirrorSame
<1>3. CASE ~UNCHANGED tasks
  <2>1. /\ Moved("loop") /\ tasks'["loop"].pc \in {"idle", "reconcile", "ensure", "edit", "send"}
        /\ tasks'["loop"].pc \in {"edit", "send"} => tasks'["loop"].conv = conv
    <3>1. CASE Lag
      <4>1. Moved("loop") /\ tasks'["loop"].pc = "reconcile"
          BY <3>1, ReconcileParts DEF Lag, Tasks
      <4> QED BY <4>1
    <3>2. CASE TakeEvent
      <4>1. Head(events) \in SyncEvents
          BY <3>2, TailTyped DEF IInv, Outside, TakeEvent
      <4>2. Become("loop", Begun(Head(events)))
          BY <1>3, <3>2 DEF TakeEvent
      <4> HIDE DEF Begun
      <4> QED BY <4>1, <4>2, TakeParts
    <3> QED BY <3>1, <3>2
  <2>2. tasks'["loop"].pc \notin Middle /\ (tasks'["loop"].pc \in Holding => tasks'["loop"].conv.topic = conv.topic)
      BY <2>1 DEF Middle, Holding
  <2> QED BY <1>1, <2>1, <2>2, MirrorQuiet DEF Middle, Tasks
<1> QED BY <1>2, <1>3

LEMMA MirrorCommands == ASSUME IInv, group' \in Group, Mirror, Commands \/ Writes PROVE Mirror'
<1>1. /\ Moved("chat") /\ UNCHANGED <<conv, topics, titles, spoilt>>
      /\ tasks["chat"].pc \in {"idle", "fetched", "patched", "left"}
      /\ tasks'["chat"].pc \in {"fetched", "patched", "left", "reconcile", "edit", "send"}
      /\ tasks'["chat"].pc \in Holding => tasks'["chat"].conv = conv \/ tasks'["chat"].conv = tasks["chat"].conv
      /\ tasks["chat"].pc = "idle" => (tasks'["chat"].pc \in Holding => tasks'["chat"].conv = conv)
  <2>1. CASE Commands
      BY <2>1, CommandParts DEF telegram, Holding
  <2>2. CASE Writes
    <3>1. /\ Moved("chat") /\ UNCHANGED <<telegram, history>>
          /\ tasks["chat"].pc \in {"fetched", "patched", "left"}
          /\ tasks'["chat"].pc \in {"reconcile", "edit", "send"}
          /\ tasks'["chat"].pc # "reconcile" => tasks'["chat"].conv = tasks["chat"].conv
        BY <2>2, WritesParts DEF Alike
    <3> QED BY <3>1 DEF telegram, history, Holding
  <2> QED BY <2>1, <2>2
<1>2. CASE spoilt
    BY <1>1, <1>2 DEF Mirror
<1>3. CASE ~spoilt
  <2>1. tasks["chat"].pc \in {"patched", "left"} => tasks["chat"].conv.topic = conv.topic
      BY <1>3 DEF Mirror, Mirrored, Mirrors, Holding, Tasks
  <2>2. tasks["chat"].pc = "fetched" => tasks'["chat"].pc = "reconcile"
    <3>1. tasks["chat"].pc = "fetched" => ~Commands /\ ~RenameWrites /\ ~LeaveWrites
        BY DEF Commands, Sync, RenameGroup, Leave, Command, RenameWrites, LeaveWrites
    <3> QED BY <3>1, WritesParts
  <2>3. tasks'["chat"].pc \in Holding => tasks'["chat"].conv.topic = conv.topic
      BY <1>1, <2>1, <2>2 DEF Holding
  <2>4. tasks["chat"].pc \notin Middle /\ tasks'["chat"].pc \notin Middle
      BY <1>1 DEF Middle
  <2> QED BY <1>1, <2>3, <2>4, MirrorQuiet DEF Tasks
<1> QED BY <1>2, <1>3

LEMMA MirrorCrash == ASSUME IInv, Mirror, Crash PROVE Mirror'
<1> SUFFICES ASSUME ~spoilt' PROVE Mirrored'
    BY DEF Mirror
<1>1. /\ UNCHANGED <<conv, topics, titles>> /\ ~spoilt
      /\ \A t \in Tasks : tasks[t].pc \notin {"name", "reopenTopic", "close"}
    BY DEF Crash, HalfWay
<1>2. \A t \in Tasks : tasks'[t].pc = "idle"
    BY CrashTasks
<1>3. Mirrored /\ ~Doing("name") /\ ~Doing("reopenTopic") /\ ~Doing("close")
    BY <1>1 DEF Mirror, Doing
<1>4. \A t \in Tasks : Mirrors(tasks'[t], conv, topics, titles)
    BY <1>2 DEF Mirrors, Holding
<1> QED BY <1>1, <1>2, <1>3, <1>4 DEF Mirrored, Tasks

LEMMA MirrorInit == Init => Mirror
<1> SUFFICES ASSUME Init PROVE Mirrored
    BY DEF Mirror
<1>1. ~conv.is /\ \A k \in Topics : topics[k] = "none"
    BY DEF Init, NoConv
<1>2. \A t \in Tasks : tasks[t] = Rest
    BY DEF Init
<1>3. \A t \in Tasks : tasks[t].pc = "idle"
    BY <1>2, RestTask
<1> QED BY <1>1, <1>3 DEF Mirrored, Mirrors, Holding, Tasks

LEMMA MirrorNext == IInv /\ Restores /\ Mirror /\ [Next]_vars => Mirror'
<1> SUFFICES ASSUME IInv, Restores, Mirror, [Next]_vars PROVE Mirror'
    OBVIOUS
<1>1. CASE Server \/ Connect \/ Engine \/ UNCHANGED vars
  <2>1. UNCHANGED <<conv, topics, titles, tasks, spoilt>>
      BY <1>1 DEF Server, Rename, Move, Post, Drop, Connect, Engine, FetchList, WriteList,
         OnJoined, OnRemoved, OnUpdated, OnMessage, Error, vars, telegram, history
  <2> QED BY <2>1, MirrorSame
<1>2. CASE TakeEvent \/ Lag
    BY <1>2, MirrorStarts
<1>3. CASE Commands \/ Writes
  <2>1. group' \in Group
      BY <1>3, StepCommands, StepWrites DEF IInv, Outside
  <2> QED BY <1>3, <2>1, MirrorCommands
<1>4. CASE Crash
    BY <1>4, MirrorCrash
<1>5. ASSUME NEW t \in Tasks, Topic(t) PROVE Mirror'
    BY <1>5, MirrorTopic
<1>6. ASSUME NEW k \in Topics, DeleteTopic(k) PROVE Mirror'
  <2>1. spoilt'
      BY <1>6 DEF DeleteTopic
  <2> QED BY <2>1 DEF Mirror
<1> QED BY <1>1, <1>2, <1>3, <1>4, <1>5, <1>6 DEF Next

-----------------------------------------------------------------------------
(* The conversation of a group the user was removed from is closed *)

\* The locals k of a task that is closing the topic.
Closing(k) == \/ k.pc \in {"send", "recreate", "map"} /\ k.then = "closeTopic"
              \/ k.pc \in {"closeTopic", "close"} /\ k.then = "idle"

\* ... or has.
Ends(k, c) == Closing(k) \/ (k.pc = "idle" /\ (c.is => c.closed))

\* The removal waits in a queue, or the run loop deals with it, and nothing comes after it.
Calmed ==
    /\ ~group.in /\ up /\ tasks["chat"].pc = "idle"
    /\ \/ frames # <<>> /\ LatestOf(frames).kind = "removed"
       \/ /\ frames = <<>> /\ ~engine.is
          /\ \/ events # <<>> /\ LatestOf(events) = "deleted"
             \/ events = <<>> /\ Ends(tasks["loop"], conv)

\* The inductive invariant for RemovedIsClosed, beside IInv.
Calm == calm => Calmed

\* A frame is read: the removal is still to come, or it is this one.
LEMMA CalmHandle ==
    ASSUME IInv, Calmed, NEW kind, Handle(kind)
    PROVE  /\ \/ frames' # <<>> /\ LatestOf(frames').kind = "removed"
              \/ frames' = <<>> /\ kind = "removed"
           /\ ~engine.is /\ ~group.in /\ up
<1>1. frames \in Seq(Frame) /\ frames # <<>> /\ ~engine.is /\ frames' = Tail(frames) /\ Head(frames).kind = kind
    BY DEF IInv, Outside, Handle
<1>2. LatestOf(frames).kind = "removed" /\ ~group.in /\ up
    BY <1>1 DEF Calmed
<1>3. \/ Tail(frames) = <<>> /\ Head(frames) = LatestOf(frames)
      \/ Tail(frames) # <<>> /\ LatestOf(Tail(frames)) = LatestOf(frames)
  <2>1. frames \in Seq(Frame) /\ frames # <<>>
      BY <1>1
  <2> QED BY <2>1, LatestTail
<1> QED BY <1>1, <1>2, <1>3

LEMMA CalmEngine == ASSUME IInv, Calm, Engine PROVE Calm'
<1> SUFFICES ASSUME calm' PROVE Calmed'
    BY DEF Calm
<1>1. /\ calm /\ UNCHANGED <<group, up, tasks, conv>>
    BY DEF Engine, FetchList, WriteList, OnJoined, OnRemoved, OnUpdated, OnMessage, Error, history, telegram
<1>2. Calmed
    BY <1>1 DEF Calm
<1>3. CASE WriteList
  <2>1. frames # <<>> /\ LatestOf(frames).kind = "removed" /\ UNCHANGED frames
      BY <1>2, <1>3 DEF Calmed, WriteList
  <2> QED BY <1>1, <1>2, <2>1 DEF Calmed
<1>4. CASE OnRemoved
  <2>1. /\ \/ frames' # <<>> /\ LatestOf(frames').kind = "removed"
           \/ frames' = <<>>
        /\ ~engine.is
      BY <1>2, <1>4, CalmHandle DEF OnRemoved
  <2>2. events' # <<>> /\ LatestOf(events') = "deleted" /\ ~engine'.is
    <3>1. events \in Seq(SyncEvents) /\ "deleted" \in SyncEvents /\ events' = Append(events, "deleted")
        BY <1>4 DEF OnRemoved, Emit, IInv, Outside, SyncEvents
    <3>2. UNCHANGED engine
        BY <1>4 DEF OnRemoved
    <3> QED BY <2>1, <3>1, <3>2, LatestParts
  <2> QED BY <1>1, <1>2, <2>1, <2>2 DEF Calmed
<1>5. CASE FetchList \/ OnJoined \/ OnUpdated \/ OnMessage
  <2>1. PICK kind \in {"connected", "joined", "updated", "message"} : Handle(kind)
      BY <1>5 DEF FetchList, OnJoined, OnUpdated, OnMessage
  <2>2. frames' # <<>> /\ LatestOf(frames').kind = "removed"
      BY <1>2, <2>1, CalmHandle
  <2> QED BY <1>1, <1>2, <2>2 DEF Calmed
<1> QED BY <1>3, <1>4, <1>5 DEF Engine

LEMMA CalmTakeEvent == ASSUME IInv, Calm, TakeEvent PROVE Calm'
<1> SUFFICES ASSUME calm' PROVE Calmed'
    BY DEF Calm
<1>1. /\ calm /\ UNCHANGED <<group, up, frames, engine, conv>>
      /\ events # <<>> /\ events' = Tail(events) /\ tasks["loop"].pc = "idle"
      /\ Become("loop", Begun(Head(events)))
    BY DEF TakeEvent, Error, history, telegram
<1> HIDE DEF Begun
<1>2. Calmed
    BY <1>1 DEF Calm
<1>3. events \in Seq(SyncEvents) /\ Head(events) \in SyncEvents
    BY <1>1, TailTyped DEF IInv, Outside
<1>4. Moved("loop")
    BY <1>1, <1>3, TakeParts
<1>5. tasks'["chat"] = tasks["chat"]
    BY <1>4 DEF Moved, Tasks
<1>6. CASE frames # <<>> /\ LatestOf(frames).kind = "removed"
    BY <1>1, <1>2, <1>5, <1>6 DEF Calmed
<1>7. CASE frames = <<>> /\ ~engine.is /\ LatestOf(events) = "deleted"
  <2>1. \/ Tail(events) = <<>> /\ Head(events) = "deleted"
        \/ Tail(events) # <<>> /\ LatestOf(Tail(events)) = "deleted"
      BY <1>1, <1>3, <1>7, LatestTail
  <2>2. Head(events) = "deleted" => Ends(tasks'["loop"], conv)
    <3> SUFFICES ASSUME Head(events) = "deleted" PROVE Ends(tasks'["loop"], conv)
        OBVIOUS
    <3>1. \/ tasks'["loop"].pc = "idle" /\ (conv.is => conv.closed)
          \/ tasks'["loop"].pc = "send" /\ tasks'["loop"].then = "closeTopic"
        BY <1>1, <1>3, TakeParts
    <3> QED BY <3>1 DEF Ends, Closing
  <2> QED BY <1>1, <1>2, <1>5, <1>7, <2>1, <2>2 DEF Calmed
<1> QED BY <1>1, <1>2, <1>6, <1>7 DEF Calmed

\* The run loop closes the topic.
LEMMA CalmEnds ==
    ASSUME IInv, Topic("loop"), Ends(tasks["loop"], conv), calm'
    PROVE  Ends(tasks'["loop"], conv')
<1> DEFINE k == tasks["loop"]
           m == tasks'["loop"]
<1>1. "loop" \in Tasks
    BY DEF Tasks
<1>2. Closing(k)
  <2>1. k.pc # "idle"
      BY DEF Topic, Reconcile, Edit, SetName, Reopen, ReopenTopic, Ensure, Lock, MakeTopic, Create, Forward,
         Send, Recreate, MapTopic, CloseTopic, Close, Ignored, GiveUp
  <2> QED BY <2>1 DEF Ends
<1>3. k.pc \in {"send", "recreate", "map", "closeTopic", "close"}
    BY <1>2 DEF Closing
<1>4. ~GiveUp("loop")
    BY <1>1, GiveUpParts
<1>5. \/ Send("loop") \/ Recreate("loop") \/ MapTopic("loop") \/ CloseTopic("loop") \/ Close("loop")
      \/ Ignored("loop")
    BY <1>3, <1>4 DEF Topic, Reconcile, Edit, SetName, Reopen, ReopenTopic, Ensure, Lock, MakeTopic, Create,
       Forward
<1>6. k.pc \in {"send", "recreate", "map"} /\ Leaves(k, m) => Ends(m, conv')
    BY <1>2 DEF Closing, Leaves, Ends
<1>7. m.pc \in {"recreate", "map"} /\ m.then = k.then /\ k.pc \in {"send", "recreate"} => Ends(m, conv')
    BY <1>2 DEF Closing, Ends
<1>8. m.pc = "close" /\ m.then = k.then /\ k.pc = "closeTopic" => Ends(m, conv')
    BY <1>2 DEF Closing, Ends
<1>9. CASE Send("loop")
    BY <1>1, <1>6, <1>7, <1>9, SendParts DEF Alike
<1>10. CASE Recreate("loop")
    BY <1>1, <1>6, <1>7, <1>10, RecreateParts, SentParts
<1>11. CASE MapTopic("loop")
    BY <1>1, <1>6, <1>11, MapParts, SentParts
<1>12. CASE CloseTopic("loop")
    BY <1>1, <1>8, <1>12, CloseTopicParts DEF Alike
<1>13. CASE Close("loop")
  <2>1. k.pc = "close" /\ Leaves(k, m) /\ conv'.closed
      BY <1>1, <1>13, CloseParts
  <2> QED BY <1>2, <2>1 DEF Closing, Leaves, Ends
<1>14. CASE Ignored("loop")
  <2>1. \/ k.pc = "recreate" /\ m.pc = "map" /\ m.then = k.then
        \/ k.pc = "closeTopic" /\ m.pc = "close" /\ Alike(k, m)
        \/ k.pc \in {"send", "recreate", "map"} /\ Leaves(k, m)
      BY <1>1, <1>3, <1>14, IgnoredParts
  <2> QED BY <1>6, <1>7, <1>8, <2>1 DEF Alike
<1> QED BY <1>5, <1>9, <1>10, <1>11, <1>12, <1>13, <1>14

LEMMA CalmTopic == ASSUME IInv, Calm, NEW t \in Tasks, Topic(t) PROVE Calm'
<1> SUFFICES ASSUME calm' PROVE Calmed'
    BY DEF Calm
<1>1. /\ calm /\ UNCHANGED <<group, up, frames, engine, events>>
    BY DEF Topic, Reconcile, Edit, SetName, Reopen, ReopenTopic, Ensure, Lock, MakeTopic, Create, Forward,
       Send, Recreate, MapTopic, CloseTopic, Close, Ignored, GiveUp, Error, unharmed, history, outside
<1>2. Calmed
    BY <1>1 DEF Calm
<1>3. tasks[t].pc # "idle"
    BY DEF Topic, Reconcile, Edit, SetName, Reopen, ReopenTopic, Ensure, Lock, MakeTopic, Create, Forward,
       Send, Recreate, MapTopic, CloseTopic, Close, Ignored, GiveUp
<1>4. t = "loop"
    BY <1>2, <1>3 DEF Calmed, Tasks
<1>5. tasks'["chat"] = tasks["chat"]
    BY <1>4, TopicMoves DEF Moved, Tasks
<1>6. CASE frames # <<>> /\ LatestOf(frames).kind = "removed"
    BY <1>1, <1>2, <1>5, <1>6 DEF Calmed
<1>7. CASE frames = <<>> /\ ~engine.is /\ events # <<>> /\ LatestOf(events) = "deleted"
    BY <1>1, <1>2, <1>5, <1>7 DEF Calmed
<1>8. CASE frames = <<>> /\ ~engine.is /\ events = <<>> /\ Ends(tasks["loop"], conv)
  <2>1. Ends(tasks'["loop"], conv')
      BY <1>4, <1>8, CalmEnds
  <2> QED BY <1>1, <1>2, <1>5, <1>8, <2>1 DEF Calmed
<1> QED BY <1>2, <1>6, <1>7, <1>8 DEF Calmed

LEMMA CalmMove == ASSUME IInv, Move PROVE Calm'
<1> SUFFICES ASSUME calm' PROVE Calmed'
    BY DEF Calm
<1>1. group.in /\ up /\ tasks["chat"].pc = "idle" /\ UNCHANGED <<up, tasks>>
    BY DEF Move
<1>2. ~group'.in
    BY <1>1, GroupTyped DEF Move, IInv, Outside
<1> DEFINE e == Event("removed", 0)
<1>3. e \in Frame /\ e.kind = "removed"
    BY Kinds DEF Event
<1>4. frames' = Append(frames, e) /\ frames \in Seq(Frame)
    BY <1>1 DEF Move, Tell, IInv, Outside
<1> HIDE DEF e
<1>5. frames' # <<>> /\ LatestOf(frames').kind = "removed"
    BY <1>3, <1>4, LatestParts
<1> QED BY <1>1, <1>2, <1>5 DEF Calmed

LEMMA CalmNext == IInv /\ Calm /\ [Next]_vars => Calm'
<1> SUFFICES ASSUME IInv, Calm, [Next]_vars PROVE Calm'
    OBVIOUS
<1>1. CASE Rename
  <2>1. group'.in = group.in
      BY <1>1, GroupTyped DEF Rename, IInv, Outside
  <2>2. UNCHANGED <<up, engine, events, conv, tasks, calm>>
      BY <1>1 DEF Rename, telegram, history
  <2>3. ~group.in => UNCHANGED frames
      BY <1>1 DEF Rename
  <2> QED BY <2>1, <2>2, <2>3 DEF Calm, Calmed
<1>2. CASE Move
    BY <1>2, CalmMove
<1>3. CASE Post
  <2>1. group.in /\ UNCHANGED calm
      BY <1>3 DEF Post, history
  <2> QED BY <2>1 DEF Calm, Calmed
<1>4. CASE Connect
  <2>1. ~up /\ UNCHANGED calm
      BY <1>4 DEF Connect, history
  <2> QED BY <2>1 DEF Calm, Calmed
<1>5. CASE Engine
    BY <1>5, CalmEngine
<1>6. CASE TakeEvent
    BY <1>6, CalmTakeEvent
<1>7. CASE Drop \/ Lag \/ Commands \/ Crash
  <2>1. ~calm'
      BY <1>7 DEF Drop, Lag, Commands, Sync, RenameGroup, Leave, Command, Crash
  <2> QED BY <2>1 DEF Calm
<1>8. CASE Writes
  <2>1. tasks["chat"].pc # "idle" /\ UNCHANGED calm
      BY <1>8 DEF Writes, SyncWrites, RenameWrites, LeaveWrites, history
  <2> QED BY <2>1 DEF Calm, Calmed
<1>9. ASSUME NEW t \in Tasks, Topic(t) PROVE Calm'
    BY <1>9, CalmTopic
<1>10. ASSUME NEW k \in Topics, DeleteTopic(k) PROVE Calm'
  <2>1. UNCHANGED <<group, up, frames, engine, events, conv, tasks, calm>>
      BY <1>10 DEF DeleteTopic
  <2> QED BY <2>1 DEF Calm, Calmed
<1>11. CASE UNCHANGED vars
  <2>1. UNCHANGED <<group, up, frames, engine, events, conv, tasks, calm>>
      BY <1>11 DEF vars, telegram, history
  <2> QED BY <2>1 DEF Calm, Calmed
<1> QED BY <1>1, <1>2, <1>3, <1>4, <1>5, <1>6, <1>7, <1>8, <1>9, <1>10, <1>11 DEF Next, Server

LEMMA CalmFollows == IInv /\ Calm /\ Mirror => RemovedIsClosed
<1> SUFFICES ASSUME IInv, Calm, Mirror, calm, Quiet, conv.is
             PROVE  conv.closed /\ Shown("closed")
    BY DEF RemovedIsClosed
<1>1. frames = <<>> /\ events = <<>> /\ \A t \in Tasks : tasks[t].pc = "idle"
    BY DEF Quiet
<1>2. conv.closed
    BY <1>1 DEF Calm, Calmed, Ends, Closing, Tasks
<1>3. ~spoilt => topics[conv.topic] = "closed" /\ titles[conv.topic] = conv.name
    BY <1>1, <1>2 DEF Mirror, Mirrored, Doing
<1> QED BY <1>2, <1>3 DEF Shown

\* When a user who stays connected is removed from a group, and no handler of the chat meets the
\* removal, the conversation ends closed and its topic as the row says: for any number of names,
\* moves, messages and topics, whatever was renamed, lost or failed before, and also when the
\* topic was deleted.  What may spoil that is a call that fails, or a command, after the removal;
\* and half-done calls before it, for the topic alone (spoilt).
THEOREM RemovedIsClosedForever == Spec => []RemovedIsClosed
<1>1. Init => Calm /\ Mirror
  <2>1. Init => Calm
      BY DEF Init, Calm
  <2> QED BY <2>1, MirrorInit
<1>2. IInv /\ Restores /\ Calm /\ Mirror /\ [Next]_vars => (Calm /\ Mirror)'
    BY CalmNext, MirrorNext
<1>3. IInv /\ Calm /\ Mirror => RemovedIsClosed
    BY CalmFollows
<1> QED BY <1>1, <1>2, <1>3, RestoresInvariant, PTL DEF Spec

-----------------------------------------------------------------------------
(* One connect heals *)

\* The name n was told last, and no connect, addition or removal has followed.
LastTold(q, n) == \A i \in DOMAIN q :
    q[i].kind = "updated" /\ (\A j \in DOMAIN q : i < j => q[j].kind = "message") => q[i].name = n

\* The end of a catch-up waits, and no removal after it.
Listing(q) == \E i \in DOMAIN q : /\ q[i] = "caughtUp"
                                  /\ \A j \in DOMAIN q : i < j => q[j] # "deleted"

\* Where a task k reopens the conversation c or makes it, and where it leaves it open.
Naming == {"edit", "name"}
Opens(k, c) == \/ k.pc = "reconcile"
               \/ /\ \/ k.pc \in Naming /\ k.then = "reopen"
                     \/ k.pc = "reopen" /\ k.then = "idle"
                  /\ c.is /\ k.conv.closed = c.closed
               \/ k.pc \in Making /\ ~c.is
Open(k, c) == c.is /\ ~c.closed /\ k.pc \notin {"closeTopic", "close"} /\ k.then # "closeTopic"

\* The name that the conversation has, or gets, is n.
Named(k, c, n) == \/ k.pc = "reconcile"
                  \/ (k.pc \in Naming \/ (k.pc \in Making /\ ~c.is)) /\ k.seen.name = n
                  \/ /\ k.pc \notin {"reconcile"} \cup Naming /\ (k.pc \in Making => c.is)
                     /\ c.name = n

\* ... unless a change of the row's name is still to be taken from the events q.
Mending(k, c, n, q) == \/ Listing(q)
                       \/ /\ ~Waits(q, "deleted")
                          /\ Opens(k, c) \/ Open(k, c)
                          /\ Waits(q, "changed") \/ Named(k, c, n)

\* Nothing but renames and messages happened since the list was fetched.
Fresh == synced /\ up /\ ~Has(frames, "connected")

\* What the engine has of the list it fetched last, and what the run loop makes of it.
Healthy ==
    /\ tasks["chat"].pc = "idle"
    /\ ~Has(frames, "joined") /\ ~Has(frames, "removed")
    /\ engine.is => /\ engine.group.in = group.in
                    /\ group.in /\ ~Has(frames, "updated") => engine.group.name = group.name
    /\ ~engine.is /\ group.in => /\ row.known /\ ~row.deleted
                                 /\ Mending(tasks["loop"], conv, row.name, events)
                                 /\ ~Has(frames, "updated") => row.name = group.name
    /\ ~engine.is /\ ~group.in => ~row.known \/ row.deleted

\* The inductive invariant for HealedByConnect, beside IInv and Mirror.
Healing == /\ up /\ group.in => LastTold(frames, group.name)
           /\ Fresh => Healthy

LEMMA HealedFollows == IInv /\ Mirror /\ Healing => HealedByConnect
<1> SUFFICES ASSUME IInv, Mirror, Healing, synced, Quiet
             PROVE  IF group.in THEN /\ row = Seen(group.name)
                                     /\ conv.is /\ ~conv.closed /\ conv.name = group.name
                                     /\ Shown("open")
                    ELSE ~row.known \/ row.deleted
    BY DEF HealedByConnect
<1>1. up /\ frames = <<>> /\ events = <<>> /\ ~engine.is /\ \A t \in Tasks : tasks[t].pc = "idle"
    BY DEF Quiet
<1>2. DOMAIN frames = {} /\ DOMAIN events = {}
    BY <1>1
<1>3. /\ \A k : ~Has(frames, k)
      /\ \A e : ~Waits(events, e)
      /\ ~Listing(events)
    BY <1>2 DEF Has, Waits, Listing
<1>4. Healthy
    BY <1>1, <1>3 DEF Healing, Fresh
<1>5. ~group.in => ~row.known \/ row.deleted
    BY <1>1, <1>4 DEF Healthy
<1>6. ASSUME group.in
      PROVE  /\ row = Seen(group.name) /\ conv.is /\ ~conv.closed /\ conv.name = group.name
             /\ Shown("open")
  <2>1. /\ row.known /\ ~row.deleted /\ row.name = group.name
        /\ Opens(tasks["loop"], conv) \/ Open(tasks["loop"], conv)
        /\ Named(tasks["loop"], conv, row.name)
      BY <1>1, <1>3, <1>4, <1>6 DEF Healthy, Mending
  <2>2. conv.is /\ ~conv.closed /\ conv.name = row.name
      BY <1>1, <2>1 DEF Opens, Open, Named, Making, Naming, Tasks
  <2>3. row \in Row
      BY DEF IInv, Outside
  <2>4. row = Seen(group.name)
      BY <2>1, <2>3 DEF Row, Seen
  <2>5. ASSUME ~spoilt PROVE topics[conv.topic] = "open" /\ titles[conv.topic] = conv.name
    <3>1. /\ conv.topic # 0 /\ titles[conv.topic] = conv.name
          /\ topics[conv.topic] \notin {"gone", "closed"}
      <4>1. /\ Mirrored /\ ~Doing("name") /\ ~Doing("reopenTopic") /\ ~Doing("close")
          BY <1>1, <2>5 DEF Mirror, Doing
      <4>2. conv.topic # 0 /\ conv.topic \in Topics
          BY <2>2, <4>1, InsideTyped DEF Mirrored, Tasks
      <4> QED BY <2>2, <4>1, <4>2 DEF Mirrored
    <3>2. conv.topic \in Topics \cup {0} /\ topics \in [Topics -> TopicState] /\ topics[conv.topic] # "none"
        BY <2>2, <3>1, InsideTyped DEF Tasks
    <3> QED BY <3>1, <3>2 DEF TopicState
  <2> QED BY <2>1, <2>2, <2>4, <2>5 DEF Shown
<1> QED BY <1>5, <1>6

-----------------------------------------------------------------------------
(* ... what waits in the queues *)

LEMMA LastToldParts ==
    ASSUME NEW q \in Seq(Frame), NEW e \in Frame, NEW n
    PROVE  /\ e.kind \in {"connected", "joined", "removed"} => LastTold(Append(q, e), n)
           /\ e.kind = "updated" /\ e.name = n => LastTold(Append(q, e), n)
           /\ e.kind = "message" /\ LastTold(q, n) => LastTold(Append(q, e), n)
           /\ LastTold(q, n) /\ q # <<>> =>
                /\ LastTold(Tail(q), n)
                /\ Head(q).kind = "updated" => \/ Head(q).name = n
                                               \/ \E k \in {"connected", "joined", "removed", "updated"} :
                                                     Has(Tail(q), k)
<1>1. /\ e.kind \in {"connected", "joined", "removed"} => LastTold(Append(q, e), n)
      /\ e.kind = "updated" /\ e.name = n => LastTold(Append(q, e), n)
      /\ e.kind = "message" /\ LastTold(q, n) => LastTold(Append(q, e), n)
  <2> DEFINE r == Append(q, e)
             m == Len(q) + 1
  <2>1. /\ m \in DOMAIN r /\ r[m] = e
        /\ \A i \in DOMAIN q : i \in DOMAIN r /\ i < m /\ r[i] = q[i]
        /\ \A i \in DOMAIN r : i = m \/ i \in DOMAIN q
      BY AppendParts
  <2> HIDE DEF r, m
  <2>2. e.kind \in {"connected", "joined", "removed"} => LastTold(r, n)
      BY <2>1 DEF LastTold
  <2>3. e.kind = "updated" /\ e.name = n => LastTold(r, n)
      BY <2>1 DEF LastTold
  <2>4. e.kind = "message" /\ LastTold(q, n) => LastTold(r, n)
    <3> SUFFICES ASSUME e.kind = "message", LastTold(q, n), NEW i \in DOMAIN r,
                        r[i].kind = "updated",
                        \A j \in DOMAIN r : i < j => r[j].kind = "message"
                 PROVE  r[i].name = n
        BY DEF LastTold
    <3>1. i \in DOMAIN q /\ q[i] = r[i]
        BY <2>1
    <3>2. \A j \in DOMAIN q : i < j => q[j].kind = "message"
        BY <2>1
    <3> QED BY <3>1, <3>2 DEF LastTold
  <2> QED BY <2>2, <2>3, <2>4 DEF r
<1>2. ASSUME LastTold(q, n), q # <<>>
      PROVE  /\ LastTold(Tail(q), n)
             /\ Head(q).kind = "updated" => \/ Head(q).name = n
                                            \/ \E k \in {"connected", "joined", "removed", "updated"} :
                                                  Has(Tail(q), k)
  <2> DEFINE r == Tail(q)
  <2>1. /\ Head(q) = q[1] /\ 1 \in DOMAIN q
        /\ \A i \in DOMAIN q : i \in Nat /\ i >= 1
        /\ \A i \in DOMAIN r : i \in Nat /\ i + 1 \in DOMAIN q /\ i + 1 > 1 /\ r[i] = q[i + 1]
        /\ \A i \in DOMAIN q : i > 1 => i - 1 \in DOMAIN r /\ r[i - 1] = q[i]
      BY <1>2, TailParts
  <2>2. \A i \in DOMAIN q : q[i].kind \in {"connected", "joined", "removed", "updated", "message"}
    <3>1. \A i \in DOMAIN q : q[i] \in Frame
        BY LenProperties, ElementOfSeq
    <3> QED BY <3>1 DEF Frame
  <2> HIDE DEF r
  <2>3. LastTold(r, n)
    <3> SUFFICES ASSUME NEW i \in DOMAIN r, r[i].kind = "updated",
                        \A j \in DOMAIN r : i < j => r[j].kind = "message"
                 PROVE  r[i].name = n
        BY DEF LastTold
    <3> DEFINE x == i + 1
    <3>1. i \in Nat /\ x \in DOMAIN q /\ q[x] = r[i]
        BY <2>1
    <3>2. ASSUME NEW j \in DOMAIN q, x < j PROVE q[j].kind = "message"
      <4>1. j \in Nat
          BY <2>1
      <4>2. j > 1 /\ i < j - 1
          BY <3>1, <3>2, <4>1
      <4>3. j - 1 \in DOMAIN r /\ r[j - 1] = q[j]
          BY <2>1, <4>2
      <4> QED BY <4>2, <4>3
    <3> HIDE DEF x
    <3> QED BY <1>2, <3>1, <3>2 DEF LastTold
  <2>4. ASSUME q[1].kind = "updated", q[1].name # n
        PROVE  \E k \in {"connected", "joined", "removed", "updated"} : Has(r, k)
    <3>1. PICK j \in DOMAIN q : 1 < j /\ q[j].kind # "message"
        BY <1>2, <2>1, <2>4 DEF LastTold
    <3>2. j > 1
        BY <2>1, <3>1
    <3>3. j - 1 \in DOMAIN r /\ r[j - 1] = q[j]
        BY <2>1, <3>2
    <3>4. q[j].kind \in {"connected", "joined", "removed", "updated"}
        BY <2>2, <3>1
    <3>5. Has(r, q[j].kind)
        BY <3>3 DEF Has
    <3> QED BY <3>4, <3>5
  <2> QED BY <2>1, <2>3, <2>4 DEF r
<1> QED BY <1>1, <1>2

LEMMA ListingParts ==
    ASSUME NEW q \in Seq(SyncEvents), NEW e \in SyncEvents
    PROVE  /\ e = "caughtUp" => Listing(Append(q, e))
           /\ Listing(q) /\ e # "deleted" => Listing(Append(q, e))
           /\ Listing(q) /\ q # <<>> =>
                \/ Listing(Tail(q))
                \/ Head(q) = "caughtUp" /\ ~Waits(Tail(q), "deleted")
           /\ Listing(q) => q # <<>>
<1>1. /\ e = "caughtUp" => Listing(Append(q, e))
      /\ Listing(q) /\ e # "deleted" => Listing(Append(q, e))
  <2> DEFINE r == Append(q, e)
             m == Len(q) + 1
  <2>1. /\ m \in Nat /\ m \in DOMAIN r /\ r[m] = e
        /\ \A i \in DOMAIN q : i \in DOMAIN r /\ i \in Nat /\ i < m /\ r[i] = q[i]
        /\ \A i \in DOMAIN r : i = m \/ i \in DOMAIN q
      BY AppendParts
  <2> HIDE DEF r, m
  <2>2. e = "caughtUp" => Listing(r)
    <3>1. \A j \in DOMAIN r : ~(m < j)
        BY <2>1
    <3> QED BY <2>1, <3>1 DEF Listing
  <2>3. ASSUME Listing(q), e # "deleted" PROVE Listing(r)
    <3>1. PICK i \in DOMAIN q : q[i] = "caughtUp" /\ \A j \in DOMAIN q : i < j => q[j] # "deleted"
        BY <2>3 DEF Listing
    <3>2. \A j \in DOMAIN r : i < j => r[j] # "deleted"
        BY <2>1, <2>3, <3>1
    <3> QED BY <2>1, <3>1, <3>2 DEF Listing
  <2> QED BY <2>2, <2>3 DEF r
<1>2. ASSUME Listing(q), q # <<>>
      PROVE  \/ Listing(Tail(q))
             \/ Head(q) = "caughtUp" /\ ~Waits(Tail(q), "deleted")
  <2> DEFINE r == Tail(q)
  <2>1. /\ Head(q) = q[1]
        /\ \A i \in DOMAIN q : i \in Nat /\ i >= 1
        /\ \A i \in DOMAIN r : i \in Nat /\ i + 1 \in DOMAIN q /\ i + 1 > 1 /\ r[i] = q[i + 1]
        /\ \A i \in DOMAIN q : i > 1 => i - 1 \in DOMAIN r /\ r[i - 1] = q[i]
      BY <1>2, TailParts
  <2> HIDE DEF r
  <2>2. PICK i \in DOMAIN q : q[i] = "caughtUp" /\ \A j \in DOMAIN q : i < j => q[j] # "deleted"
      BY <1>2 DEF Listing
  <2>3. \A j \in DOMAIN r : i - 1 < j => r[j] # "deleted"
    <3> SUFFICES ASSUME NEW j \in DOMAIN r, i - 1 < j PROVE r[j] # "deleted"
        OBVIOUS
    <3>1. i \in Nat /\ j \in Nat
        BY <2>1
    <3>2. i < j + 1
        BY <3>1
    <3> QED BY <2>1, <2>2, <3>2
  <2>4. CASE i = 1
    <3>1. ~Waits(r, "deleted")
      <4> SUFFICES ASSUME NEW j \in DOMAIN r, r[j] = "deleted" PROVE FALSE
          BY DEF Waits
      <4>1. j \in Nat /\ j + 1 > 1 /\ j + 1 \in DOMAIN q /\ q[j + 1] = "deleted"
          BY <2>1
      <4> QED BY <2>2, <2>4, <4>1
    <3> QED BY <2>1, <2>2, <2>4, <3>1 DEF r
  <2>5. CASE i > 1
    <3>1. i - 1 \in DOMAIN r /\ r[i - 1] = "caughtUp"
        BY <2>1, <2>2, <2>5
    <3>2. Listing(r)
        BY <2>3, <3>1 DEF Listing
    <3> QED BY <3>2 DEF r
  <2>6. i = 1 \/ i > 1
      BY <2>1
  <2> QED BY <2>4, <2>5, <2>6
<1>3. Listing(q) => q # <<>>
  <2>1. DOMAIN <<>> = {}
      OBVIOUS
  <2> QED BY <2>1 DEF Listing
<1> QED BY <1>1, <1>2, <1>3

\* What is left when the oldest events are lost.
LEMMA SuffixParts ==
    ASSUME NEW q \in Seq(SyncEvents), NEW n \in 1..Len(q)
    PROVE  LET r == SubSeq(q, n + 1, Len(q))
           IN  /\ ~Waits(q, "deleted") => ~Waits(r, "deleted")
               /\ Listing(q) => Listing(r) \/ ~Waits(r, "deleted")
<1> DEFINE r == SubSeq(q, n + 1, Len(q))
<1>1. Len(q) \in Nat /\ n \in Nat /\ n >= 1 /\ n <= Len(q) /\ DOMAIN q = 1..Len(q)
    BY LenProperties
<1>2. n + 1 \in 1..(Len(q) + 1) /\ Len(q) \in 0..Len(q)
    BY <1>1
<1>3. /\ r \in Seq(SyncEvents)
      /\ Len(r) = IF n + 1 <= Len(q) THEN Len(q) - (n + 1) + 1 ELSE 0
      /\ \A i \in 1..Len(q) - (n + 1) + 1 : r[i] = q[n + 1 + i - 1]
    BY <1>2, SubSeqProperties
<1>4. DOMAIN r = 1..Len(r)
    BY <1>3, LenProperties
<1> HIDE DEF r
<1>5. Len(r) = Len(q) - n
  <2>1. CASE n = Len(q)
    <3>1. ~(n + 1 <= Len(q))
        BY <1>1, <2>1
    <3>2. Len(r) = 0
        BY <1>3, <3>1
    <3> QED BY <1>1, <2>1, <3>2
  <2>2. CASE n < Len(q)
    <3>1. n + 1 <= Len(q)
        BY <1>1, <2>2
    <3>2. Len(r) = Len(q) - (n + 1) + 1
        BY <1>3, <3>1
    <3>3. Len(q) - (n + 1) + 1 = Len(q) - n
        BY <1>1
    <3> QED BY <3>2, <3>3
  <2>3. \A a, b \in Nat : a <= b => a = b \/ a < b
      OBVIOUS
  <2> QED BY <1>1, <2>1, <2>2, <2>3
<1>6. ASSUME NEW i \in DOMAIN r PROVE i \in Nat /\ n + i \in DOMAIN q /\ r[i] = q[n + i]
  <2>1. i \in Nat /\ i \in 1..(Len(q) - n)
      BY <1>1, <1>4, <1>5
  <2>2. /\ n + i \in 1..Len(q) /\ n + 1 + i - 1 = n + i
        /\ i \in 1..Len(q) - (n + 1) + 1
      BY <1>1, <2>1
  <2>3. r[i] = q[n + 1 + i - 1]
      BY <1>3, <2>2
  <2> QED BY <1>1, <2>1, <2>2, <2>3
<1>7. ASSUME NEW i \in DOMAIN q, i > n PROVE i - n \in DOMAIN r /\ r[i - n] = q[i]
  <2>1. i - n \in DOMAIN r /\ n + (i - n) = i
      BY <1>1, <1>4, <1>5, <1>7
  <2>2. r[i - n] = q[n + (i - n)]
      BY <1>6, <2>1
  <2> QED BY <2>1, <2>2
<1>8. Waits(r, "deleted") => Waits(q, "deleted")
    BY <1>6 DEF Waits
<1>9. ASSUME Listing(q), Waits(r, "deleted") PROVE Listing(r)
  <2>1. PICK i \in DOMAIN q : q[i] = "caughtUp" /\ \A j \in DOMAIN q : i < j => q[j] # "deleted"
      BY <1>9 DEF Listing
  <2>2. PICK d \in DOMAIN r : r[d] = "deleted"
      BY <1>9 DEF Waits
  <2>3. i \in Nat /\ d \in Nat /\ n + d \in DOMAIN q /\ q[n + d] = "deleted"
      BY <1>1, <1>6, <2>2
  <2>4. ~(i < n + d)
      BY <2>1, <2>3
  <2>5. d >= 1
      BY <1>4
  <2>6. i > n
      BY <1>1, <2>3, <2>4, <2>5
  <2>7. i - n \in DOMAIN r /\ r[i - n] = "caughtUp"
      BY <1>7, <2>1, <2>6
  <2>8. \A j \in DOMAIN r : i - n < j => r[j] # "deleted"
    <3> SUFFICES ASSUME NEW j \in DOMAIN r, i - n < j PROVE r[j] # "deleted"
        OBVIOUS
    <3>1. j \in Nat /\ n + j \in DOMAIN q /\ r[j] = q[n + j]
        BY <1>6
    <3>2. i < n + j
        BY <1>1, <2>3, <3>1
    <3> QED BY <2>1, <3>1, <3>2
  <2> QED BY <2>7, <2>8 DEF Listing
<1> QED BY <1>8, <1>9 DEF r

-----------------------------------------------------------------------------
(* ... the server *)

LEMMA SameHealing ==
    ASSUME Healing, UNCHANGED <<group, up, frames, row, engine, events, conv, tasks, synced>>
    PROVE  Healing'
  BY DEF Healing, Fresh, Healthy

\* After these steps the connection is not fresh.
LEMMA StaleHealing ==
    ASSUME ~synced' \/ ~up' \/ Has(frames', "connected"),
           up' /\ group'.in => LastTold(frames', group'.name)
    PROVE  Healing'
  BY DEF Healing, Fresh

\* A rename is told to a member, as the last name.
LEMMA RenameTold ==
    ASSUME IInv, Renamed,
           IF group.in THEN Tell(Event("updated", group'.name)) ELSE UNCHANGED frames
    PROVE  /\ group'.in = group.in
           /\ up /\ group.in => /\ LastTold(frames', group'.name)
                                /\ Has(frames', "updated")
                                /\ \A k : k # "updated" => (Has(frames', k) <=> Has(frames, k))
           /\ ~(up /\ group.in) => UNCHANGED frames
<1>1. group'.in = group.in /\ group'.name \in Names
    BY GroupTyped DEF IInv, Outside
<1>2. CASE up /\ group.in
  <2> DEFINE e == Event("updated", group'.name)
  <2>1. e \in Frame /\ e.kind = "updated" /\ e.name = group'.name
      BY <1>1, FrameTyped DEF Event
  <2>2. frames' = Append(frames, e) /\ frames \in Seq(Frame)
      BY <1>2 DEF Tell, IInv, Outside
  <2> HIDE DEF e
  <2>3. LastTold(frames', group'.name)
      BY <2>1, <2>2, LastToldParts
  <2>4. \A k : Has(frames', k) <=> Has(frames, k) \/ e.kind = k
      BY <2>1, <2>2, HasParts
  <2> QED BY <1>1, <1>2, <2>1, <2>3, <2>4
<1>3. CASE ~(up /\ group.in)
    BY <1>1, <1>3 DEF Tell
<1> QED BY <1>2, <1>3

LEMMA HealingRename == ASSUME IInv, Healing, Rename PROVE Healing'
<1>1. UNCHANGED <<up, row, engine, events, conv, tasks, synced>>
    BY DEF Rename, telegram, history
<1>2. /\ group'.in = group.in
      /\ up /\ group.in => /\ LastTold(frames', group'.name)
                           /\ Has(frames', "updated")
                           /\ \A k : k # "updated" => (Has(frames', k) <=> Has(frames, k))
      /\ ~(up /\ group.in) => UNCHANGED frames
    BY RenameTold DEF Rename
<1>3. ASSUME Fresh' PROVE Healthy'
  <2>1. up /\ Fresh
      BY <1>1, <1>2, <1>3 DEF Fresh
  <2>2. Healthy
      BY <2>1 DEF Healing
  <2>3. CASE group.in
      BY <1>1, <1>2, <2>1, <2>2, <2>3 DEF Healthy
  <2>4. CASE ~group.in
      BY <1>1, <1>2, <2>2, <2>4 DEF Healthy
  <2> QED BY <2>3, <2>4
<1> QED BY <1>1, <1>2, <1>3 DEF Healing

\* What is absent from a list is marked as deleted.
LEMMA GoneParts == ASSUME IInv PROVE ~Gone.known \/ Gone.deleted
<1>1. row \in Row
    BY DEF IInv, Outside
<1> QED BY <1>1 DEF Gone, Row

LEMMA HealingMove == ASSUME IInv, Healing, Move PROVE Healing'
<1>1. synced' = FALSE /\ up' = up
    BY DEF Move
<1>2. ASSUME up, group'.in PROVE LastTold(frames', group'.name)
  <2> DEFINE e == Event("joined", 0)
  <2>1. ~group.in
      BY <1>2, GroupTyped DEF Move, IInv, Outside
  <2>2. e \in Frame /\ e.kind = "joined"
      BY Kinds DEF Event
  <2>3. frames' = Append(frames, e) /\ frames \in Seq(Frame)
      BY <1>2, <2>1 DEF Move, Tell, IInv, Outside
  <2> HIDE DEF e
  <2> QED BY <2>2, <2>3, LastToldParts
<1> QED BY <1>1, <1>2, StaleHealing

LEMMA HealingPost == ASSUME IInv, Healing, Post PROVE Healing'
<1> DEFINE e == Event("message", 0)
<1>1. e \in Frame /\ e.kind = "message"
    BY Kinds DEF Event
<1>2. /\ frames' = Append(frames, e) /\ up /\ frames \in Seq(Frame)
      /\ UNCHANGED <<group, up, row, engine, events, conv, tasks, synced>>
    BY DEF Post, Tell, telegram, history, IInv, Outside
<1> HIDE DEF e
<1>3. /\ \A k : k # "message" => (Has(frames', k) <=> Has(frames, k))
      /\ LastTold(frames, group.name) => LastTold(frames', group.name)
    BY <1>1, <1>2, HasParts, LastToldParts
<1>4. ASSUME Fresh' PROVE Healthy'
  <2>1. Healthy
      BY <1>2, <1>3, <1>4 DEF Healing, Fresh
  <2> QED BY <1>2, <1>3, <2>1 DEF Healthy
<1> QED BY <1>2, <1>3, <1>4 DEF Healing

LEMMA HealingConnect == ASSUME IInv, Healing, Connect PROVE Healing'
<1> DEFINE e == Event("connected", 0)
<1>1. e \in Frame /\ e.kind = "connected"
    BY Kinds DEF Event
<1>2. frames' = Append(frames, e) /\ frames \in Seq(Frame)
    BY DEF Connect, IInv, Outside
<1> HIDE DEF e
<1>3. Has(frames', "connected") /\ LastTold(frames', group'.name)
    BY <1>1, <1>2, HasParts, LastToldParts
<1> QED BY <1>3, StaleHealing

LEMMA HealingCommands == ASSUME IInv, Healing, Commands PROVE Healing'
<1>1. synced' = FALSE
    BY DEF Commands, Sync, RenameGroup, Leave, Command
<1>2. ASSUME up', group'.in PROVE LastTold(frames', group'.name)
  <2>1. CASE Sync
      BY <1>2, <2>1 DEF Sync, Healing
  <2>2. CASE RenameGroup
    <3>1. up /\ group.in
        BY <1>2, <2>2 DEF RenameGroup
    <3> QED BY <2>2, <3>1, RenameTold DEF RenameGroup
  <2>3. CASE Leave
    <3>1. ~group'.in
        BY <2>3 DEF Leave, IInv, Outside, Group
    <3> QED BY <1>2, <3>1
  <2> QED BY <2>1, <2>2, <2>3 DEF Commands
<1> QED BY <1>1, <1>2, StaleHealing

-----------------------------------------------------------------------------
(* ... the engine *)

\* A frame of this kind is read.
LEMMA ReadHealing ==
    ASSUME IInv, Healing, NEW kind, Handle(kind), UNCHANGED <<up, group>>
    PROVE  /\ ~engine.is
           /\ \A k : Has(frames, k) <=> kind = k \/ Has(frames', k)
           /\ up' /\ group'.in => LastTold(frames', group'.name)
           /\ up /\ group.in /\ kind = "updated" =>
                 \/ Head(frames).name = group.name
                 \/ \E k \in {"connected", "joined", "removed", "updated"} : Has(frames', k)
<1>1. ~engine.is /\ frames # <<>> /\ Head(frames).kind = kind /\ frames' = Tail(frames)
    BY DEF Handle
<1>2. frames \in Seq(Frame) /\ Head(frames) \in Frame
    BY <1>1, TailTyped DEF IInv, Outside
<1>3. \A k : Has(frames, k) <=> kind = k \/ Has(frames', k)
    BY <1>1, <1>2, HasParts
<1>4. ASSUME up, group.in
      PROVE  /\ LastTold(frames', group.name)
             /\ kind = "updated" =>
                   \/ Head(frames).name = group.name
                   \/ \E k \in {"connected", "joined", "removed", "updated"} : Has(frames', k)
  <2>1. LastTold(frames, group.name)
      BY <1>4 DEF Healing
  <2> QED BY <1>1, <1>2, <2>1, LastToldParts
<1> QED BY <1>1, <1>3, <1>4

\* ... and the connection was as fresh before.
LEMMA ReadFresh ==
    ASSUME IInv, Healing, NEW kind, kind # "connected", Handle(kind),
           UNCHANGED <<up, group, synced>>, Fresh'
    PROVE  Healthy
  BY ReadHealing DEF Healing, Fresh

LEMMA HealingFetchList == ASSUME IInv, Healing, FetchList PROVE Healing'
<1>1. /\ Handle("connected") /\ UNCHANGED <<up, group, tasks>>
      /\ engine' = [is |-> TRUE, group |-> group]
    BY DEF FetchList
<1>2. /\ \A k : Has(frames, k) <=> "connected" = k \/ Has(frames', k)
      /\ up' /\ group'.in => LastTold(frames', group'.name)
    BY <1>1, ReadHealing
<1>3. ASSUME synced' PROVE Healthy'
  <2>1. tasks["chat"].pc = "idle" /\ ~Has(frames, "joined") /\ ~Has(frames, "removed")
      BY <1>3 DEF FetchList, Has
  <2> QED BY <1>1, <1>2, <2>1 DEF Healthy
<1> QED BY <1>2, <1>3 DEF Healing, Fresh

LEMMA HealingWriteList == ASSUME IInv, Healing, WriteList PROVE Healing'
<1>1. /\ engine.is /\ ~engine'.is /\ Emit("caughtUp")
      /\ UNCHANGED <<group, up, frames, conv, tasks>>
    BY DEF WriteList, NoList, telegram
<1>2. up' /\ group'.in => LastTold(frames', group'.name)
    BY <1>1 DEF Healing
<1>3. CASE row' = Listed(engine.group) /\ UNCHANGED synced
  <2> SUFFICES ASSUME Fresh' PROVE Healthy'
      BY <1>2 DEF Healing
  <2>1. Healthy
      BY <1>1, <1>3 DEF Healing, Fresh
  <2>2. Listing(events')
    <3>1. events \in Seq(SyncEvents) /\ "caughtUp" \in SyncEvents
        BY DEF IInv, Outside, SyncEvents
    <3> QED BY <1>1, <3>1, ListingParts DEF Emit
  <2>3. engine.group.in = group.in /\ group.in \in BOOLEAN
      BY <1>1, <2>1 DEF Healthy, IInv, Outside, Group
  <2>4. CASE group.in
    <3>1. row' = Seen(engine.group.name)
        BY <1>3, <2>3, <2>4 DEF Listed
    <3>2. row'.known /\ ~row'.deleted /\ row'.name = engine.group.name
        BY <3>1 DEF Seen
    <3> QED BY <1>1, <2>1, <2>2, <2>3, <2>4, <3>2 DEF Healthy, Mending
  <2>5. CASE ~group.in
    <3>1. row' = Gone
        BY <1>3, <2>3, <2>5 DEF Listed
    <3>2. ~row'.known \/ row'.deleted
        BY <3>1, GoneParts
    <3> QED BY <1>1, <2>1, <2>5, <3>2 DEF Healthy
  <2> QED BY <2>4, <2>5
<1>4. CASE synced' = FALSE
    BY <1>2, <1>4, StaleHealing
<1> QED BY <1>3, <1>4 DEF WriteList

LEMMA HealingOnMoved == ASSUME IInv, Healing, OnJoined \/ OnRemoved PROVE Healing'
<1>1. PICK kind \in {"joined", "removed"} : Handle(kind)
    BY DEF OnJoined, OnRemoved
<1>2. UNCHANGED <<up, group>> /\ (synced' = synced \/ ~synced')
    BY DEF OnJoined, OnRemoved, Error, history
<1>3. Has(frames, kind) /\ (up' /\ group'.in => LastTold(frames', group'.name))
    BY <1>1, <1>2, ReadHealing
<1>4. ~Fresh'
  <2> SUFFICES ASSUME Fresh' PROVE FALSE
      OBVIOUS
  <2>1. UNCHANGED synced
      BY <1>2 DEF Fresh
  <2>2. Healthy
      BY <1>1, <1>2, <2>1, ReadFresh
  <2> QED BY <1>1, <1>3, <2>2 DEF Healthy
<1> QED BY <1>3, <1>4 DEF Healing

\* What is announced of a group the user is in mends as before.
LEMMA EmitMending ==
    ASSUME IInv, NEW e \in SyncEvents, e # "deleted", Emit(e), NEW n,
           Mending(tasks["loop"], conv, row.name, events), n = row.name \/ e = "changed"
    PROVE  Mending(tasks["loop"], conv, n, events')
<1>1. events \in Seq(SyncEvents) /\ events' = Append(events, e)
    BY DEF IInv, Outside, Emit
<1>2. \A k : Waits(events', k) <=> Waits(events, k) \/ e = k
    BY <1>1, WaitsParts
<1>3. Listing(events) => Listing(events')
    BY <1>1, ListingParts
<1> QED BY <1>2, <1>3 DEF Mending

LEMMA HealingOnUpdated == ASSUME IInv, Healing, OnUpdated PROVE Healing'
<1>1. /\ Handle("updated") /\ Emit("changed")
      /\ UNCHANGED <<up, group, engine, conv, tasks, synced>>
    BY DEF OnUpdated, telegram, history
<1>2. /\ ~engine.is
      /\ \A k : Has(frames, k) <=> "updated" = k \/ Has(frames', k)
      /\ up' /\ group'.in => LastTold(frames', group'.name)
      /\ up /\ group.in => \/ Head(frames).name = group.name
                           \/ \E k \in {"connected", "joined", "removed", "updated"} : Has(frames', k)
    BY <1>1, ReadHealing
<1>3. /\ row'.known = row.known /\ row'.deleted = row.deleted
      /\ row.known => row'.name = Head(frames).name
    BY DEF OnUpdated, IInv, Outside, Row
<1>4. ASSUME Fresh' PROVE Healthy'
  <2>1. Healthy /\ up /\ ~Has(frames', "connected")
      BY <1>1, <1>4, ReadFresh DEF Fresh
  <2>2. ~Has(frames', "joined") /\ ~Has(frames', "removed")
      BY <1>2, <2>1 DEF Healthy
  <2>3. ASSUME group.in
        PROVE  /\ row'.known /\ ~row'.deleted
               /\ Mending(tasks["loop"], conv, row'.name, events')
               /\ ~Has(frames', "updated") => row'.name = group.name
    <3>1. row.known /\ ~row.deleted /\ Mending(tasks["loop"], conv, row.name, events)
        BY <1>2, <2>1, <2>3 DEF Healthy
    <3>2. Mending(tasks["loop"], conv, row'.name, events')
      <4>1. "changed" \in SyncEvents
          BY DEF SyncEvents
      <4> QED BY <1>1, <3>1, <4>1, EmitMending
    <3>3. ~Has(frames', "updated") => Head(frames).name = group.name
        BY <1>2, <2>1, <2>2, <2>3
    <3> QED BY <1>3, <3>1, <3>2, <3>3
  <2>4. ~group.in => ~row'.known \/ row'.deleted
      BY <1>2, <1>3, <2>1 DEF Healthy
  <2>5. tasks["chat"].pc = "idle"
      BY <2>1 DEF Healthy
  <2> QED BY <1>1, <1>2, <2>2, <2>3, <2>4, <2>5 DEF Healthy
<1> QED BY <1>2, <1>4 DEF Healing

LEMMA HealingOnMessage == ASSUME IInv, Healing, OnMessage PROVE Healing'
<1>1. Handle("message") /\ UNCHANGED <<up, group, engine, conv, tasks>>
    BY DEF OnMessage, telegram
<1>2. /\ ~engine.is
      /\ \A k : Has(frames, k) <=> "message" = k \/ Has(frames', k)
      /\ up' /\ group'.in => LastTold(frames', group'.name)
    BY <1>1, ReadHealing
<1>3. ASSUME Fresh' PROVE Healthy'
  <2>1. /\ UNCHANGED synced
        /\ IF row.known \/ group.in
           THEN /\ row' = IF row.known THEN row ELSE Seen(group.name)
                /\ Emit("message")
           ELSE UNCHANGED <<row, events>>
      BY <1>3 DEF OnMessage, Error, Fresh, history
  <2>2. Healthy
      BY <1>1, <1>3, <2>1, ReadFresh
  <2>3. UNCHANGED row
      BY <1>2, <2>1, <2>2 DEF Healthy
  <2>4. ASSUME group.in PROVE Mending(tasks["loop"], conv, row.name, events')
    <3>1. row.known /\ Mending(tasks["loop"], conv, row.name, events)
        BY <1>2, <2>2, <2>4 DEF Healthy
    <3>2. "message" \in SyncEvents /\ Emit("message")
        BY <2>1, <3>1 DEF SyncEvents
    <3> QED BY <3>1, <3>2, EmitMending
  <2> QED BY <1>1, <1>2, <2>2, <2>3, <2>4 DEF Healthy
<1> QED BY <1>2, <1>3 DEF Healing

-----------------------------------------------------------------------------
(* ... the run loop *)

LEMMA HealingTakeEvent == ASSUME IInv, Healing, TakeEvent PROVE Healing'
<1> DEFINE e == Head(events)
           m == tasks'["loop"]
<1>1. /\ events \in Seq(SyncEvents) /\ events # <<>> /\ events' = Tail(events)
      /\ tasks["loop"].pc = "idle"
      /\ UNCHANGED <<group, up, frames, row, engine, conv>>
    BY DEF IInv, Outside, TakeEvent, telegram
<1>2. e \in SyncEvents
    BY <1>1, TailTyped
<1>3. /\ \A k : Waits(events, k) <=> e = k \/ Waits(events', k)
      /\ Listing(events) => Listing(events') \/ (e = "caughtUp" /\ ~Waits(events', "deleted"))
    BY <1>1, <1>2, WaitsParts, ListingParts
<1>4. up' /\ group'.in => LastTold(frames', group'.name)
    BY <1>1 DEF Healing
<1> SUFFICES ASSUME Fresh' PROVE Healthy'
    BY <1>4 DEF Healing
<1>5. UNCHANGED synced /\ Become("loop", Begun(e))
    BY DEF TakeEvent, Error, Fresh, history
<1> HIDE DEF e, Begun
<1>6. Moved("loop")
    BY <1>2, <1>5, TakeParts
<1>7. tasks'["chat"] = tasks["chat"]
    BY <1>6 DEF Moved, Tasks
<1>8. ASSUME row.known, ~row.deleted, Mending(tasks["loop"], conv, row.name, events)
      PROVE  Mending(m, conv, row.name, events')
  <2>1. CASE Listing(events')
      BY <2>1 DEF Mending
  <2>2. CASE ~Waits(events', "deleted") /\ e = "caughtUp"
    <3>1. m.pc = "reconcile"
        BY <1>2, <1>5, <2>2, TakeParts
    <3> QED BY <2>2, <3>1 DEF Mending, Opens, Named
  <2>3. CASE ~Listing(events) /\ e # "caughtUp"
    <3>1. /\ ~Waits(events, "deleted")
          /\ Opens(tasks["loop"], conv) \/ Open(tasks["loop"], conv)
          /\ Waits(events, "changed") \/ Named(tasks["loop"], conv, row.name)
        BY <1>8, <2>3 DEF Mending
    <3>2. /\ e # "deleted" /\ ~Waits(events', "deleted")
          /\ conv.is /\ ~conv.closed
          /\ e = "changed" \/ Waits(events', "changed") \/ conv.name = row.name
        BY <1>1, <1>3, <3>1 DEF Opens, Open, Named, Making, Naming
    <3>3. /\ \/ m.pc = "idle" /\ m.then = "idle"
             \/ e # "changed" /\ m.pc = "ensure" /\ m.then \in {"idle", "forward"}
             \/ e = "changed" /\ m.pc = "edit" /\ m.then = "send" /\ m.seen.name = row.name
          /\ e = "changed" => conv.name = row.name \/ m.pc = "edit"
        BY <1>2, <1>5, <1>8, <2>3, <3>2, TakeParts
    <3>4. Open(m, conv)
        BY <3>2, <3>3 DEF Open
    <3>5. e = "changed" \/ conv.name = row.name => Named(m, conv, row.name)
        BY <3>2, <3>3 DEF Named, Making, Naming
    <3> QED BY <3>2, <3>4, <3>5 DEF Mending
  <2>4. e = "caughtUp" /\ ~Listing(events) => ~Waits(events', "deleted")
      BY <1>3, <1>8 DEF Mending
  <2> QED BY <1>3, <2>1, <2>2, <2>3, <2>4
<1>9. Healthy
    BY <1>1, <1>5 DEF Healing, Fresh
<1> QED BY <1>1, <1>7, <1>8, <1>9 DEF Healthy

\* Events that are lost take no list with them that is not looked at at once.
LEMMA HealingLag == ASSUME IInv, Healing, Lag PROVE Healing'
<1>1. /\ UNCHANGED <<group, up, frames, row, engine, conv, synced>>
      /\ Become("loop", [Rest EXCEPT !.pc = "reconcile"])
    BY DEF Lag, telegram
<1>2. Moved("loop") /\ tasks'["loop"].pc = "reconcile"
    BY <1>1, ReconcileParts DEF Tasks
<1>3. tasks'["chat"] = tasks["chat"]
    BY <1>2 DEF Moved, Tasks
<1>4. /\ ~Waits(events, "deleted") => ~Waits(events', "deleted")
      /\ Listing(events) => Listing(events') \/ ~Waits(events', "deleted")
  <2>1. PICK n \in 1..Len(events) : events' = SubSeq(events, n + 1, Len(events))
      BY DEF Lag
  <2>2. events \in Seq(SyncEvents)
      BY DEF IInv, Outside
  <2> QED BY <2>1, <2>2, SuffixParts
<1>5. Mending(tasks["loop"], conv, row.name, events) => Mending(tasks'["loop"], conv, row.name, events')
  <2>1. Opens(tasks'["loop"], conv) /\ Named(tasks'["loop"], conv, row.name)
      BY <1>2 DEF Opens, Named
  <2> QED BY <1>4, <2>1 DEF Mending
<1>6. ASSUME Fresh' PROVE Healthy'
  <2>1. Healthy
      BY <1>1, <1>6 DEF Healing, Fresh
  <2> QED BY <1>1, <1>3, <1>5, <2>1 DEF Healthy
<1> QED BY <1>1, <1>6 DEF Healing

\* A step that leaves an open conversation, and its name, as they are.
LEMMA StaysOpen ==
    ASSUME NEW k, NEW c, NEW d, NEW m, Opens(k, c) \/ Open(k, c),
           k.pc \notin {"reconcile"} \cup Naming, d.is = c.is, ~d.closed, d.name = c.name,
           c.is, m.pc \notin {"reconcile", "closeTopic", "close"} \cup Naming,
           m.then # "closeTopic"
    PROVE  /\ Open(m, d)
           /\ \A n : Named(k, c, n) => Named(m, d, n)
  BY DEF Open, Named

\* What a task does with the topic keeps the conversation open, or opens it, and under the name
\* that the row had when the task looked.
LEMMA TopicMends ==
    ASSUME IInv, NEW t \in Tasks, Topic(t), ~GiveUp(t), row.known, ~row.deleted,
           Opens(tasks[t], conv) \/ Open(tasks[t], conv)
    PROVE  /\ Opens(tasks'[t], conv') \/ Open(tasks'[t], conv')
           /\ Named(tasks[t], conv, row.name) => Named(tasks'[t], conv', row.name)
<1> DEFINE k == tasks[t]
           m == tasks'[t]
           Mends == /\ Opens(m, conv') \/ Open(m, conv')
                    /\ Named(k, conv, row.name) => Named(m, conv', row.name)
<1>1. k.then \in Thens /\ Fits(t, k, lock, conv, topics)
    BY InsideTyped DEF Task, Thens
<1>2. /\ k.pc \in Making => k.then \in {"idle", "forward"}
      /\ k.then = "unlock" => k.pc \in {"send", "recreate", "map"}
      /\ k.then = "forward" => k.pc \in Making
      /\ k.pc \in {"topic", "create"} => ~conv.is
      /\ k.pc \in Holding \cup {"forward"} => conv.is
    BY <1>1 DEF Fits
<1>3. ASSUME k.pc \notin Making \cup Naming \cup {"reconcile", "reopen"}
      PROVE  conv.is /\ ~conv.closed /\ k.then # "closeTopic" /\ k.pc \notin {"closeTopic", "close"}
    BY <1>3 DEF Opens, Open
<1>4. CASE Reconcile(t)
  <2>1. k.pc = "reconcile" /\ conv' = conv
      BY <1>4, ReconcileTopic DEF telegram
  <2>2. CASE ~conv.is
    <3>1. m.pc = "ensure" /\ m.seen.name = row.name
        BY <1>4, <2>2, ReconcileTopic
    <3> QED BY <2>1, <2>2, <3>1 DEF Opens, Named, Making
  <2>3. CASE conv.is /\ conv.name # row.name
    <3>1. m.pc = "edit" /\ m.then = "reopen" /\ m.conv = conv /\ m.seen.name = row.name
        BY <1>4, <2>3, ReconcileTopic
    <3> QED BY <2>1, <2>3, <3>1 DEF Opens, Named, Naming
  <2>4. CASE conv.is /\ conv.name = row.name
    <3>1. m.pc = "reopen" /\ m.then = "idle" /\ m.conv = conv
        BY <1>4, <2>4, ReconcileTopic
    <3> QED BY <2>1, <2>4, <3>1 DEF Opens, Named, Making, Naming
  <2> QED BY <2>2, <2>3, <2>4
<1>5. ASSUME k.pc = "edit", m.pc = "name", Alike(k, m), conv' = conv PROVE Mends
    BY <1>5 DEF Opens, Open, Named, Naming, Making, Alike
<1>6. CASE Edit(t)
    BY <1>5, <1>6, EditTopic
<1>7. CASE SetName(t)
  <2>1. /\ k.pc = "name" /\ Leaves(k, m)
        /\ conv'.is = conv.is /\ conv'.closed = conv.closed /\ conv'.name = k.seen.name
      BY <1>7, SetNameTopic
  <2>2. k.then \in {"idle", "reopen", "send", "closeTopic"}
      BY <1>1, <1>2, <2>1 DEF Thens, Making
  <2>3. m.pc = k.then /\ m.then = "idle" /\ (k.then # "idle" => m.conv = k.conv)
      BY <2>1, <2>2 DEF Leaves
  <2>4. Opens(m, conv') \/ Open(m, conv')
    <3>1. CASE Opens(k, conv)
        BY <2>1, <2>3, <3>1 DEF Opens, Making, Naming
    <3>2. CASE Open(k, conv)
        BY <2>1, <2>2, <2>3, <3>2 DEF Open
    <3> QED BY <3>1, <3>2
  <2>5. Named(k, conv, row.name) => Named(m, conv', row.name)
      BY <2>1, <2>2, <2>3 DEF Named, Making, Naming
  <2> QED BY <2>4, <2>5
<1>8. CASE Reopen(t)
  <2>1. k.pc = "reopen" /\ conv.is /\ conv'.is = conv.is /\ conv'.name = conv.name
      BY <1>2, <1>8, ReopenParts DEF Holding
  <2>2. k.then # "closeTopic" /\ (k.conv.closed = conv.closed \/ ~conv.closed)
      BY <2>1 DEF Opens, Open, Making, Naming
  <2>3. CASE ~k.conv.closed /\ conv' = conv /\ m.pc = "idle" /\ m.then = "idle"
      BY <2>1, <2>2, <2>3, StaysOpen DEF Naming
  <2>4. CASE ~conv'.closed /\ m.pc = "reopenTopic" /\ Alike(k, m)
      BY <2>1, <2>2, <2>4, StaysOpen DEF Naming, Alike
  <2> QED BY <1>8, <2>3, <2>4, ReopenParts
<1>9. ASSUME k.pc = "reopenTopic", m.pc = "idle", m.then = "idle", conv' = conv PROVE Mends
    BY <1>3, <1>9, StaysOpen DEF Making, Naming
<1>10. CASE ReopenTopic(t)
    BY <1>9, <1>10, ReopenTopicParts
\* ensure_conversation finds one.
<1>11. ASSUME k.pc \in {"ensure", "lock"}, conv.is, Leaves(k, m), conv' = conv PROVE Mends
  <2>1. ~conv.closed /\ k.then \in {"idle", "forward"}
      BY <1>2, <1>11 DEF Opens, Open, Making, Naming
  <2>2. m.pc = k.then /\ m.then = "idle"
      BY <1>11, <2>1 DEF Leaves
  <2> QED BY <1>11, <2>1, <2>2, StaysOpen DEF Naming
\* ... or comes nearer to making one.
<1>12. ASSUME ~conv.is, conv' = conv, k.pc \in Making, m.pc \in Making, m.seen = k.seen PROVE Mends
    BY <1>12 DEF Opens, Named, Making, Naming
<1>13. CASE Ensure(t)
    BY <1>11, <1>12, <1>13, EnsureTopic DEF telegram, Making, Alike
<1>14. CASE Lock(t)
    BY <1>11, <1>12, <1>14, LockTopic DEF Making, Alike
<1>15. CASE MakeTopic(t)
    BY <1>2, <1>12, <1>15, MakeTopicParts DEF Making
<1>16. CASE Create(t)
  <2>1. /\ k.pc = "create" /\ ~conv.is /\ k.then \in {"idle", "forward"} /\ Leaves(k, m)
        /\ conv'.is /\ ~conv'.closed /\ conv'.name = k.seen.name
      BY <1>16, CreateParts
  <2>2. m.pc = k.then /\ m.then = "idle"
      BY <2>1 DEF Leaves
  <2> QED BY <2>1, <2>2 DEF Open, Named, Making, Naming
<1>17. CASE Forward(t)
  <2>1. k.pc = "forward" /\ conv' = conv /\ m.pc = "send" /\ m.then = "unlock"
      BY <1>17, ForwardParts
  <2> QED BY <1>3, <2>1, StaysOpen DEF Making, Naming
\* What is sent leaves the conversation open.
<1>18. ASSUME k.pc \in {"send", "recreate", "map"},
              conv'.is = conv.is, conv'.name = conv.name, ~conv'.closed \/ conv' = conv,
              \/ Leaves(k, m)
              \/ m.pc \in {"recreate", "map"} /\ m.then = k.then
       PROVE  Mends
  <2>1. k.then # "closeTopic" /\ conv.is /\ ~conv.closed
      BY <1>3, <1>18 DEF Making, Naming
  <2>2. ~conv'.closed
      BY <1>18, <2>1
  <2>3. m.then # "closeTopic" /\ m.pc \notin {"reconcile", "closeTopic", "close"} \cup Naming
      BY <1>1, <1>18, <2>1 DEF Leaves, Thens, Naming
  <2> QED BY <1>18, <2>1, <2>2, <2>3, StaysOpen DEF Naming
<1>19. CASE Send(t)
    BY <1>18, <1>19, SendParts DEF Alike
<1>20. CASE Recreate(t)
    BY <1>18, <1>20, RecreateParts, SentParts
<1>21. CASE MapTopic(t)
    BY <1>18, <1>21, MapParts, SentParts
<1>22. CASE CloseTopic(t) \/ Close(t)
  <2>1. k.pc \in {"closeTopic", "close"}
      BY <1>22 DEF CloseTopic, Close
  <2> QED BY <1>3, <2>1 DEF Making, Naming
<1>23. CASE Ignored(t)
  <2>1. conv' = conv
      BY <1>23, IgnoredParts
  <2>2. \/ k.pc = "topic" /\ m.pc = "create" /\ m.seen = k.seen
        \/ k.pc = "recreate" /\ m.pc = "map" /\ m.then = k.then
        \/ k.pc = "edit" /\ m.pc = "name" /\ Alike(k, m)
        \/ k.pc = "closeTopic"
        \/ k.pc = "reopenTopic" /\ m.pc = "idle" /\ m.then = "idle"
        \/ k.pc \in {"send", "recreate", "map"} /\ Leaves(k, m)
      BY <1>23, IgnoredParts
  <2>3. k.pc # "closeTopic"
      BY <1>3 DEF Making, Naming
  <2> QED BY <1>2, <1>5, <1>9, <1>12, <1>18, <2>1, <2>2, <2>3 DEF Making
<1> QED BY <1>4, <1>6, <1>7, <1>8, <1>10, <1>13, <1>14, <1>15, <1>16, <1>17, <1>19, <1>20, <1>21,
           <1>22, <1>23 DEF Topic

LEMMA HealingTopic == ASSUME IInv, Healing, NEW t \in Tasks, Topic(t) PROVE Healing'
<1>1. UNCHANGED <<group, up, frames, row, engine, events>> /\ Moved(t)
    BY TopicMoves DEF outside
<1>2. up' /\ group'.in => LastTold(frames', group'.name)
    BY <1>1 DEF Healing
<1>3. synced' = synced \/ ~synced'
    BY DEF Topic, Reconcile, Edit, SetName, Reopen, ReopenTopic, Ensure, Lock, MakeTopic, Create, Forward,
       Send, Recreate, MapTopic, CloseTopic, Close, Ignored, GiveUp, Error, unharmed, history
<1>4. ASSUME Fresh' PROVE Healthy'
  <2>1. Healthy
      BY <1>1, <1>3, <1>4 DEF Healing, Fresh
  <2>2. tasks[t].pc # "idle"
      BY DEF Topic, Reconcile, Edit, SetName, Reopen, ReopenTopic, Ensure, Lock, MakeTopic, Create, Forward,
         Send, Recreate, MapTopic, CloseTopic, Close, Ignored, GiveUp
  <2>3. t = "loop"
      BY <2>1, <2>2 DEF Healthy, Tasks
  <2>4. tasks'["chat"] = tasks["chat"]
      BY <1>1, <2>3 DEF Moved, Tasks
  <2>5. ~GiveUp(t)
      BY <1>4 DEF Fresh, GiveUp, Error
  <2>6. ASSUME row.known, ~row.deleted, Mending(tasks["loop"], conv, row.name, events)
        PROVE  Mending(tasks'["loop"], conv', row.name, events)
    <3>1. CASE Listing(events)
        BY <3>1 DEF Mending
    <3>2. CASE ~Listing(events)
      <4>1. /\ ~Waits(events, "deleted")
            /\ Opens(tasks["loop"], conv) \/ Open(tasks["loop"], conv)
            /\ Waits(events, "changed") \/ Named(tasks["loop"], conv, row.name)
          BY <2>6, <3>2 DEF Mending
      <4>2. /\ Opens(tasks'["loop"], conv') \/ Open(tasks'["loop"], conv')
            /\ Named(tasks["loop"], conv, row.name) => Named(tasks'["loop"], conv', row.name)
          BY <2>3, <2>5, <2>6, <4>1, TopicMends
      <4> QED BY <4>1, <4>2 DEF Mending
    <3> QED BY <3>1, <3>2
  <2> QED BY <1>1, <2>1, <2>4, <2>6 DEF Healthy
<1> QED BY <1>2, <1>4 DEF Healing

\* The user's handlers are at work.
LEMMA HealingWrites == ASSUME IInv, Healing, Writes PROVE Healing'
<1>1. /\ UNCHANGED <<group, up, frames, synced>>
      /\ tasks["chat"].pc # "idle"
    BY DEF Writes, SyncWrites, RenameWrites, LeaveWrites, history
<1>2. up' /\ group'.in => LastTold(frames', group'.name)
    BY <1>1 DEF Healing
<1>3. ~Fresh'
    BY <1>1 DEF Healing, Fresh, Healthy
<1> QED BY <1>2, <1>3 DEF Healing

LEMMA HealingInit == Init => Healing
<1> SUFFICES ASSUME Init PROVE Healing
    OBVIOUS
<1>1. ~up /\ ~synced
    BY DEF Init
<1> QED BY <1>1 DEF Healing, Fresh

LEMMA HealingNext == IInv /\ Healing /\ [Next]_vars => Healing'
<1> SUFFICES ASSUME IInv, Healing, [Next]_vars PROVE Healing'
    OBVIOUS
<1>1. CASE Rename
    BY <1>1, HealingRename
<1>2. CASE Move
    BY <1>2, HealingMove
<1>3. CASE Post
    BY <1>3, HealingPost
<1>4. CASE Drop \/ Crash
  <2>1. ~up'
      BY <1>4 DEF Drop, Crash
  <2> QED BY <2>1, StaleHealing
<1>5. CASE Connect
    BY <1>5, HealingConnect
<1>6. CASE Engine
    BY <1>6, HealingFetchList, HealingWriteList, HealingOnMoved, HealingOnUpdated, HealingOnMessage
       DEF Engine
<1>7. CASE TakeEvent
    BY <1>7, HealingTakeEvent
<1>8. CASE Lag
    BY <1>8, HealingLag
<1>9. CASE Commands
    BY <1>9, HealingCommands
<1>10. CASE Writes
    BY <1>10, HealingWrites
<1>11. ASSUME NEW t \in Tasks, Topic(t) PROVE Healing'
    BY <1>11, HealingTopic
<1>12. ASSUME NEW k \in Topics, DeleteTopic(k) PROVE Healing'
  <2>1. UNCHANGED <<group, up, frames, row, engine, events, conv, tasks, synced>>
      BY <1>12 DEF DeleteTopic
  <2> QED BY <2>1, SameHealing
<1>13. CASE UNCHANGED vars
  <2>1. UNCHANGED <<group, up, frames, row, engine, events, conv, tasks, synced>>
      BY <1>13 DEF vars, telegram, history
  <2> QED BY <2>1, SameHealing
<1> QED BY <1>1, <1>2, <1>3, <1>4, <1>5, <1>6, <1>7, <1>8, <1>9, <1>10, <1>11, <1>12, <1>13 DEF Next,
           Server

\* After one connect, for any number of names, moves, messages and topics: once nothing is under
\* way, a member's group has its row, and a conversation that is open and has the group's name;
\* and its topic looks as the conversation says, unless a call was left half-done, two tasks
\* crossed or the user deleted it.  Whatever was lost, raced or failed before the connect.
THEOREM ConnectHeals == Spec => []HealedByConnect
<1>1. Init => Healing /\ Mirror
    BY HealingInit, MirrorInit
<1>2. IInv /\ Restores /\ Healing /\ Mirror /\ [Next]_vars => (Healing /\ Mirror)'
    BY HealingNext, MirrorNext
<1>3. IInv /\ Mirror /\ Healing => HealedByConnect
    BY HealedFollows
<1> QED BY <1>1, <1>2, <1>3, RestoresInvariant, PTL DEF Spec
=============================================================================
