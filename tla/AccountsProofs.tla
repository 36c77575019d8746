--------------------------- MODULE AccountsProofs ---------------------------
(***************************************************************************)
(* Theorems about Accounts, for any number of Mini App requests beside the  *)
(* chat, identities, accounts, sessions, runtimes, failures and crashes.   *)
(***************************************************************************)
EXTENDS Accounts, TLAPS

-----------------------------------------------------------------------------
(* Records *)

Pcs == {"idle", "lookup", "remove", "stopping", "retire", "find", "write", "start", "insert",
        "get", "wipe", "unregister", "unregistered", "drop"}

\* Two tasks that differ in the fields named.
SameTask(a, b) == /\ a \in Task
                  /\ a.who = b.who /\ a.session = b.session /\ a.add = b.add

LEMMA IdleIs ==
    /\ Idle \in Task /\ Idle.pc = "idle" /\ Idle.who = Nobody /\ Idle.session = 0
    /\ Idle.same = FALSE /\ Idle.row = 0 /\ Idle.rt = NoRuntime
  BY DEF Idle, Task

LEMMA PcTask ==
    ASSUME NEW h \in Task, NEW p \in Pcs
    PROVE  LET n == [h EXCEPT !.pc = p]
           IN  /\ SameTask(n, h) /\ n.pc = p /\ n.same = h.same /\ n.row = h.row /\ n.rt = h.rt
  BY DEF Task, Pcs, SameTask

LEMMA RowTask ==
    ASSUME NEW h \in Task, NEW i \in Ids \cup {0}
    PROVE  LET n == [h EXCEPT !.row = i]
           IN  /\ SameTask(n, h) /\ n.pc = h.pc /\ n.same = h.same /\ n.row = i /\ n.rt = h.rt
  BY DEF Task, SameTask

LEMMA SameFlag ==
    ASSUME NEW h \in Task, NEW b \in BOOLEAN
    PROVE  LET n == [h EXCEPT !.same = b]
           IN  /\ SameTask(n, h) /\ n.pc = h.pc /\ n.same = b /\ n.row = h.row /\ n.rt = h.rt
  BY DEF Task, SameTask

LEMMA RtTask ==
    ASSUME NEW h \in Task, NEW r \in Runtimes \cup {NoRuntime}
    PROVE  LET n == [h EXCEPT !.rt = r]
           IN  /\ SameTask(n, h) /\ n.pc = h.pc /\ n.same = h.same /\ n.row = h.row /\ n.rt = r
  BY DEF Task, SameTask

LEMMA WhoTask ==
    ASSUME NEW h \in Task, NEW w \in Identities
    PROVE  LET n == [h EXCEPT !.who = w]
           IN  /\ n \in Task /\ n.pc = h.pc /\ n.who = w /\ n.session = h.session /\ n.row = h.row
               /\ n.same = h.same /\ n.rt = h.rt
  BY DEF Task

LEMMA AddTask ==
    ASSUME NEW h \in Task, NEW b \in BOOLEAN
    PROVE  LET n == [h EXCEPT !.add = b]
           IN  /\ n \in Task /\ n.pc = h.pc /\ n.who = h.who /\ n.session = h.session /\ n.row = h.row
               /\ n.same = h.same /\ n.rt = h.rt
  BY DEF Task

LEMMA SessionTask ==
    ASSUME NEW h \in Task, NEW s \in Sessions
    PROVE  LET n == [h EXCEPT !.session = s]
           IN  /\ n \in Task /\ n.pc = h.pc /\ n.who = h.who /\ n.session = s /\ n.row = h.row
               /\ n.same = h.same /\ n.rt = h.rt
  BY DEF Task

\* The tasks that an action begins or moves in several fields.
Located(h, p, i) == [h EXCEPT !.pc = p, !.row = i]
Replacing(h, i, b) == [h EXCEPT !.pc = "remove", !.row = i, !.same = b]
Awaiting(h, p, r) == [h EXCEPT !.pc = p, !.rt = r]
SignedIn(w, b, s) == [Idle EXCEPT !.pc = "lookup", !.who = w, !.add = b, !.session = s]
Leaving(i, b) == [Idle EXCEPT !.pc = "get", !.row = i, !.add = b]

LEMMA LocatedIs ==
    ASSUME NEW h \in Task, NEW p \in Pcs, NEW i \in Ids \cup {0}
    PROVE  LET n == Located(h, p, i)
           IN  SameTask(n, h) /\ n.pc = p /\ n.same = h.same /\ n.row = i /\ n.rt = h.rt
<1> DEFINE a == [h EXCEPT !.pc = p]
           b == [a EXCEPT !.row = i]
<1>1. Located(h, p, i) = b
    BY DEF Located
<1>2. SameTask(a, h) /\ a \in Task /\ a.pc = p /\ a.same = h.same /\ a.rt = h.rt
    BY PcTask DEF SameTask
<1> HIDE DEF a
<1>3. SameTask(b, a) /\ b.pc = p /\ b.same = h.same /\ b.row = i /\ b.rt = h.rt
    BY <1>2, RowTask
<1> HIDE DEF b
<1> QED BY <1>1, <1>2, <1>3 DEF SameTask

LEMMA ReplacingIs ==
    ASSUME NEW h \in Task, NEW i \in Ids, NEW x \in BOOLEAN
    PROVE  LET n == Replacing(h, i, x)
           IN  SameTask(n, h) /\ n.pc = "remove" /\ n.same = x /\ n.row = i /\ n.rt = h.rt
<1> DEFINE a == Located(h, "remove", i)
           b == [a EXCEPT !.same = x]
<1>1. Replacing(h, i, x) = b
    BY DEF Replacing, Located
<1>2. SameTask(a, h) /\ a \in Task /\ a.pc = "remove" /\ a.row = i /\ a.rt = h.rt
    BY LocatedIs DEF SameTask, Pcs
<1> HIDE DEF a
<1>3. SameTask(b, a) /\ b.pc = "remove" /\ b.same = x /\ b.row = i /\ b.rt = h.rt
    BY <1>2, SameFlag
<1> HIDE DEF b
<1> QED BY <1>1, <1>2, <1>3 DEF SameTask

LEMMA AwaitingIs ==
    ASSUME NEW h \in Task, NEW p \in Pcs, NEW r \in Runtimes \cup {NoRuntime}
    PROVE  LET n == Awaiting(h, p, r)
           IN  SameTask(n, h) /\ n.pc = p /\ n.same = h.same /\ n.row = h.row /\ n.rt = r
<1> DEFINE a == [h EXCEPT !.pc = p]
           b == [a EXCEPT !.rt = r]
<1>1. Awaiting(h, p, r) = b
    BY DEF Awaiting
<1>2. SameTask(a, h) /\ a \in Task /\ a.pc = p /\ a.same = h.same /\ a.row = h.row
    BY PcTask DEF SameTask
<1> HIDE DEF a
<1>3. SameTask(b, a) /\ b.pc = p /\ b.same = h.same /\ b.row = h.row /\ b.rt = r
    BY <1>2, RtTask
<1> HIDE DEF b
<1> QED BY <1>1, <1>2, <1>3 DEF SameTask

LEMMA SignedInIs ==
    ASSUME NEW w \in Identities, NEW x \in BOOLEAN, NEW s \in Sessions
    PROVE  LET n == SignedIn(w, x, s)
           IN  /\ n \in Task /\ n.pc = "lookup" /\ n.who = w /\ n.session = s /\ n.rt = NoRuntime
               /\ n.row = 0 /\ ~n.same
<1> DEFINE a == [Idle EXCEPT !.pc = "lookup"]
           b == [a EXCEPT !.who = w]
           c == [b EXCEPT !.add = x]
           d == [c EXCEPT !.session = s]
<1>1. SignedIn(w, x, s) = d
    BY DEF SignedIn
<1>2. a \in Task /\ a.pc = "lookup" /\ a.rt = NoRuntime /\ a.row = 0 /\ a.same = FALSE
  <2>1. SameTask(a, Idle) /\ a.pc = "lookup" /\ a.rt = Idle.rt /\ a.row = Idle.row
             /\ a.same = Idle.same
      BY IdleIs, PcTask DEF Pcs
  <2> QED BY <2>1, IdleIs DEF SameTask
<1> HIDE DEF a
<1>3. b \in Task /\ b.pc = "lookup" /\ b.who = w /\ b.rt = NoRuntime /\ b.row = 0 /\ b.same = FALSE
    BY <1>2, WhoTask
<1> HIDE DEF b
<1>4. c \in Task /\ c.pc = "lookup" /\ c.who = w /\ c.rt = NoRuntime /\ c.row = 0 /\ c.same = FALSE
    BY <1>3, AddTask
<1> HIDE DEF c
<1>5. d \in Task /\ d.pc = "lookup" /\ d.who = w /\ d.session = s /\ d.rt = NoRuntime /\ d.row = 0 /\ d.same = FALSE
    BY <1>4, SessionTask
<1> HIDE DEF d
<1> QED BY <1>1, <1>5

LEMMA LeavingIs ==
    ASSUME NEW i \in Ids, NEW x \in BOOLEAN
    PROVE  LET n == Leaving(i, x)
           IN  n \in Task /\ n.pc = "get" /\ n.row = i /\ n.rt = NoRuntime
<1> DEFINE a == Located(Idle, "get", i)
           b == [a EXCEPT !.add = x]
<1>1. Leaving(i, x) = b
    BY DEF Leaving, Located
<1>2. a \in Task /\ a.pc = "get" /\ a.row = i /\ a.rt = NoRuntime
  <2>1. SameTask(a, Idle) /\ a.pc = "get" /\ a.row = i /\ a.rt = Idle.rt
      BY IdleIs, LocatedIs DEF Pcs
  <2> QED BY <2>1, IdleIs DEF SameTask
<1> HIDE DEF a
<1>3. b \in Task /\ b.pc = "get" /\ b.row = i /\ b.rt = NoRuntime
    BY <1>2, AddTask
<1> HIDE DEF b
<1> QED BY <1>1, <1>3

RuntimePcs == {"off", "on", "invalid", "marked"}

LEMMA PcRuntime ==
    ASSUME NEW x \in Runtime, NEW p \in RuntimePcs
    PROVE  LET y == [x EXCEPT !.pc = p]
           IN  y \in Runtime /\ y.pc = p /\ y.id = x.id /\ y.stop = x.stop /\ y.handle = x.handle
  BY DEF Runtime, RuntimePcs

LEMMA StopRuntime ==
    ASSUME NEW x \in Runtime, NEW b \in BOOLEAN
    PROVE  LET y == [x EXCEPT !.stop = b]
           IN  y \in Runtime /\ y.pc = x.pc /\ y.id = x.id /\ y.stop = b
  BY DEF Runtime

LEMMA HandleRuntime ==
    ASSUME NEW x \in Runtime, NEW b \in BOOLEAN
    PROVE  LET y == [x EXCEPT !.handle = b]
           IN  y \in Runtime /\ y.pc = x.pc /\ y.id = x.id /\ y.stop = x.stop
  BY DEF Runtime

LEMMA OffIs == Off \in Runtime /\ Off.pc = "off" /\ Off.id = 0 /\ Off.stop = FALSE
  BY DEF Off, Runtime

\* set_account_status leaves everything else as it was.
LEMMA WithStatusIs ==
    ASSUME rows \in [Ids -> Row], NEW i \in Ids, NEW s \in {"reauth", "disconnected"}
    PROVE  LET w == WithStatus(i, s)
           IN  /\ w \in [Ids -> Row]
               /\ \A k \in Ids : k # i => w[k] = rows[k]
               /\ w[i].who = rows[i].who /\ w[i].status = s /\ w[i].session = 0
<1> DEFINE a == [rows EXCEPT ![i].status = s]
           b == [a EXCEPT ![i].session = 0]
<1>1. WithStatus(i, s) = b
    BY DEF WithStatus
<1>2. /\ a \in [Ids -> Row]
      /\ \A k \in Ids : k # i => a[k] = rows[k]
      /\ a[i].who = rows[i].who /\ a[i].status = s
    BY DEF Row
<1> HIDE DEF a
<1>3. /\ b \in [Ids -> Row]
      /\ \A k \in Ids : k # i => b[k] = a[k]
      /\ b[i].who = a[i].who /\ b[i].status = a[i].status /\ b[i].session = 0
    BY <1>2 DEF Row
<1> HIDE DEF b
<1> QED BY <1>1, <1>2, <1>3

-----------------------------------------------------------------------------
(* The inductive invariant *)

Connecting == {"lookup", "remove", "stopping", "retire", "find", "write", "start", "insert"}
HasRow == {"remove", "stopping", "retire", "start", "insert", "get", "wipe", "unregister",
           "unregistered", "drop"}
Waiting == {"stopping", "wipe", "unregistered"}
Emptied == {"stopping", "retire", "unregistered", "drop"}

RowsOK == /\ rows \in [Ids -> Row] /\ created \in 0..MaxRows
          /\ \A i \in Ids : /\ rows[i].who # Nobody => i <= created
                            /\ rows[i].session # 0 <=> rows[i].status = "connected"
                            /\ rows[i].who = Nobody => rows[i].status # "connected"

RuntimesOK == /\ registry \in [Ids -> Runtimes \cup {NoRuntime}]
              /\ runtimes \in [Runtimes -> Runtime]
              /\ \A r \in Runtimes : Running(r) => runtimes[r].id \in Ids

RestOK == /\ revoked \subseteq 1..issued /\ issued \in 0..MaxSessions
          /\ boot \subseteq Ids
          /\ crossed \subseteq Ids /\ raced \subseteq crossed /\ overdue \subseteq Ids
          /\ faults \in 0..MaxFaults /\ breaks \in 0..MaxBreaks

Typed == RowsOK /\ RuntimesOK /\ RestOK /\ tasks \in [Tasks -> Task]

\* What a task has in hand where it is.
Local(h) == /\ h.pc \in Connecting => h.who \in Identities /\ h.session \in Sessions
            /\ h.pc \in HasRow => h.row \in Ids
            /\ h.rt # NoRuntime <=> h.pc \in Waiting
            /\ h.pc = "lookup" => h.row = 0 /\ ~h.same
            /\ h.pc = "retire" => ~h.same
            /\ h.pc = "find" /\ h.same => h.row # 0
Locals == \A t \in Tasks : Local(tasks[t]) /\ tasks[t].row <= created

\* While the boot is under way nothing else is, and what it has to start is connected.
Booting == /\ boot # {} => /\ raced = {} /\ overdue = {}
                           /\ \A t \in Tasks : tasks[t].pc = "idle"
           /\ \A i \in boot : registry[i] = NoRuntime /\ rows[i].status = "connected"

\* Two tasks at one account are on record, and so are two about to register it.
Apart == \A t, u \in Tasks : /\ t # u /\ tasks[t].pc # "idle" /\ tasks[u].pc # "idle"
                             /\ tasks[t].row = tasks[u].row /\ tasks[t].row # 0
                             => tasks[t].row \in crossed
Races == \A t \in Tasks : tasks[t].pc = "insert" /\ tasks[t].row \notin raced =>
             /\ registry[tasks[t].row] = NoRuntime
             /\ \A u \in Tasks \ {t} : tasks[u].pc = "insert" => tasks[u].row # tasks[t].row

Registered == \A i \in Ids : registry[i] # NoRuntime /\ Running(registry[i]) =>
                                 runtimes[registry[i]].id = i

\* An account that a task has taken out of the registry stays out, unless another is there too.
Told(r) == runtimes[r].stop \/ runtimes[r].pc # "on"
Holds == \A t \in Tasks :
            /\ tasks[t].pc \in Waiting /\ Running(tasks[t].rt) =>
                  runtimes[tasks[t].rt].id = tasks[t].row /\ Told(tasks[t].rt)
            /\ tasks[t].pc \in Emptied /\ tasks[t].row \notin crossed =>
                  registry[tasks[t].row] = NoRuntime
            /\ tasks[t].pc = "wipe" /\ tasks[t].row \notin crossed =>
                  registry[tasks[t].row] = tasks[t].rt

\* NoStray, and: the stop that took the handle waits for the runtime, or gave it up.
Stopped(r) == \/ \E t \in Tasks : tasks[t].rt = r
              \/ runtimes[r].id \in overdue /\ Told(r)
Kept == \A r \in Runtimes : Running(r) =>
           /\ registry[runtimes[r].id] = r \/ Stopped(r) \/ runtimes[r].id \in raced
           /\ ~runtimes[r].handle => Stopped(r)

\* What runs, or is about to, is connected.
Truthful == \A r \in Runtimes : runtimes[r].pc = "on" /\ ~runtimes[r].stop =>
                rows[runtimes[r].id].status = "connected" \/ runtimes[r].id \in Spared
Starts == \A t \in Tasks : tasks[t].pc \in {"start", "insert"} /\ tasks[t].row \notin Spared =>
              \/ rows[tasks[t].row].status = "connected"
              \/ tasks[t].pc = "start" /\ registry[tasks[t].row] # NoRuntime

\* Two accounts of one identity are on record, and a task at an account knows whose it is.
Unique == \A i, k \in Ids : i # k /\ Exists(i) /\ rows[i].who = rows[k].who => i \in crossed
Knowing(h, w, c) ==
    /\ /\ \/ h.pc \in {"remove", "stopping", "find"} /\ h.same
          \/ h.pc = "write" /\ h.row # 0
       /\ w[h.row].who # Nobody
       => w[h.row].who = h.who
    /\ h.pc = "find" /\ ~h.same /\ h.row \notin c \cup {0} => w[h.row].status # "connected"
Knows == \A t \in Tasks : Knowing(tasks[t], rows, crossed)

\* A connected account that is not registered has a task at work on it.
Covered == faults = 0 => \A i \in Ids \ Spared :
              Exists(i) /\ rows[i].status = "connected" =>
                  registry[i] # NoRuntime \/ i \in boot \/ Busy(i)

IInv == /\ Typed /\ Locals /\ Booting /\ Apart /\ Races /\ Registered /\ Holds /\ Kept
        /\ Truthful /\ Starts /\ Unique /\ Knows /\ Covered

LEMMA Names ==
    ASSUME IInv
    PROVE  /\ NoRuntime \notin Runtimes /\ Nobody \notin Identities /\ 0 \notin Ids
           /\ rows \in [Ids -> Row] /\ registry \in [Ids -> Runtimes \cup {NoRuntime}]
           /\ runtimes \in [Runtimes -> Runtime] /\ tasks \in [Tasks -> Task]
           /\ \A i \in Ids : i \in Nat /\ i # 0
           /\ created \in Nat /\ MaxRows \in Nat
  BY NamesAssumption, BoundsAssumption DEF IInv, Typed, RowsOK, RuntimesOK, Ids

\* What a task has in hand, by its place in the code.
LEMMA Facts ==
    ASSUME IInv, NEW t \in Tasks
    PROVE  LET h == tasks[t]
           IN  /\ h \in Task /\ Local(h) /\ h.row <= created
               /\ h.pc \in Connecting => h.who \in Identities /\ h.session \in Sessions
               /\ h.pc \in HasRow => h.row \in Ids
               /\ h.rt \in Runtimes => h.pc \in Waiting
               /\ h.pc \notin Waiting => h.rt = NoRuntime
               /\ h.pc # "idle" => boot = {}
               /\ h.pc \in Pcs
               /\ h.row \in Ids \cup {0} /\ h.rt \in Runtimes \cup {NoRuntime}
  BY Names DEF IInv, Locals, Local, Booting, Task, Pcs

LEMMA InitHolds == ASSUME Init PROVE IInv
<1>1. /\ \A i \in Ids : rows[i] = NoRow /\ registry[i] = NoRuntime
      /\ \A r \in Runtimes : runtimes[r] = Off
      /\ \A t \in Tasks : tasks[t] = Idle
      /\ boot = {} /\ crossed = {} /\ raced = {} /\ overdue = {} /\ created = 0
    BY DEF Init
<1>2. RowsOK
  <2>1. NoRow \in Row /\ NoRow.who = Nobody /\ NoRow.session = 0 /\ NoRow.status = "disconnected"
      BY DEF NoRow, Row
  <2>2. rows \in [Ids -> Row] /\ created \in 0..MaxRows
      BY <2>1, BoundsAssumption DEF Init
  <2> QED BY <1>1, <2>1, <2>2 DEF RowsOK
<1>3. RuntimesOK
    BY <1>1, OffIs DEF Init, RuntimesOK, Running
<1>4. RestOK
    BY BoundsAssumption DEF Init, RestOK
<1>5. tasks \in [Tasks -> Task]
    BY IdleIs DEF Init
<1>6. Locals /\ Holds /\ Apart /\ Races /\ Starts
    BY <1>1, IdleIs DEF Locals, Local, Holds, Apart, Races, Starts, Connecting, HasRow, Waiting, Emptied
<1>7. Booting /\ Registered
    BY <1>1 DEF Booting, Registered
<1>8. Kept /\ Truthful
    BY <1>1, OffIs DEF Kept, Truthful, Running
<1>9. Unique /\ Covered
    BY <1>1 DEF Unique, Covered, Exists, NoRow
<1>10. Knows
    BY <1>1, IdleIs DEF Knows, Knowing
<1> QED BY <1>2, <1>3, <1>4, <1>5, <1>6, <1>7, <1>8, <1>9, <1>10 DEF IInv, Typed

LEMMA NoStrayFollows ==
    ASSUME IInv
    PROVE  NoStray
  BY DEF IInv, Kept, NoStray, Stopped, Told

LEMMA StatusFollows ==
    ASSUME IInv
    PROVE  StatusIsTrue
<1>1. TypeOK
    BY DEF IInv, Typed, RowsOK, RuntimesOK, RestOK, TypeOK
<1>2. \A r \in Runtimes :
          runtimes[r].pc = "on" /\ ~runtimes[r].stop =>
              rows[runtimes[r].id].status = "connected" \/ runtimes[r].id \in Spared
    BY DEF IInv, Truthful
<1>3. ASSUME Quiet, faults = 0, NEW i \in Ids \ Spared, Exists(i), rows[i].status = "connected"
      PROVE  registry[i] # NoRuntime
  <2>1. boot = {} /\ ~Busy(i)
      BY <1>3 DEF Quiet, Busy
  <2> QED BY <1>3, <2>1 DEF IInv, Covered
<1> QED BY <1>1, <1>2, <1>3 DEF StatusIsTrue

\* A runtime that nobody ends, on an account where nothing odd has happened, is registered.
LEMMA Alive ==
    ASSUME IInv, NEW r \in Runtimes, runtimes[r].pc = "on", ~runtimes[r].stop,
           runtimes[r].id \notin Spared
    PROVE  registry[runtimes[r].id] = r /\ runtimes[r].id \in Ids
<1>1. Running(r) /\ ~Told(r)
    BY DEF Running, Told
<1>2. ASSUME NEW t \in Tasks, tasks[t].rt = r PROVE FALSE
    BY <1>1, <1>2, Facts DEF IInv, Holds
<1>3. ~Stopped(r)
    BY <1>1, <1>2 DEF Stopped
<1> QED BY <1>1, <1>3 DEF IInv, Kept, Typed, RuntimesOK, RestOK, Spared

\* A registered account whose runtime nobody ends is not being taken out of the registry.
LEMMA NotTaken ==
    ASSUME IInv, NEW t \in Tasks, tasks[t].pc \in Emptied, tasks[t].row \notin crossed
    PROVE  registry[tasks[t].row] = NoRuntime
  BY DEF IInv, Holds

-----------------------------------------------------------------------------
(* What the actions have in common *)

\* A task goes on, and rows, registry and runtimes stay as they are.
LEMMA Walks ==
    ASSUME IInv, NEW t \in Tasks, NEW n \in Task, tasks' = [tasks EXCEPT ![t] = n],
           UNCHANGED <<directus, registry, runtimes, boot>>, boot = {},
           RestOK', crossed \subseteq crossed', raced \subseteq raced', overdue \subseteq overdue',
           Local(n), n.row <= created, n.pc \notin Waiting \cup {"start"},
           \/ n.pc = "idle" \/ n.row = 0 \/ n.row \in crossed'
           \/ n.row = tasks[t].row /\ tasks[t].pc # "idle"
           \/ \A u \in Tasks \ {t} : tasks[u].pc # "idle" => tasks[u].row # n.row,
           \/ tasks[t].rt = NoRuntime \/ ~Running(tasks[t].rt) \/ tasks[t].row \in overdue',
           n.pc = "insert" /\ n.row \notin raced' =>
               /\ registry[n.row] = NoRuntime
               /\ \A u \in Tasks \ {t} : tasks[u].pc = "insert" => tasks[u].row # n.row,
           n.pc = "insert" /\ n.row \notin crossed' \cup overdue' =>
               rows[n.row].status = "connected",
           n.pc \in Emptied /\ n.row \notin crossed' => registry[n.row] = NoRuntime,
           Knowing(n, rows, crossed'),
           faults' = 0 => faults = 0,
           faults' = 0 =>
               \A i \in Ids \ (crossed' \cup overdue') :
                   /\ tasks[t].pc # "idle" /\ tasks[t].row = i
                   /\ Exists(i) /\ rows[i].status = "connected"
                   => registry[i] # NoRuntime \/ (n.pc # "idle" /\ n.row = i)
    PROVE  IInv'
<1> DEFINE h == tasks[t]
<1>1. /\ tasks' \in [Tasks -> Task] /\ tasks'[t] = n
      /\ \A u \in Tasks : u # t => tasks'[u] = tasks[u]
    BY Names
<1>2. /\ rows' = rows /\ created' = created /\ registry' = registry /\ runtimes' = runtimes
      /\ boot' = boot
    BY DEF directus
<1>3. h.rt = NoRuntime \/ ~Running(h.rt) \/ h.row \in overdue'
    OBVIOUS
<1>4. n.rt = NoRuntime /\ NoRuntime \notin Runtimes
    BY Names DEF Local
<1>5. Spared \subseteq Spared'
    BY DEF Spared
<1>6. Typed'
    BY <1>1, <1>2 DEF IInv, Typed, RowsOK, RuntimesOK, Running
<1>7. Locals'
    BY <1>1, <1>2 DEF IInv, Locals
<1>8. Booting'
    BY <1>2 DEF Booting
<1>9. Apart'
  <2> SUFFICES ASSUME NEW u \in Tasks, NEW v \in Tasks, u # v, tasks'[u].pc # "idle",
                      tasks'[v].pc # "idle", tasks'[u].row = tasks'[v].row, tasks'[u].row # 0
               PROVE  tasks'[u].row \in crossed'
      BY DEF Apart
  <2>1. ASSUME NEW w \in Tasks, w # t, tasks[w].pc # "idle", tasks[w].row = n.row, n.row # 0,
               n.pc # "idle"
        PROVE  n.row \in crossed'
    <3>1. CASE n.row = h.row /\ h.pc # "idle"
        BY <2>1, <3>1 DEF IInv, Apart
    <3> QED BY <2>1, <3>1
  <2>2. CASE u = t
      BY <1>1, <2>1, <2>2
  <2>3. CASE v = t
      BY <1>1, <2>1, <2>3
  <2>4. CASE u # t /\ v # t
      BY <1>1, <2>4 DEF IInv, Apart
  <2> QED BY <2>2, <2>3, <2>4
<1>10. Races'
  <2> SUFFICES ASSUME NEW u \in Tasks, tasks'[u].pc = "insert", tasks'[u].row \notin raced'
               PROVE  /\ registry[tasks'[u].row] = NoRuntime
                      /\ \A v \in Tasks \ {u} : tasks'[v].pc = "insert" => tasks'[v].row # tasks'[u].row
      BY <1>2 DEF Races
  <2>1. CASE u = t
      BY <1>1, <2>1
  <2>2. CASE u # t
      BY <1>1, <2>2 DEF IInv, Races
  <2> QED BY <2>1, <2>2
<1>11. Registered'
    BY <1>2 DEF IInv, Registered, Running
<1>12. Holds'
  <2> SUFFICES ASSUME NEW u \in Tasks
               PROVE  /\ tasks'[u].pc \in Waiting /\ runtimes[tasks'[u].rt].pc # "off" =>
                            /\ runtimes[tasks'[u].rt].id = tasks'[u].row
                            /\ runtimes[tasks'[u].rt].stop \/ runtimes[tasks'[u].rt].pc # "on"
                      /\ tasks'[u].pc \in Emptied /\ tasks'[u].row \notin crossed' =>
                            registry[tasks'[u].row] = NoRuntime
                      /\ tasks'[u].pc = "wipe" /\ tasks'[u].row \notin crossed' =>
                            registry[tasks'[u].row] = tasks'[u].rt
      BY <1>2 DEF Holds, Running, Told
  <2>1. CASE u = t
      BY <1>1, <2>1 DEF Waiting
  <2>2. CASE u # t
      BY <1>1, <1>2, <2>2 DEF IInv, Holds, Running, Told
  <2> QED BY <2>1, <2>2
<1>13. Kept'
  <2>1. ASSUME NEW r \in Runtimes, Running(r), Stopped(r)
        PROVE  Stopped(r)'
    <3>1. CASE runtimes[r].id \in overdue /\ Told(r)
        BY <1>2, <3>1 DEF Stopped, Told
    <3>2. CASE h.rt = r
      <4>1. h.pc \in Waiting /\ h.row \in overdue'
          BY <1>3, <1>4, <2>1, <3>2, Facts
      <4>2. runtimes[r].id = h.row /\ Told(r)
          BY <2>1, <3>2, <4>1 DEF IInv, Holds
      <4> QED BY <1>2, <4>1, <4>2 DEF Stopped, Told
    <3>3. ASSUME NEW u \in Tasks, u # t, tasks[u].rt = r PROVE Stopped(r)'
        BY <1>1, <3>3 DEF Stopped
    <3> QED BY <2>1, <3>1, <3>2, <3>3 DEF Stopped
  <2> SUFFICES ASSUME NEW r \in Runtimes, Running(r)
               PROVE  /\ registry[runtimes[r].id] = r \/ Stopped(r)' \/ runtimes[r].id \in raced'
                      /\ ~runtimes[r].handle => Stopped(r)'
      BY <1>2 DEF Kept, Running
  <2> QED BY <2>1 DEF IInv, Kept
<1>14. Truthful'
    BY <1>2, <1>5 DEF IInv, Truthful
<1>15. Starts'
  <2> SUFFICES ASSUME NEW u \in Tasks, tasks'[u].pc \in {"start", "insert"}, tasks'[u].row \notin Spared'
               PROVE  \/ rows[tasks'[u].row].status = "connected"
                      \/ tasks'[u].pc = "start" /\ registry[tasks'[u].row] # NoRuntime
      BY <1>2 DEF Starts
  <2>1. CASE u = t
      BY <1>1, <2>1 DEF Spared
  <2>2. CASE u # t
      BY <1>1, <1>5, <2>2 DEF IInv, Starts
  <2> QED BY <2>1, <2>2
<1>16. Unique'
    BY <1>2 DEF IInv, Unique, Exists
<1>17. Knows'
    BY <1>1, <1>2 DEF IInv, Knows, Knowing
<1>18. Covered'
  <2> SUFFICES ASSUME faults' = 0, NEW i \in Ids, i \notin Spared', Exists(i), rows[i].status = "connected"
               PROVE  registry[i] # NoRuntime \/ i \in boot \/ Busy(i)'
      BY <1>2 DEF Covered, Exists
  <2>1. registry[i] # NoRuntime \/ i \in boot \/ Busy(i)
      BY <1>5 DEF IInv, Covered
  <2>2. ASSUME NEW u \in Tasks, tasks[u].pc # "idle", tasks[u].row = i
        PROVE  registry[i] # NoRuntime \/ Busy(i)'
    <3>1. CASE u = t
        BY <1>1, <2>2, <3>1 DEF Busy, Spared
    <3>2. CASE u # t
        BY <1>1, <2>2, <3>2 DEF Busy
    <3> QED BY <3>1, <3>2
  <2> QED BY <2>1, <2>2 DEF Busy
<1> QED BY <1>6, <1>7, <1>8, <1>9, <1>10, <1>11, <1>12, <1>13, <1>14, <1>15, <1>16, <1>17, <1>18 DEF IInv

\* A task writes the account that is replaced, disconnected or purged: nothing of it runs.
LEMMA Closes ==
    ASSUME IInv, NEW t \in Tasks, NEW n \in Task, tasks' = [tasks EXCEPT ![t] = n],
           tasks[t].pc \in {"retire", "drop"},
           rows' \in [Ids -> Row],
           \A k \in Ids : k # tasks[t].row => rows'[k] = rows[k],
           rows'[tasks[t].row].who \in {rows[tasks[t].row].who, Nobody},
           rows'[tasks[t].row].session = 0, rows'[tasks[t].row].status # "connected",
           UNCHANGED <<created, registry, runtimes, server, boot, crossed, raced, overdue, breaks>>,
           faults' \in 0..MaxFaults, faults' = 0 => faults = 0,
           n.rt = NoRuntime,
           \/ n.pc = "idle" /\ n.row = 0
           \/ /\ n.pc = "find" /\ tasks[t].pc = "retire" /\ SameTask(n, tasks[t])
              /\ n.row = tasks[t].row /\ n.same = tasks[t].same
    PROVE  IInv'
<1> DEFINE h == tasks[t]
           i == h.row
<1>1. /\ tasks' \in [Tasks -> Task] /\ tasks'[t] = n
      /\ \A u \in Tasks : u # t => tasks'[u] = tasks[u]
      /\ NoRuntime \notin Runtimes /\ Nobody \notin Identities
    BY Names
<1>2. /\ i \in Ids /\ h.rt = NoRuntime /\ boot = {} /\ h.pc # "idle" /\ i <= created
      /\ h.pc = "retire" => ~h.same
      /\ i \notin crossed => registry[i] = NoRuntime
    BY Facts, NotTaken DEF HasRow, Waiting, Local, Emptied
<1>3. /\ created' = created /\ registry' = registry /\ runtimes' = runtimes /\ boot' = boot
      /\ revoked' = revoked /\ issued' = issued /\ breaks' = breaks
      /\ crossed' = crossed /\ raced' = raced /\ overdue' = overdue /\ Spared' = Spared
    BY DEF server, Spared
<1>4. \A k \in Ids : k # i => rows'[k] = rows[k]
    OBVIOUS
<1>5. /\ rows'[i].who \in {rows[i].who, Nobody} /\ rows'[i].session = 0
      /\ rows'[i].status # "connected"
    OBVIOUS
<1>6. n.pc = "find" => /\ n.who \in Identities /\ n.session \in Sessions
                       /\ n.row = i /\ ~n.same
    BY <1>2, Facts DEF SameTask, Connecting
<1>7. n.pc \in {"idle", "find"} /\ (n.row = i \/ n.row = 0)
    OBVIOUS
<1>8. \A u \in Tasks : u # t /\ tasks[u].pc # "idle" /\ tasks[u].row = i => i \in crossed
  <2>1. i # 0
      BY <1>2, Names
  <2> QED BY <1>2, <2>1 DEF IInv, Apart
<1> HIDE DEF h, i
<1>9. Typed'
  <2>1. RowsOK'
      BY <1>2, <1>3, <1>4, <1>5 DEF IInv, Typed, RowsOK
  <2>2. RuntimesOK' /\ RestOK'
      BY <1>3 DEF IInv, Typed, RuntimesOK, RestOK, Running
  <2> QED BY <1>1, <2>1, <2>2 DEF Typed
<1>10. Locals'
  <2>1. Local(n) /\ n.row <= created
      BY <1>2, <1>6, <1>7, Names DEF Local, Connecting, HasRow, Waiting
  <2> QED BY <1>1, <1>3, <2>1 DEF IInv, Locals
<1>11. Booting'
    BY <1>2, <1>3 DEF Booting
<1>12. Apart' /\ Races'
  <2>1. Apart'
      BY <1>1, <1>3, <1>7, <1>8 DEF IInv, Apart
  <2>2. Races'
      BY <1>1, <1>3, <1>7 DEF IInv, Races
  <2> QED BY <2>1, <2>2
<1>13. Registered'
    BY <1>3 DEF IInv, Registered, Running
<1>14. Holds'
    BY <1>1, <1>3, <1>7 DEF IInv, Holds, Running, Told, Waiting, Emptied
<1>15. Kept'
  <2>1. ASSUME NEW r \in Runtimes, Stopped(r) PROVE Stopped(r)'
      BY <1>1, <1>2, <1>3, <2>1 DEF Stopped, Told, h
  <2> QED BY <1>3, <2>1 DEF IInv, Kept, Running
<1>16. Truthful'
  <2> SUFFICES ASSUME NEW r \in Runtimes, runtimes[r].pc = "on", ~runtimes[r].stop,
                      runtimes[r].id \notin Spared
               PROVE  rows'[runtimes[r].id].status = "connected"
      BY <1>3 DEF Truthful
  <2>1. registry[runtimes[r].id] = r /\ runtimes[r].id \in Ids
      BY Alive
  <2>2. runtimes[r].id # i
      BY <1>1, <1>2, <2>1 DEF Spared
  <2> QED BY <1>4, <2>1, <2>2 DEF IInv, Truthful
<1>17. Starts'
  <2> SUFFICES ASSUME NEW u \in Tasks, tasks'[u].pc \in {"start", "insert"}, tasks'[u].row \notin Spared
               PROVE  \/ rows'[tasks'[u].row].status = "connected"
                      \/ tasks'[u].pc = "start" /\ registry[tasks'[u].row] # NoRuntime
      BY <1>3 DEF Starts
  <2>1. u # t /\ tasks'[u] = tasks[u] /\ tasks[u].row # i
      BY <1>1, <1>7, <1>8 DEF Spared
  <2>2. tasks[u].row \in Ids
      BY <2>1, Facts DEF HasRow
  <2> QED BY <1>4, <2>1, <2>2 DEF IInv, Starts
<1>18. Unique'
    BY <1>2, <1>3, <1>4, <1>5 DEF IInv, Unique, Exists
<1>19. Knows'
  <2> SUFFICES ASSUME NEW u \in Tasks PROVE Knowing(tasks'[u], rows', crossed)
      BY <1>3 DEF Knows
  <2>1. CASE u = t
      BY <1>1, <1>5, <1>6, <1>7, <2>1 DEF Knowing
  <2>2. CASE u # t
    <3>1. Knowing(tasks[u], rows, crossed) /\ tasks'[u] = tasks[u] /\ tasks[u].row \in Ids \cup {0}
        BY <1>1, <2>2, Facts DEF IInv, Knows
    <3>2. CASE tasks[u].row = i
        BY <1>5, <3>1, <3>2 DEF Knowing
    <3>3. CASE tasks[u].row \in Ids /\ tasks[u].row # i
        BY <1>4, <3>1, <3>3 DEF Knowing
    <3>4. CASE tasks[u].row = 0
      <4>1. ~(tasks[u].pc \in {"remove", "stopping"}) /\ ~(tasks[u].pc = "find" /\ tasks[u].same)
          BY <3>4, Facts, Names DEF HasRow, Local
      <4> QED BY <3>1, <3>4, <4>1 DEF Knowing
    <3> QED BY <3>1, <3>2, <3>3, <3>4
  <2> QED BY <2>1, <2>2
<1>20. Covered'
  <2> SUFFICES ASSUME faults' = 0, NEW k \in Ids, k \notin Spared, Exists(k)', rows'[k].status = "connected"
               PROVE  registry[k] # NoRuntime \/ Busy(k)'
      BY <1>3 DEF Covered
  <2>1. k # i /\ rows'[k] = rows[k]
      BY <1>4, <1>5
  <2>2. registry[k] # NoRuntime \/ Busy(k)
      BY <1>2, <2>1 DEF IInv, Covered, Exists
  <2> QED BY <1>1, <2>1, <2>2 DEF Busy, h, i
<1> QED BY <1>9, <1>10, <1>11, <1>12, <1>13, <1>14, <1>15, <1>16, <1>17, <1>18, <1>19, <1>20 DEF IInv

\* A task writes the account it connects, one it found or a new one.
LEMMA Puts ==
    ASSUME IInv, NEW t \in Tasks, NEW n \in Task, tasks' = [tasks EXCEPT ![t] = n],
           tasks[t].pc = "write", NEW i \in Ids, Put(t, i),
           \/ i = tasks[t].row /\ Exists(i) /\ created' = created /\ crossed' = crossed
           \/ /\ tasks[t].row = 0 /\ i = created + 1 /\ created' = i
              /\ crossed' = crossed \cup Doubled(t),
           UNCHANGED <<registry, runtimes, server, boot, raced, overdue, breaks>>,
           faults' \in 0..MaxFaults, faults' = 0 => faults = 0,
           n.rt = NoRuntime,
           \/ n.pc = "idle" /\ n.row = 0 /\ faults' # 0
           \/ n.pc = "start" /\ n.row = i /\ SameTask(n, tasks[t])
    PROVE  IInv'
<1> DEFINE h == tasks[t]
           x == [who |-> h.who, status |-> "connected", session |-> h.session]
           own == {k \in Ids : rows[k].who = h.who}
<1>1. /\ tasks' \in [Tasks -> Task] /\ tasks'[t] = n
      /\ \A u \in Tasks : u # t => tasks'[u] = tasks[u]
      /\ NoRuntime \notin Runtimes /\ Nobody \notin Identities /\ 0 \notin Ids
    BY Names
<1>2. h.who \in Identities /\ h.session \in Sessions /\ h.rt = NoRuntime /\ boot = {}
    BY Facts DEF Connecting, Waiting
<1>3. /\ registry' = registry /\ runtimes' = runtimes /\ boot' = boot
      /\ revoked' = revoked /\ issued' = issued /\ breaks' = breaks
      /\ raced' = raced /\ overdue' = overdue
    BY DEF server
<1>4. rows' = [rows EXCEPT ![i] = x]
    BY DEF Put
<1>5. x \in Row /\ x.who = h.who /\ x.status = "connected" /\ x.session # 0
    BY <1>2 DEF Row, Sessions
<1>6. h.pc = "write" /\ (h.row = i \/ h.row = 0)
    OBVIOUS
<1>7. /\ crossed \subseteq crossed' /\ crossed' \subseteq Ids /\ Spared \subseteq Spared'
      /\ \A k \in Ids : k # i /\ rows[k].who = h.who => i \in crossed' /\ k \in crossed'
  <2>1. crossed \subseteq Ids
      BY DEF IInv, Typed, RestOK
  <2>2. CASE h.row = i
    <3>1. Exists(i) /\ crossed' = crossed /\ rows[i].who = h.who
      <4>1. i = h.row /\ Exists(i) /\ crossed' = crossed
          BY <1>1, <2>2
      <4> QED BY <1>1, <1>6, <4>1 DEF IInv, Knows, Knowing, Exists
    <3>2. \A k \in Ids : k # i /\ rows[k].who = h.who => i \in crossed /\ k \in crossed
        BY <3>1 DEF IInv, Unique, Exists
    <3> QED BY <1>3, <2>1, <3>1, <3>2 DEF Spared
  <2>3. CASE h.row = 0
    <3>1. crossed' = crossed \cup Doubled(t) /\ i = created + 1
        BY <1>1, <2>3
    <3>2. own # {} => Doubled(t) = own \cup {i}
        BY <3>1 DEF Doubled
    <3>3. own = {} => Doubled(t) = {}
        BY DEF Doubled
    <3> HIDE DEF h
    <3> QED BY <1>3, <2>1, <3>1, <3>2, <3>3 DEF Spared
  <2> QED BY <1>6, <2>2, <2>3
<1>8. \A u \in Tasks : u # t /\ tasks[u].pc # "idle" /\ tasks[u].row = i => i \in crossed
  <2>1. CASE h.row = i
      BY <1>1, <2>1 DEF IInv, Apart
  <2>2. CASE h.row = 0
    <3>1. i = created + 1
        BY <1>1, <2>2
    <3> QED BY <3>1, Facts, Names
  <2> QED BY <1>6, <2>1, <2>2
<1>9. created' \in 0..MaxRows /\ created' >= created /\ i <= created' /\ created' \in Nat
  <2>1. created \in 0..MaxRows /\ i \in 1..MaxRows
      BY DEF IInv, Typed, RowsOK, Ids
  <2>2. CASE created' = created /\ Exists(i)
    <3>1. i <= created
        BY <2>2 DEF IInv, Typed, RowsOK, Exists
    <3> QED BY <2>1, <2>2, <3>1, Names
  <2>3. CASE created' = i /\ i = created + 1
      BY <2>1, <2>3, Names
  <2> QED BY <2>2, <2>3
<1>10. \/ n.pc = "idle" /\ n.row = 0 /\ faults' # 0
       \/ n.pc = "start" /\ n.row = i /\ n.who = h.who /\ n.session = h.session
    BY DEF SameTask
<1> HIDE DEF h, x, own
<1>11. /\ rows' \in [Ids -> Row] /\ rows'[i] = x
       /\ \A k \in Ids : k # i => rows'[k] = rows[k]
    BY <1>4, <1>5, Names
<1>12. Typed'
  <2>1. RowsOK'
    <3>1. ASSUME NEW k \in Ids
          PROVE  /\ rows'[k].who # Nobody => k <= created'
                 /\ rows'[k].session # 0 <=> rows'[k].status = "connected"
                 /\ rows'[k].who = Nobody => rows'[k].status # "connected"
      <4>1. CASE k = i
          BY <1>1, <1>2, <1>5, <1>9, <1>11, <4>1
      <4>2. CASE k # i
          BY <1>9, <1>11, <4>2, Names DEF IInv, Typed, RowsOK
      <4> QED BY <4>1, <4>2
    <3> QED BY <1>9, <1>11, <3>1 DEF RowsOK
  <2>2. RuntimesOK' /\ RestOK'
      BY <1>3, <1>7 DEF IInv, Typed, RuntimesOK, RestOK, Running
  <2> QED BY <1>1, <2>1, <2>2 DEF Typed
<1>13. Locals'
  <2>1. Local(n) /\ n.row <= created'
      BY <1>2, <1>9, <1>10 DEF Local, Connecting, HasRow, Waiting
  <2>2. \A u \in Tasks : tasks[u].row <= created'
      BY <1>9, Facts, Names
  <2> QED BY <1>1, <2>1, <2>2 DEF IInv, Locals
<1>14. Booting'
    BY <1>2, <1>3 DEF Booting
<1>15. Apart' /\ Races'
  <2>1. Apart'
      BY <1>1, <1>7, <1>8, <1>10 DEF IInv, Apart
  <2>2. Races'
      BY <1>1, <1>3, <1>10 DEF IInv, Races
  <2> QED BY <2>1, <2>2
<1>16. Registered'
    BY <1>3 DEF IInv, Registered, Running
<1>17. Holds'
    BY <1>1, <1>3, <1>7, <1>10 DEF IInv, Holds, Running, Told, Waiting, Emptied
<1>18. Kept'
  <2>1. ASSUME NEW r \in Runtimes, Stopped(r) PROVE Stopped(r)'
      BY <1>1, <1>2, <1>3, <2>1 DEF Stopped, Told, h
  <2> QED BY <1>3, <2>1 DEF IInv, Kept, Running
<1>19. Truthful'
  <2>1. \A k \in Ids : rows[k].status = "connected" => rows'[k].status = "connected"
      BY <1>5, <1>11
  <2>2. \A r \in Runtimes : runtimes[r].pc = "on" => runtimes[r].id \in Ids
      BY DEF IInv, Typed, RuntimesOK, Running
  <2> QED BY <1>3, <1>7, <2>1, <2>2 DEF IInv, Truthful
<1>20. Starts'
  <2> SUFFICES ASSUME NEW u \in Tasks, tasks'[u].pc \in {"start", "insert"}, tasks'[u].row \notin Spared'
               PROVE  \/ rows'[tasks'[u].row].status = "connected"
                      \/ tasks'[u].pc = "start" /\ registry[tasks'[u].row] # NoRuntime
      BY <1>3 DEF Starts
  <2>1. CASE u = t
      BY <1>1, <1>5, <1>10, <1>11, <2>1
  <2>2. CASE u # t
    <3>1. tasks'[u] = tasks[u] /\ tasks[u].row \in Ids
        BY <1>1, <2>2, Facts DEF HasRow
    <3>2. \A k \in Ids : rows[k].status = "connected" => rows'[k].status = "connected"
        BY <1>5, <1>11
    <3> QED BY <1>7, <3>1, <3>2 DEF IInv, Starts
  <2> QED BY <2>1, <2>2
<1>21. Unique'
  <2> SUFFICES ASSUME NEW k \in Ids, NEW m \in Ids, k # m, rows'[k].who # Nobody, rows'[k].who = rows'[m].who
               PROVE  k \in crossed'
      BY DEF Unique, Exists
  <2>1. CASE k = i
      BY <1>5, <1>7, <1>11, <2>1
  <2>2. CASE m = i
      BY <1>5, <1>7, <1>11, <2>2
  <2>3. CASE k # i /\ m # i
      BY <1>7, <1>11, <2>3 DEF IInv, Unique, Exists
  <2> QED BY <2>1, <2>2, <2>3
<1>22. Knows'
  <2> SUFFICES ASSUME NEW u \in Tasks PROVE Knowing(tasks'[u], rows', crossed')
      BY DEF Knows
  <2>1. CASE u = t
      BY <1>1, <1>10, <2>1 DEF Knowing
  <2>2. CASE u # t
    <3>1. Knowing(tasks[u], rows, crossed) /\ tasks'[u] = tasks[u] /\ tasks[u].row \in Ids \cup {0}
        BY <1>1, <2>2, Facts DEF IInv, Knows
    <3>2. CASE tasks[u].row = i
      <4>1. tasks[u].pc # "idle" => h.row = i
        <5>1. h.row = 0 => i = created + 1
            BY <1>1, <1>6 DEF h
        <5>2. tasks[u].row <= created
            BY Facts
        <5> QED BY <1>6, <3>2, <5>1, <5>2, Names
      <4>2. tasks[u].pc # "idle" => rows[i].who = h.who /\ rows[i].who # Nobody
        <5> SUFFICES ASSUME tasks[u].pc # "idle" PROVE rows[i].who = h.who /\ rows[i].who # Nobody
            OBVIOUS
        <5>1. i = tasks[t].row /\ Exists(i)
            BY <1>1, <4>1 DEF h
        <5> QED BY <1>1, <1>6, <5>1 DEF IInv, Knows, Knowing, Exists, h
      <4>3. tasks[u].pc # "idle" => i \in crossed'
          BY <1>7, <1>8, <2>2, <3>2
      <4> QED BY <1>5, <1>11, <3>1, <3>2, <4>2, <4>3 DEF Knowing
    <3>3. CASE tasks[u].row \in Ids /\ tasks[u].row # i
        BY <1>7, <1>11, <3>1, <3>3 DEF Knowing
    <3>4. CASE tasks[u].row = 0
      <4>1. ~(tasks[u].pc \in {"remove", "stopping"}) /\ ~(tasks[u].pc = "find" /\ tasks[u].same)
          BY <1>1, <3>4, Facts DEF HasRow, Local
      <4> QED BY <3>1, <3>4, <4>1 DEF Knowing
    <3> QED BY <3>1, <3>2, <3>3, <3>4
  <2> QED BY <2>1, <2>2
<1>23. Covered'
  <2> SUFFICES ASSUME faults' = 0, NEW k \in Ids, k \notin Spared', Exists(k)', rows'[k].status = "connected"
               PROVE  registry[k] # NoRuntime \/ Busy(k)'
      BY <1>3 DEF Covered
  <2>1. CASE k = i
      BY <1>1, <1>10, <2>1 DEF Busy
  <2>2. CASE k # i
    <3>1. registry[k] # NoRuntime \/ Busy(k)
        BY <1>2, <1>7, <1>11, <2>2 DEF IInv, Covered, Exists
    <3>2. h.row # k
        BY <1>1, <1>6, <2>2
    <3> QED BY <1>1, <3>1, <3>2 DEF Busy, h
  <2> QED BY <2>1, <2>2
<1> QED BY <1>12, <1>13, <1>14, <1>15, <1>16, <1>17, <1>18, <1>19, <1>20, <1>21, <1>22, <1>23 DEF IInv

\* A runtime is built and registered, by the boot (S empty) or by the task that was about to.
LEMMA Launches ==
    ASSUME IInv, NEW i \in Ids, NEW s \in Sessions \cup {0}, Launch(i, s),
           registry[i] # NoRuntime => i \in raced,
           i \notin Spared => rows[i].status = "connected",
           NEW S \in SUBSET Tasks,
           \A u \in S : tasks[u].pc = "insert" /\ tasks[u].row = i,
           tasks' \in [Tasks -> Task],
           \A u \in Tasks : tasks'[u] = IF u \in S THEN Idle ELSE tasks[u],
           S = {} => \A u \in Tasks : tasks[u].pc = "idle",
           boot' = boot \ {i},
           UNCHANGED <<directus, server, crossed, raced, counters>>
    PROVE  IInv'
<1> DEFINE x == [pc |-> "on", id |-> i, session |-> s, stop |-> FALSE, handle |-> TRUE]
           r == CHOOSE r \in Runtimes : Spare(r)
<1>1. r \in Runtimes /\ Spare(r)
    BY DEF Launch
<1>2. registry' = [registry EXCEPT ![i] = r] /\ registry'[i] = r
    BY Names DEF Launch
<1>3. runtimes' = [runtimes EXCEPT ![r] = x]
    BY <1>2 DEF Launch
<1>4. x \in Runtime /\ x.pc = "on" /\ x.id = i /\ x.handle = TRUE
    BY DEF Runtime
<1>5. /\ rows' = rows /\ created' = created /\ revoked' = revoked /\ issued' = issued
      /\ faults' = faults /\ breaks' = breaks
      /\ crossed' = crossed /\ raced' = raced /\ overdue' = overdue /\ Spared' = Spared
    BY DEF directus, server, counters, Spared
<1> HIDE DEF x, r
<1>6. /\ registry' \in [Ids -> Runtimes \cup {NoRuntime}]
      /\ \A k \in Ids : k # i => registry'[k] = registry[k]
      /\ registry'[i] # NoRuntime
    BY <1>1, <1>2, Names
<1>7. /\ runtimes' \in [Runtimes -> Runtime] /\ runtimes'[r] = x
      /\ \A q \in Runtimes : q # r => runtimes'[q] = runtimes[q]
    BY <1>1, <1>3, <1>4, Names
<1>8. /\ ~Running(r) /\ \A k \in Ids : registry[k] # r
      /\ \A u \in Tasks : tasks[u].rt # r
    BY <1>1 DEF Spare
<1>9. /\ Idle \in Task /\ Idle.pc = "idle" /\ Idle.row = 0 /\ Idle.rt = NoRuntime
      /\ Local(Idle)
    BY IdleIs DEF Local, Connecting, HasRow, Waiting
<1>10. \A u \in Tasks : \/ tasks'[u] = tasks[u] /\ u \notin S
                        \/ tasks'[u] = Idle /\ u \in S
    OBVIOUS
<1>11. \A u \in Tasks : u \notin S /\ tasks[u].pc # "idle" /\ tasks[u].row = i =>
           \E v \in S : v # u /\ tasks[v].pc = "insert" /\ tasks[v].row = i
    OBVIOUS
<1>12. \A u \in Tasks : u \notin S /\ tasks[u].pc # "idle" /\ tasks[u].row = i => i \in crossed
    BY <1>11, Names DEF IInv, Apart
<1>13. \A u \in S : tasks[u].rt = NoRuntime
    BY Facts DEF Waiting
<1>14. Typed'
  <2>1. RowsOK' /\ RestOK'
      BY <1>5 DEF IInv, Typed, RowsOK, RestOK
  <2>2. RuntimesOK'
      BY <1>4, <1>6, <1>7 DEF IInv, Typed, RuntimesOK, Running
  <2> QED BY <2>1, <2>2 DEF Typed
<1>15. Locals'
    BY <1>5, <1>9, <1>10, Names DEF IInv, Locals
<1>16. Booting'
  <2>1. boot' # {} => boot # {}
      OBVIOUS
  <2> QED BY <1>5, <1>6, <1>9, <1>10, <2>1 DEF IInv, Typed, RestOK, Booting
<1>17. Apart'
    BY <1>5, <1>9, <1>10 DEF IInv, Apart
<1>18. Races'
  <2> SUFFICES ASSUME NEW u \in Tasks, tasks'[u].pc = "insert", tasks'[u].row \notin raced
               PROVE  /\ registry'[tasks'[u].row] = NoRuntime
                      /\ \A v \in Tasks \ {u} : tasks'[v].pc = "insert" => tasks'[v].row # tasks'[u].row
      BY <1>5 DEF Races
  <2>1. u \notin S /\ tasks'[u] = tasks[u] /\ tasks[u].row \in Ids
      BY <1>9, <1>10, Facts DEF HasRow
  <2>2. tasks[u].row # i
      BY <1>11, <2>1 DEF IInv, Races
  <2> QED BY <1>6, <1>9, <1>10, <2>1, <2>2 DEF IInv, Races
<1>19. Registered'
    BY <1>2, <1>4, <1>6, <1>7, <1>8, Names DEF IInv, Registered, Running
<1>20. Holds'
  <2> SUFFICES ASSUME NEW u \in Tasks
               PROVE  /\ tasks'[u].pc \in Waiting /\ runtimes'[tasks'[u].rt].pc # "off" =>
                            /\ runtimes'[tasks'[u].rt].id = tasks'[u].row
                            /\ runtimes'[tasks'[u].rt].stop \/ runtimes'[tasks'[u].rt].pc # "on"
                      /\ tasks'[u].pc \in Emptied /\ tasks'[u].row \notin crossed =>
                            registry'[tasks'[u].row] = NoRuntime
                      /\ tasks'[u].pc = "wipe" /\ tasks'[u].row \notin crossed =>
                            registry'[tasks'[u].row] = tasks'[u].rt
      BY <1>5 DEF Holds, Running, Told
  <2>1. CASE u \in S
      BY <1>9, <1>10, <2>1 DEF Waiting, Emptied
  <2>2. CASE u \notin S
    <3>1. tasks'[u] = tasks[u] /\ tasks[u].rt # r
        BY <1>8, <1>10, <2>2
    <3>2. tasks[u].pc \in Waiting => tasks[u].rt \in Runtimes /\ runtimes'[tasks[u].rt] = runtimes[tasks[u].rt]
        BY <1>7, <3>1, Facts DEF Local
    <3>3. tasks[u].pc \in Emptied \cup {"wipe"} /\ tasks[u].row \notin crossed =>
              registry'[tasks[u].row] = registry[tasks[u].row]
        BY <1>6, <1>12, <2>2, Facts DEF HasRow, Emptied
    <3> QED BY <3>1, <3>2, <3>3 DEF IInv, Holds, Running, Told
  <2> QED BY <2>1, <2>2
<1>21. Kept'
  <2>1. ASSUME NEW q \in Runtimes, q # r, Running(q), Stopped(q) PROVE Stopped(q)'
    <3>1. CASE runtimes[q].id \in overdue /\ Told(q)
        BY <1>5, <1>7, <2>1, <3>1 DEF Stopped, Told
    <3>2. ASSUME NEW u \in Tasks, tasks[u].rt = q PROVE Stopped(q)'
        BY <1>10, <1>13, <3>2, Names DEF Stopped
    <3> QED BY <2>1, <3>1, <3>2 DEF Stopped
  <2> SUFFICES ASSUME NEW q \in Runtimes, runtimes'[q].pc # "off"
               PROVE  /\ registry'[runtimes'[q].id] = q \/ Stopped(q)' \/ runtimes'[q].id \in raced
                      /\ ~runtimes'[q].handle => Stopped(q)'
      BY <1>5 DEF Kept, Running
  <2>2. CASE q = r
      BY <1>2, <1>4, <1>7, <2>2
  <2>3. CASE q # r
    <3>1. Running(q) /\ runtimes'[q] = runtimes[q] /\ runtimes[q].id \in Ids
        BY <1>7, <2>3 DEF Running, IInv, Typed, RuntimesOK
    <3>2. registry[runtimes[q].id] = q => registry'[runtimes[q].id] = q \/ runtimes[q].id \in raced
        BY <1>6, <3>1, Names
    <3> QED BY <2>1, <2>3, <3>1, <3>2 DEF IInv, Kept
  <2> QED BY <2>2, <2>3
<1>22. Truthful'
  <2> SUFFICES ASSUME NEW q \in Runtimes, runtimes'[q].pc = "on", ~runtimes'[q].stop
               PROVE  rows[runtimes'[q].id].status = "connected" \/ runtimes'[q].id \in Spared
      BY <1>5 DEF Truthful
  <2>1. CASE q = r
      BY <1>4, <1>7, <2>1
  <2>2. CASE q # r
      BY <1>7, <2>2 DEF IInv, Truthful
  <2> QED BY <2>1, <2>2
<1>23. Starts'
  <2> SUFFICES ASSUME NEW u \in Tasks, tasks'[u].pc \in {"start", "insert"}, tasks'[u].row \notin Spared
               PROVE  \/ rows[tasks'[u].row].status = "connected"
                      \/ tasks'[u].pc = "start" /\ registry'[tasks'[u].row] # NoRuntime
      BY <1>5 DEF Starts
  <2>1. u \notin S /\ tasks'[u] = tasks[u] /\ tasks[u].row \in Ids
      BY <1>9, <1>10, Facts DEF HasRow
  <2> QED BY <1>6, <2>1 DEF IInv, Starts
<1>24. Unique'
    BY <1>5 DEF IInv, Unique, Exists
<1>25. Knows'
    BY <1>5, <1>9, <1>10 DEF IInv, Knows, Knowing
<1>26. Covered'
  <2> SUFFICES ASSUME faults = 0, NEW k \in Ids, k \notin Spared, Exists(k), rows[k].status = "connected"
               PROVE  registry'[k] # NoRuntime \/ k \in boot' \/ Busy(k)'
      BY <1>5 DEF Covered, Exists
  <2>1. CASE k = i
      BY <1>6, <2>1
  <2>2. CASE k # i
    <3>1. registry[k] # NoRuntime \/ k \in boot \/ Busy(k)
        BY DEF IInv, Covered
    <3> QED BY <1>6, <1>10, <2>2, <3>1 DEF Busy
  <2> QED BY <2>1, <2>2
<1> QED BY <1>14, <1>15, <1>16, <1>17, <1>18, <1>19, <1>20, <1>21, <1>22, <1>23, <1>24, <1>25, <1>26 DEF IInv

\* A runtime is told to stop.
LEMMA SendStopIs ==
    ASSUME IInv, NEW r \in Runtimes, SendStop(r)
    PROVE  /\ runtimes' \in [Runtimes -> Runtime]
           /\ \A q \in Runtimes : /\ runtimes'[q].pc = runtimes[q].pc
                                  /\ runtimes'[q].id = runtimes[q].id
           /\ Running(r) => runtimes'[r].stop
           /\ \A q \in Runtimes : q # r => runtimes'[q] = runtimes[q]
<1> DEFINE a == [runtimes[r] EXCEPT !.stop = Running(r)]
           x == [a EXCEPT !.handle = FALSE]
<1>1. runtimes' = [runtimes EXCEPT ![r] = x] /\ runtimes \in [Runtimes -> Runtime]
    BY DEF SendStop, IInv, Typed, RuntimesOK
<1>2. Running(r) \in BOOLEAN
    BY DEF Running
<1>3. /\ a \in Runtime /\ a.pc = runtimes[r].pc /\ a.id = runtimes[r].id /\ a.stop = Running(r)
    BY <1>1, <1>2, StopRuntime
<1> HIDE DEF a
<1>4. /\ x \in Runtime /\ x.pc = runtimes[r].pc /\ x.id = runtimes[r].id /\ x.stop = Running(r)
    BY <1>3, HandleRuntime
<1> HIDE DEF x
<1> QED BY <1>1, <1>4

\* A task sends the stop, and may take the entry out of the registry; the first to stop a
\* runtime waits for it.
LEMMA Stopping ==
    ASSUME IInv, NEW t \in Tasks, NEW n \in Task, tasks' = [tasks EXCEPT ![t] = n],
           NEW i \in Ids, tasks[t].row = i, tasks[t].rt = NoRuntime, boot = {},
           tasks[t].pc \in {"get", "remove", "unregister"},
           SameTask(n, tasks[t]), n.row = i, n.same = tasks[t].same,
           NEW r \in Runtimes, registry[i] = r, SendStop(r),
           n.rt = IF runtimes[r].handle THEN r ELSE NoRuntime,
           \/ n.pc = "wipe" /\ runtimes[r].handle /\ registry' = registry
           \/ n.pc = "unregister" /\ ~runtimes[r].handle /\ registry' = registry
           \/ /\ registry' = [registry EXCEPT ![i] = NoRuntime]
              /\ n.pc \in IF runtimes[r].handle THEN {"stopping", "unregistered"}
                          ELSE {"find", "retire", "drop"},
           n.pc = "stopping" \/ n.pc = "find" \/ n.pc = "retire" => tasks[t].pc = "remove",
           n.pc = "find" => n.same, n.pc = "retire" => ~n.same,
           UNCHANGED <<directus, server, boot, raced, counters>>,
           crossed \subseteq crossed', crossed' \subseteq Ids
    PROVE  IInv'
<1> DEFINE h == tasks[t]
<1>1. /\ tasks' \in [Tasks -> Task] /\ tasks'[t] = n
      /\ \A u \in Tasks : u # t => tasks'[u] = tasks[u]
      /\ NoRuntime \notin Runtimes /\ 0 \notin Ids
    BY Names
<1>2. /\ rows' = rows /\ created' = created /\ revoked' = revoked /\ issued' = issued
      /\ boot' = boot /\ faults' = faults /\ breaks' = breaks
      /\ raced' = raced /\ overdue' = overdue
    BY DEF directus, server, counters
<1>3. /\ runtimes' \in [Runtimes -> Runtime]
      /\ \A q \in Runtimes : /\ runtimes'[q].pc = runtimes[q].pc
                             /\ runtimes'[q].id = runtimes[q].id
      /\ Running(r) => runtimes'[r].stop
      /\ \A q \in Runtimes : q # r => runtimes'[q] = runtimes[q]
    BY SendStopIs
<1>4. /\ registry' \in [Ids -> Runtimes \cup {NoRuntime}]
      /\ \A k \in Ids : k # i => registry'[k] = registry[k]
      /\ registry'[i] \in {r, NoRuntime} /\ registry[i] = r
      /\ n.pc \in Emptied => registry'[i] = NoRuntime
      /\ n.pc = "wipe" => registry'[i] = r
    BY Names DEF Emptied
<1>5. /\ n.row = i /\ h.row = i /\ h.rt = NoRuntime /\ h.pc # "idle" /\ n.pc # "idle"
      /\ h.pc \notin {"start", "insert", "write"}
      /\ n.pc \in {"wipe", "unregister", "stopping", "unregistered", "find", "retire", "drop"}
      /\ n.pc \in {"wipe", "stopping", "unregistered"} => n.rt = r
      /\ n.pc \notin {"wipe", "stopping", "unregistered"} => n.rt = NoRuntime
      /\ runtimes[r].handle => n.rt = r
      /\ n.pc = "find" => n.same
      /\ n.pc = "retire" => ~n.same
      /\ n.who = h.who /\ n.session = h.session /\ n.same = h.same /\ i <= created
      /\ n.pc \in {"stopping", "find", "retire"} =>
            h.pc = "remove" /\ h.who \in Identities /\ h.session \in Sessions
    BY Facts DEF SameTask, Connecting
<1>6. Spared \subseteq Spared' /\ crossed \subseteq crossed'
    BY <1>2 DEF Spared
<1> HIDE DEF h
<1>7. Running(r) => runtimes[r].id = i
    BY <1>1, <1>4 DEF IInv, Registered
<1>8. \A u \in Tasks : u # t /\ tasks[u].pc # "idle" /\ tasks[u].row = i => i \in crossed
    BY <1>1, <1>5 DEF IInv, Apart, h
<1>9. Typed'
  <2>1. RowsOK' /\ RestOK'
      BY <1>2, <1>6 DEF IInv, Typed, RowsOK, RestOK
  <2>2. RuntimesOK'
      BY <1>3, <1>4 DEF IInv, Typed, RuntimesOK, Running
  <2> QED BY <1>1, <2>1, <2>2 DEF Typed
<1>10. Locals'
  <2>1. Local(n) /\ n.row <= created
      BY <1>1, <1>5 DEF Local, Connecting, HasRow, Waiting
  <2> QED BY <1>1, <1>2, <2>1 DEF IInv, Locals
<1>11. Booting'
    BY <1>2 DEF Booting
<1>12. Apart'
    BY <1>1, <1>5, <1>6, <1>8 DEF IInv, Apart
<1>13. Races'
  <2> SUFFICES ASSUME NEW u \in Tasks, tasks'[u].pc = "insert", tasks'[u].row \notin raced
               PROVE  /\ registry'[tasks'[u].row] = NoRuntime
                      /\ \A v \in Tasks \ {u} : tasks'[v].pc = "insert" => tasks'[v].row # tasks'[u].row
      BY <1>2 DEF Races
  <2>1. u # t /\ tasks'[u] = tasks[u] /\ tasks[u].row \in Ids
      BY <1>1, <1>5, Facts DEF HasRow
  <2>2. registry[tasks[u].row] = NoRuntime
      BY <2>1 DEF IInv, Races
  <2> QED BY <1>1, <1>4, <1>5, <2>1, <2>2 DEF IInv, Races
<1>14. Registered'
    BY <1>1, <1>3, <1>4 DEF IInv, Registered, Running
<1>15. Holds'
  <2> SUFFICES ASSUME NEW u \in Tasks
               PROVE  /\ tasks'[u].pc \in Waiting /\ runtimes'[tasks'[u].rt].pc # "off" =>
                            /\ runtimes'[tasks'[u].rt].id = tasks'[u].row
                            /\ runtimes'[tasks'[u].rt].stop \/ runtimes'[tasks'[u].rt].pc # "on"
                      /\ tasks'[u].pc \in Emptied /\ tasks'[u].row \notin crossed' =>
                            registry'[tasks'[u].row] = NoRuntime
                      /\ tasks'[u].pc = "wipe" /\ tasks'[u].row \notin crossed' =>
                            registry'[tasks'[u].row] = tasks'[u].rt
      BY <1>2 DEF Holds, Running, Told
  <2>1. CASE u = t
      BY <1>1, <1>3, <1>4, <1>5, <1>7, <2>1 DEF Waiting, Running
  <2>2. CASE u # t
    <3>1. tasks'[u] = tasks[u]
        BY <1>1, <2>2
    <3>2. ASSUME tasks[u].pc \in Waiting, runtimes'[tasks[u].rt].pc # "off"
          PROVE  /\ runtimes'[tasks[u].rt].id = tasks[u].row
                 /\ runtimes'[tasks[u].rt].stop \/ runtimes'[tasks[u].rt].pc # "on"
      <4>1. tasks[u].rt \in Runtimes
          BY <3>2, Facts DEF Local
      <4>2. Running(tasks[u].rt)
          BY <1>3, <3>2, <4>1 DEF Running
      <4>3. runtimes[tasks[u].rt].id = tasks[u].row /\ Told(tasks[u].rt)
          BY <3>2, <4>2 DEF IInv, Holds
      <4>4. CASE tasks[u].rt = r
          BY <1>3, <4>2, <4>3, <4>4
      <4>5. CASE tasks[u].rt # r
          BY <1>3, <4>1, <4>3, <4>5 DEF Told
      <4> QED BY <4>4, <4>5
    <3>3. tasks[u].pc \in Emptied /\ tasks[u].row \notin crossed' => registry'[tasks[u].row] = NoRuntime
        BY <1>1, <1>4, <1>6, <1>8, <2>2, Facts DEF IInv, Holds, Emptied, HasRow
    <3>4. tasks[u].pc = "wipe" /\ tasks[u].row \notin crossed' => registry'[tasks[u].row] = tasks[u].rt
        BY <1>1, <1>4, <1>6, <1>8, <2>2, Facts DEF IInv, Holds, HasRow
    <3> QED BY <3>1, <3>2, <3>3, <3>4
  <2> QED BY <2>1, <2>2
<1>16. Kept'
  <2>1. ASSUME NEW q \in Runtimes, Running(q), Stopped(q) PROVE Stopped(q)'
    <3>1. CASE runtimes[q].id \in overdue /\ Told(q)
        BY <1>2, <1>3, <2>1, <3>1 DEF Stopped, Told
    <3>2. ASSUME NEW u \in Tasks, tasks[u].rt = q PROVE Stopped(q)'
        BY <1>1, <1>5, <3>2 DEF Stopped, h
    <3> QED BY <2>1, <3>1, <3>2 DEF Stopped
  <2>2. ASSUME Running(r) PROVE Stopped(r)'
    <3>1. CASE runtimes[r].handle
        BY <1>1, <1>5, <3>1 DEF Stopped
    <3>2. CASE ~runtimes[r].handle
        BY <2>1, <2>2, <3>2 DEF IInv, Kept
    <3> QED BY <3>1, <3>2
  <2> SUFFICES ASSUME NEW q \in Runtimes, Running(q)
               PROVE  /\ registry'[runtimes'[q].id] = q \/ Stopped(q)' \/ runtimes'[q].id \in raced
                      /\ ~runtimes'[q].handle => Stopped(q)'
      BY <1>2, <1>3 DEF Kept, Running
  <2>3. CASE q = r
      BY <2>2, <2>3
  <2>4. CASE q # r
    <3>1. runtimes'[q] = runtimes[q] /\ runtimes[q].id \in Ids
        BY <1>3, <2>4 DEF IInv, Typed, RuntimesOK
    <3>2. registry[runtimes[q].id] = q => registry'[runtimes[q].id] = q
        BY <1>4, <2>4, <3>1
    <3> QED BY <2>1, <3>1, <3>2 DEF IInv, Kept
  <2> QED BY <2>3, <2>4
<1>17. Truthful'
  <2> SUFFICES ASSUME NEW q \in Runtimes, runtimes'[q].pc = "on", ~runtimes'[q].stop
               PROVE  rows[runtimes'[q].id].status = "connected" \/ runtimes'[q].id \in Spared'
      BY <1>2 DEF Truthful
  <2>1. q # r /\ runtimes'[q] = runtimes[q]
      BY <1>3 DEF Running
  <2> QED BY <1>6, <2>1 DEF IInv, Truthful
<1>18. Starts'
  <2> SUFFICES ASSUME NEW u \in Tasks, tasks'[u].pc \in {"start", "insert"}, tasks'[u].row \notin Spared'
               PROVE  \/ rows[tasks'[u].row].status = "connected"
                      \/ tasks'[u].pc = "start" /\ registry'[tasks'[u].row] # NoRuntime
      BY <1>2 DEF Starts
  <2>1. u # t /\ tasks'[u] = tasks[u] /\ tasks[u].row \in Ids
      BY <1>1, <1>5, Facts DEF HasRow
  <2>2. tasks[u].row # i
      BY <1>6, <1>8, <2>1 DEF Spared
  <2> QED BY <1>4, <1>6, <2>1, <2>2 DEF IInv, Starts
<1>19. Unique'
    BY <1>2, <1>6 DEF IInv, Unique, Exists
<1>20. Knows'
  <2>1. Knowing(n, rows, crossed')
      BY <1>5 DEF IInv, Knows, Knowing, h
  <2> QED BY <1>1, <1>2, <1>6, <2>1 DEF IInv, Knows, Knowing
<1>21. Covered'
  <2> SUFFICES ASSUME faults = 0, NEW k \in Ids, k \notin Spared', Exists(k), rows[k].status = "connected"
               PROVE  registry'[k] # NoRuntime \/ k \in boot \/ Busy(k)'
      BY <1>2 DEF Covered, Exists
  <2>1. CASE k = i
      BY <1>1, <1>5, <2>1 DEF Busy
  <2>2. CASE k # i
    <3>1. registry[k] # NoRuntime \/ k \in boot \/ Busy(k)
        BY <1>6 DEF IInv, Covered
    <3> QED BY <1>1, <1>4, <1>5, <2>2, <3>1 DEF Busy, h
  <2> QED BY <2>1, <2>2
<1> QED BY <1>9, <1>10, <1>11, <1>12, <1>13, <1>14, <1>15, <1>16, <1>17, <1>18, <1>19, <1>20, <1>21 DEF IInv

-----------------------------------------------------------------------------
(* The run loop, the end of a session, a crash *)

LEMMA EndsStep ==
    ASSUME IInv, NEW r \in Runtimes, Ends(r)
    PROVE  IInv'
<1> DEFINE i == runtimes[r].id
           x == runtimes'[r]
<1>1. /\ Running(r) /\ i \in Ids /\ runtimes[r] \in Runtime
      /\ NoRuntime \notin Runtimes /\ 0 \notin Ids
    BY Names DEF Ends, TakeStop, Expire, MarkReauth, EndExpired, Running, IInv, Typed, RuntimesOK
<1>2. /\ UNCHANGED <<created, registry, server, work, boot, overdue, breaks>>
      /\ faults' \in 0..MaxFaults /\ (faults' = 0 => faults = 0)
  <2>1. faults \in 0..MaxFaults
      BY DEF IInv, Typed, RestOK
  <2>2. CASE MarkReauth(r)
      BY <2>1, <2>2, BoundsAssumption DEF MarkReauth, Fault
  <2>3. CASE TakeStop(r) \/ Expire(r) \/ EndExpired(r)
      BY <2>1, <2>3 DEF TakeStop, Expire, EndExpired, directus, counters
  <2> QED BY <2>2, <2>3 DEF Ends
<1>3. /\ runtimes' \in [Runtimes -> Runtime]
      /\ \A q \in Runtimes : q # r => runtimes'[q] = runtimes[q]
      /\ x.pc # "on"
      /\ x.pc = "off" \/ (x.id = i /\ x.handle = runtimes[r].handle)
  <2>1. CASE TakeStop(r) \/ EndExpired(r)
      BY <2>1, OffIs, Names DEF TakeStop, EndExpired
  <2>2. ASSUME NEW p \in RuntimePcs, p # "on", runtimes' = [runtimes EXCEPT ![r].pc = p]
        PROVE  /\ runtimes' \in [Runtimes -> Runtime]
               /\ \A q \in Runtimes : q # r => runtimes'[q] = runtimes[q]
               /\ x.pc # "on" /\ x.id = i /\ x.handle = runtimes[r].handle
    <3> DEFINE y == [runtimes[r] EXCEPT !.pc = p]
    <3>1. runtimes' = [runtimes EXCEPT ![r] = y]
        BY <2>2
    <3>2. y \in Runtime /\ y.pc = p /\ y.id = runtimes[r].id /\ y.handle = runtimes[r].handle
        BY <1>1, PcRuntime
    <3> HIDE DEF y
    <3> QED BY <2>2, <3>1, <3>2, Names
  <2>3. CASE Expire(r)
      BY <2>2, <2>3 DEF Expire, RuntimePcs
  <2>4. CASE MarkReauth(r)
      BY <2>2, <2>4 DEF MarkReauth, RuntimePcs
  <2> QED BY <2>1, <2>3, <2>4 DEF Ends
<1>4. /\ rows' \in [Ids -> Row]
      /\ \A k \in Ids : /\ rows'[k].who = rows[k].who
                        /\ k # i => rows'[k] = rows[k]
                        /\ rows'[k] = rows[k] \/ (rows'[k].session = 0 /\ rows'[k].status # "connected")
      /\ rows' = rows \/ runtimes[r].pc = "invalid"
  <2>1. CASE rows' = rows
      BY <2>1, Names
  <2>2. CASE rows' = WithStatus(i, "reauth") /\ runtimes[r].pc = "invalid"
    <3> DEFINE w == WithStatus(i, "reauth")
    <3>1. /\ w \in [Ids -> Row] /\ \A k \in Ids : k # i => w[k] = rows[k]
          /\ w[i].who = rows[i].who /\ w[i].status = "reauth" /\ w[i].session = 0
        BY <1>1, WithStatusIs, Names
    <3>2. rows' = w
        BY <2>2
    <3> HIDE DEF w
    <3> QED BY <2>2, <3>1, <3>2
  <2>3. rows' = rows \/ (rows' = WithStatus(i, "reauth") /\ runtimes[r].pc = "invalid")
    <3>1. CASE MarkReauth(r)
        BY <3>1 DEF MarkReauth
    <3>2. CASE TakeStop(r) \/ Expire(r) \/ EndExpired(r)
        BY <3>2 DEF TakeStop, Expire, EndExpired, directus
    <3> QED BY <3>1, <3>2 DEF Ends
  <2> QED BY <2>1, <2>2, <2>3
<1>5. /\ registry' = registry /\ boot' = boot /\ created' = created /\ tasks' = tasks
      /\ crossed' = crossed /\ raced' = raced /\ overdue' = overdue /\ Spared' = Spared
      /\ revoked' = revoked /\ issued' = issued /\ breaks' = breaks
    BY <1>2 DEF server, work, Spared
<1>6. /\ \A q \in Runtimes : /\ Running(q)' => Running(q) /\ runtimes'[q].id = runtimes[q].id
                             /\ Running(q)' => runtimes'[q].handle = runtimes[q].handle
                             /\ Told(q) => Told(q)'
      /\ \A q \in Runtimes : runtimes'[q].pc = "on" => q # r /\ runtimes'[q] = runtimes[q]
  <2> SUFFICES ASSUME NEW q \in Runtimes
               PROVE  /\ Running(q)' => Running(q) /\ runtimes'[q].id = runtimes[q].id
                      /\ Running(q)' => runtimes'[q].handle = runtimes[q].handle
                      /\ Told(q) => Told(q)'
                      /\ runtimes'[q].pc = "on" => q # r /\ runtimes'[q] = runtimes[q]
      OBVIOUS
  <2>1. CASE q = r
      BY <1>1, <1>3, <2>1 DEF Running, Told
  <2>2. CASE q # r
      BY <1>3, <2>2 DEF Running, Told
  <2> QED BY <2>1, <2>2
<1>7. \/ registry[i] = r
      \/ \E u \in Tasks : tasks[u].rt = r /\ tasks[u].row = i /\ tasks[u].pc \in Waiting
      \/ i \in Spared
  <2>1. registry[i] = r \/ Stopped(r) \/ i \in raced
      BY <1>1 DEF IInv, Kept
  <2>2. ASSUME NEW u \in Tasks, tasks[u].rt = r PROVE tasks[u].row = i /\ tasks[u].pc \in Waiting
      BY <1>1, <2>2, Facts DEF IInv, Holds
  <2>3. i \in raced \cup overdue => i \in Spared
      BY DEF Spared, IInv, Typed, RestOK
  <2> QED BY <2>1, <2>2, <2>3 DEF Stopped
<1> HIDE DEF x, i
<1>8. Typed'
  <2>1. RowsOK'
      BY <1>4, <1>5 DEF IInv, Typed, RowsOK
  <2>2. RuntimesOK'
      BY <1>3, <1>5, <1>6 DEF IInv, Typed, RuntimesOK
  <2>3. RestOK' /\ tasks' \in [Tasks -> Task]
      BY <1>2, <1>5 DEF IInv, Typed, RestOK
  <2> QED BY <2>1, <2>2, <2>3 DEF Typed
<1>9. Locals' /\ Apart' /\ Races'
  <2>1. Locals'
      BY <1>5 DEF IInv, Locals
  <2>2. Apart' /\ Races'
      BY <1>5 DEF IInv, Apart, Races
  <2> QED BY <2>1, <2>2
<1>10. Booting'
  <2> SUFFICES ASSUME NEW k \in boot PROVE rows'[k].status = "connected"
      BY <1>5 DEF IInv, Booting
  <2>1. /\ k \in Ids /\ registry[k] = NoRuntime /\ rows[k].status = "connected"
        /\ raced = {} /\ overdue = {} /\ \A u \in Tasks : tasks[u].pc = "idle"
      BY DEF IInv, Booting, Typed, RestOK
  <2>2. ~Stopped(r)
      BY <2>1, Facts, Names DEF Stopped, Waiting
  <2>3. registry[i] = r
      BY <1>1, <2>1, <2>2 DEF IInv, Kept, i
  <2> QED BY <1>1, <1>4, <2>1, <2>3
<1>11. Registered'
  <2>1. ASSUME NEW k \in Ids, registry[k] # NoRuntime, runtimes'[registry[k]].pc # "off"
        PROVE  runtimes'[registry[k]].id = k
    <3>1. registry[k] \in Runtimes
        BY <2>1, Names
    <3>2. Running(registry[k]) /\ runtimes'[registry[k]].id = runtimes[registry[k]].id
        BY <1>6, <2>1, <3>1 DEF Running
    <3> QED BY <2>1, <3>2 DEF IInv, Registered
  <2> QED BY <1>5, <2>1 DEF Registered, Running
<1>12. Holds'
  <2>1. ASSUME NEW u \in Tasks, tasks[u].pc \in Waiting, runtimes'[tasks[u].rt].pc # "off"
        PROVE  /\ runtimes'[tasks[u].rt].id = tasks[u].row
               /\ runtimes'[tasks[u].rt].stop \/ runtimes'[tasks[u].rt].pc # "on"
    <3>1. tasks[u].rt \in Runtimes
        BY <2>1, Facts DEF Local
    <3>2. /\ Running(tasks[u].rt) /\ runtimes'[tasks[u].rt].id = runtimes[tasks[u].rt].id
          /\ Told(tasks[u].rt) => runtimes'[tasks[u].rt].stop \/ runtimes'[tasks[u].rt].pc # "on"
        BY <1>6, <2>1, <3>1 DEF Running, Told
    <3> QED BY <2>1, <3>2 DEF IInv, Holds
  <2> QED BY <1>5, <2>1 DEF IInv, Holds, Running, Told
<1>13. Kept'
  <2>1. \A q \in Runtimes : Running(q)' /\ Stopped(q) => Stopped(q)'
      BY <1>5, <1>6 DEF Stopped
  <2> QED BY <1>5, <1>6, <2>1 DEF IInv, Kept
<1>14. Truthful'
  <2> SUFFICES ASSUME NEW q \in Runtimes, runtimes'[q].pc = "on", ~runtimes'[q].stop,
                      runtimes'[q].id \notin Spared
               PROVE  rows'[runtimes'[q].id].status = "connected"
      BY <1>5 DEF Truthful
  <2>1. q # r /\ runtimes'[q] = runtimes[q]
      BY <1>6
  <2>2. registry[runtimes[q].id] = q /\ runtimes[q].id \in Ids
      BY <2>1, Alive
  <2>3. rows[runtimes[q].id].status = "connected"
      BY <2>1 DEF IInv, Truthful
  <2>4. runtimes[q].id # i
    <3> SUFFICES ASSUME runtimes[q].id = i PROVE FALSE
        OBVIOUS
    <3>1. PICK u \in Tasks : tasks[u].rt = r /\ tasks[u].row = i /\ tasks[u].pc \in Waiting
        BY <1>7, <2>1, <2>2
    <3>2. i \notin crossed
        BY <2>1 DEF Spared
    <3> QED BY <1>1, <2>1, <2>2, <3>1, <3>2 DEF IInv, Holds, Waiting, Emptied
  <2> QED BY <1>4, <2>1, <2>2, <2>3, <2>4
<1>15. Starts'
  <2> SUFFICES ASSUME NEW u \in Tasks, tasks[u].pc \in {"start", "insert"}, tasks[u].row \notin Spared
               PROVE  \/ rows'[tasks[u].row].status = "connected"
                      \/ tasks[u].pc = "start" /\ registry[tasks[u].row] # NoRuntime
      BY <1>5 DEF Starts
  <2>1. /\ tasks[u].row \in Ids
        /\ \/ rows[tasks[u].row].status = "connected"
           \/ tasks[u].pc = "start" /\ registry[tasks[u].row] # NoRuntime
      BY Facts DEF HasRow, IInv, Starts
  <2>2. CASE tasks[u].row # i
      BY <1>4, <2>1, <2>2
  <2>3. CASE tasks[u].row = i
    <3>1. registry[i] = r
      <4> SUFFICES ASSUME NEW v \in Tasks, tasks[v].row = i, tasks[v].pc \in Waiting PROVE FALSE
          BY <1>7, <2>3
      <4>1. v # u /\ tasks[v].pc # "idle"
          BY DEF Waiting
      <4>2. i \in crossed
          BY <1>1, <2>3, <4>1 DEF IInv, Apart
      <4> QED BY <2>3, <4>2 DEF Spared
    <3>2. tasks[u].pc = "insert" => FALSE
      <4> SUFFICES ASSUME tasks[u].pc = "insert" PROVE FALSE
          OBVIOUS
      <4>1. i \notin raced
          BY <2>3 DEF Spared, IInv, Typed, RestOK
      <4> QED BY <1>1, <2>3, <3>1, <4>1 DEF IInv, Races
    <3> QED BY <1>1, <2>3, <3>1, <3>2
  <2> QED BY <2>2, <2>3
<1>16. Unique'
    BY <1>4, <1>5 DEF IInv, Unique, Exists
<1>17. Knows'
  <2> SUFFICES ASSUME NEW u \in Tasks PROVE Knowing(tasks[u], rows', crossed)
      BY <1>5 DEF Knows
  <2>1. Knowing(tasks[u], rows, crossed) /\ tasks[u].row \in Ids \cup {0}
      BY Facts DEF IInv, Knows
  <2>2. CASE tasks[u].row \in Ids
      BY <1>4, <2>1, <2>2 DEF Knowing
  <2>3. CASE tasks[u].row = 0
    <3>1. ~(tasks[u].pc \in {"remove", "stopping"}) /\ ~(tasks[u].pc = "find" /\ tasks[u].same)
        BY <1>1, <2>3, Facts DEF HasRow, Local
    <3> QED BY <2>3, <3>1 DEF Knowing
  <2> QED BY <2>1, <2>2, <2>3
<1>18. Covered'
  <2> SUFFICES ASSUME faults' = 0, NEW k \in Ids, k \notin Spared, Exists(k)', rows'[k].status = "connected"
               PROVE  registry[k] # NoRuntime \/ k \in boot \/ Busy(k)
      BY <1>5 DEF Covered, Busy
  <2>1. rows'[k] = rows[k]
      BY <1>4
  <2> QED BY <1>2, <2>1 DEF IInv, Covered, Exists
<1> QED BY <1>8, <1>9, <1>10, <1>11, <1>12, <1>13, <1>14, <1>15, <1>16, <1>17, <1>18 DEF IInv

LEMMA CrashStep ==
    ASSUME IInv, Crash
    PROVE  IInv'
<1>1. /\ \A i \in Ids : registry'[i] = NoRuntime
      /\ registry' \in [Ids -> Runtimes \cup {NoRuntime}]
      /\ \A r \in Runtimes : runtimes'[r] = Off
      /\ runtimes' \in [Runtimes -> Runtime]
      /\ tasks' \in [Tasks -> Task] /\ \A u \in Tasks : tasks'[u] = Idle
    BY OffIs, IdleIs DEF Crash
<1>2. /\ boot' = {i \in Ids : Exists(i) /\ rows[i].status = "connected"}
      /\ crossed' = Twice /\ raced' = {} /\ overdue' = {}
      /\ rows' = rows /\ created' = created /\ revoked' = revoked /\ issued' = issued
      /\ faults' = faults
    BY DEF Crash, directus, server
<1>3. breaks' \in 0..MaxBreaks
    BY BoundsAssumption DEF Crash, Break, IInv, Typed, RestOK
<1>4. Typed'
  <2>1. RowsOK'
      BY <1>2 DEF IInv, Typed, RowsOK
  <2>2. RuntimesOK'
      BY <1>1, OffIs DEF RuntimesOK, Running
  <2>3. RestOK'
      BY <1>2, <1>3 DEF IInv, Typed, RestOK, Twice
  <2> QED BY <1>1, <2>1, <2>2, <2>3 DEF Typed
<1>5. Locals' /\ Holds' /\ Starts'
    BY <1>1, <1>2, IdleIs, Names DEF Locals, Local, Holds, Starts, Connecting, HasRow, Waiting, Emptied
<1>6. Booting'
    BY <1>1, <1>2, IdleIs DEF Booting
<1>7. Apart' /\ Races'
    BY <1>1, IdleIs DEF Apart, Races
<1>8. Registered'
    BY <1>1 DEF Registered
<1>9. Kept' /\ Truthful'
    BY <1>1, OffIs DEF Kept, Truthful, Running
<1>10. Unique'
    BY <1>2 DEF Unique, Exists, Twice
<1>11. Knows'
    BY <1>1, IdleIs DEF Knows, Knowing
<1>12. Covered'
    BY <1>2 DEF Covered, Exists
<1> QED BY <1>4, <1>5, <1>6, <1>7, <1>8, <1>9, <1>10, <1>11, <1>12 DEF IInv

\* Only what fails, breaks or is revoked is counted.
LEMMA Counts ==
    ASSUME IInv, UNCHANGED <<rows, created, registry, runtimes, tasks, crossed, raced, overdue>>,
           boot' \subseteq boot, RestOK', faults' = 0 => faults = 0 /\ boot' = boot
    PROVE  IInv'
<1>1. Typed'
    BY DEF IInv, Typed, RowsOK, RuntimesOK, Running
<1>2. Locals' /\ Booting' /\ Apart' /\ Races'
  <2>1. Locals' /\ Booting'
      BY DEF IInv, Locals, Booting
  <2> QED BY <2>1 DEF IInv, Apart, Races
<1>3. Registered' /\ Holds'
    BY DEF IInv, Registered, Holds, Running, Told
<1>4. Kept'
    BY DEF IInv, Kept, Stopped, Running, Told
<1>5. Truthful' /\ Starts'
    BY DEF IInv, Truthful, Starts, Spared
<1>6. Unique' /\ Knows'
    BY DEF IInv, Unique, Knows, Exists
<1>7. Covered'
    BY DEF IInv, Covered, Exists, Busy, Spared
<1> QED BY <1>1, <1>2, <1>3, <1>4, <1>5, <1>6, <1>7 DEF IInv

LEMMA RevokeStep ==
    ASSUME IInv, Revoke
    PROVE  IInv'
<1>1. RestOK'
    BY DEF Revoke, IInv, Typed, RestOK, work, counters
<1>2. /\ UNCHANGED <<rows, created, registry, runtimes, tasks, crossed, raced, overdue>>
      /\ boot' = boot /\ faults' = faults
    BY DEF Revoke, directus, work, counters
<1> QED BY <1>1, <1>2, Counts

LEMMA BootStep ==
    ASSUME IInv, NEW i \in Ids, Boot(i)
    PROVE  IInv'
<1>1. /\ i \in boot /\ boot' = boot \ {i} /\ registry[i] = NoRuntime /\ rows[i].status = "connected"
      /\ \A u \in Tasks : tasks[u].pc = "idle"
    BY DEF Boot, IInv, Booting
<1>2. CASE Launch(i, rows[i].session) /\ UNCHANGED faults
  <2>1. UNCHANGED <<directus, server, crossed, raced, counters>> /\ tasks' = tasks
      BY <1>2 DEF Boot, work, counters
  <2>2. rows[i].session \in Sessions \cup {0}
      BY Names DEF Row
  <2>3. tasks' \in [Tasks -> Task]
      BY <2>1, Names
  <2> DEFINE S == {}
  <2>4. S \in SUBSET Tasks /\ \A u \in Tasks : tasks'[u] = IF u \in S THEN Idle ELSE tasks[u]
      BY <2>1
  <2> QED BY <1>1, <1>2, <2>1, <2>2, <2>3, <2>4, Launches
<1>3. CASE Fault /\ UNCHANGED <<registry, runtimes>>
  <2>1. faults' \in 0..MaxFaults /\ faults' # 0
      BY <1>3, BoundsAssumption DEF Fault, IInv, Typed, RestOK
  <2>2. /\ UNCHANGED <<rows, created, registry, runtimes, tasks, crossed, raced, overdue>>
        /\ UNCHANGED <<revoked, issued, breaks>>
      BY <1>3 DEF Boot, directus, server, work
  <2>3. RestOK'
      BY <1>1, <2>1, <2>2 DEF IInv, Typed, RestOK
  <2> QED BY <1>1, <2>1, <2>2, <2>3, Counts
<1> QED BY <1>2, <1>3 DEF Boot

-----------------------------------------------------------------------------
(* Steps of a task *)

LEMMA BecomeIs ==
    ASSUME IInv, NEW t \in Tasks, NEW n \in Task, Become(t, n)
    PROVE  /\ tasks' = [tasks EXCEPT ![t] = n] /\ raced' = raced
           /\ crossed \subseteq crossed' /\ crossed' \subseteq Ids /\ raced' \subseteq crossed'
           /\ n.row = 0 => crossed' = crossed
           /\ \/ n.row = 0 \/ n.row \in crossed'
              \/ \A u \in Tasks \ {t} : tasks[u].pc # "idle" => tasks[u].row # n.row
<1>1. n.row \in Ids \cup {0} /\ 0 \notin Ids
    BY Names DEF Task
<1>2. crossed \subseteq Ids /\ raced \subseteq crossed
    BY DEF IInv, Typed, RestOK
<1>3. crossed' = crossed \cup {i \in Ids : n.row = i /\ Meets(t, i)} /\ raced' = raced
    BY DEF Become
<1> QED BY <1>1, <1>2, <1>3 DEF Become, Meets

LEMMA GoIs ==
    ASSUME IInv, NEW t \in Tasks, NEW p \in Pcs, Go(t, p)
    PROVE  LET n == [tasks[t] EXCEPT !.pc = p]
           IN  /\ n \in Task /\ tasks' = [tasks EXCEPT ![t] = n]
               /\ SameTask(n, tasks[t])
               /\ n.pc = p /\ n.who = tasks[t].who /\ n.session = tasks[t].session
               /\ n.same = tasks[t].same /\ n.row = tasks[t].row /\ n.rt = tasks[t].rt
               /\ crossed' = crossed /\ raced' = raced
<1> DEFINE n == [tasks[t] EXCEPT !.pc = p]
<1>1. tasks' = [tasks EXCEPT ![t] = n] /\ crossed' = crossed /\ raced' = raced
    BY DEF Go
<1>2. SameTask(n, tasks[t]) /\ n.pc = p /\ n.same = tasks[t].same /\ n.row = tasks[t].row
      /\ n.rt = tasks[t].rt
    BY Facts, PcTask
<1> HIDE DEF n
<1>3. QED BY <1>1, <1>2 DEF SameTask, n

LEMMA AwaitedIs ==
    ASSUME IInv, NEW t \in Tasks, tasks[t].row \in Ids, Awaited(t)
    PROVE  /\ runtimes' = runtimes /\ breaks' \in 0..MaxBreaks
           /\ overdue \subseteq overdue' /\ overdue' \subseteq Ids
           /\ ~Running(tasks[t].rt) \/ tasks[t].row \in overdue'
  BY BoundsAssumption DEF Awaited, Break, IInv, Typed, RestOK

LEMMA SignInStep ==
    ASSUME IInv, NEW t \in Tasks, SignIn(t)
    PROVE  IInv'
<1>1. PICK w \in Identities, add \in BOOLEAN : Become(t, SignedIn(w, add, issued'))
    BY DEF SignIn, SignedIn
<1>2. /\ tasks[t].pc = "idle" /\ boot = {} /\ issued' = issued + 1 /\ issued < MaxSessions
      /\ UNCHANGED <<directus, registry, runtimes, revoked, boot, counters>>
    BY DEF SignIn
<1>3. issued' \in Sessions /\ issued' \in 0..MaxSessions /\ 1..issued \subseteq 1..issued'
    BY <1>2, BoundsAssumption DEF IInv, Typed, RestOK, Sessions
<1> DEFINE n == SignedIn(w, add, issued')
<1>4. /\ n \in Task /\ n.pc = "lookup" /\ n.who = w /\ n.session = issued' /\ n.rt = NoRuntime
      /\ n.row = 0 /\ ~n.same
    BY <1>3, SignedInIs
<1>5. Become(t, n)
    BY <1>1
<1> HIDE DEF n
<1>6. /\ tasks' = [tasks EXCEPT ![t] = n] /\ raced' = raced /\ crossed' = crossed
    BY <1>4, <1>5, BecomeIs
<1>7. RestOK'
    BY <1>2, <1>3, <1>6 DEF IInv, Typed, RestOK, counters
<1>8. Local(n) /\ n.row <= created /\ Knowing(n, rows, crossed')
    BY <1>3, <1>4, Names DEF Local, Knowing, Connecting, HasRow, Waiting
<1>9. /\ tasks[t].rt = NoRuntime /\ overdue' = overdue /\ faults' = faults
    BY <1>2, Facts DEF counters, Waiting
<1> QED BY <1>2, <1>4, <1>6, <1>7, <1>8, <1>9, Walks DEF Waiting, Emptied

\* A task goes on, the histories may grow, and it stays at its account or leaves one that is
\* in order.
LEMMA Goes ==
    ASSUME IInv, NEW t \in Tasks, tasks[t].pc # "idle", NEW n \in Task,
           tasks' = [tasks EXCEPT ![t] = n],
           UNCHANGED <<directus, registry, runtimes, server, boot, faults>>,
           breaks' \in 0..MaxBreaks,
           crossed \subseteq crossed', crossed' \subseteq Ids, raced' = raced,
           overdue \subseteq overdue', overdue' \subseteq Ids,
           Local(n), n.row <= created, n.pc \notin Waiting \cup {"start", "insert"},
           \/ n.row = tasks[t].row \/ n.row = 0 \/ n.row \in crossed'
           \/ \A u \in Tasks \ {t} : tasks[u].pc # "idle" => tasks[u].row # n.row,
           \/ tasks[t].rt = NoRuntime \/ ~Running(tasks[t].rt) \/ tasks[t].row \in overdue',
           n.pc \in Emptied /\ n.row \notin crossed' => registry[n.row] = NoRuntime,
           Knowing(n, rows, crossed'),
           \A i \in Ids \ crossed' :
               tasks[t].row = i /\ Exists(i) /\ rows[i].status = "connected" =>
                   registry[i] # NoRuntime \/ (n.pc # "idle" /\ n.row = i)
    PROVE  IInv'
<1>1. boot = {}
    BY Facts
<1>2. RestOK' /\ raced \subseteq raced'
    BY DEF IInv, Typed, RestOK, server
<1>3. UNCHANGED <<directus, registry, runtimes, boot>> /\ faults' = faults
    OBVIOUS
<1> QED BY <1>1, <1>2, <1>3, Walks

LEMMA LookupStep ==
    ASSUME IInv, NEW t \in Tasks, Lookup(t)
    PROVE  IInv'
<1> DEFINE h == tasks[t]
           replaced == {p \in ForUser : ~h.add \/ rows[p].who = h.who}
<1>1. /\ h.pc = "lookup" /\ UNCHANGED <<directus, registry, runtimes, server, boot, counters>>
      /\ breaks' \in 0..MaxBreaks /\ overdue' = overdue /\ overdue \subseteq Ids
      /\ crossed \subseteq Ids /\ faults' = faults
    BY DEF Lookup, counters, IInv, Typed, RestOK
<1>2. /\ h \in Task /\ h.row = 0 /\ ~h.same /\ h.rt = NoRuntime /\ h.who \in Identities
      /\ h.session \in Sessions
    BY <1>1, Facts DEF Local, Connecting, Waiting
<1>3. CASE replaced = {}
  <2>1. Go(t, "find")
      BY <1>3 DEF Lookup
  <2> DEFINE n == [h EXCEPT !.pc = "find"]
  <2>2. /\ n \in Task /\ tasks' = [tasks EXCEPT ![t] = n]
        /\ n.pc = "find" /\ n.who = h.who /\ n.session = h.session /\ n.same = h.same /\ n.row = h.row
        /\ n.rt = h.rt /\ crossed' = crossed /\ raced' = raced
      BY <2>1, GoIs DEF Pcs
  <2> HIDE DEF n, h
  <2>3. Local(n) /\ n.row <= created /\ Knowing(n, rows, crossed')
      BY <1>2, <2>2, Names DEF Local, Knowing, Connecting, HasRow, Waiting
  <2> QED BY <1>1, <1>2, <2>2, <2>3, Names, Goes DEF Waiting, Emptied, h
<1>4. CASE replaced # {}
  <2>1. PICK p \in replaced : Become(t, Replacing(h, p, rows[p].who = h.who))
      BY <1>4 DEF Lookup, Replacing
  <2>2. p \in Ids /\ rows[p].who # Nobody
      BY DEF ForUser, Exists
  <2>3. p <= created
      BY <2>2 DEF IInv, Typed, RowsOK
  <2> DEFINE n == Replacing(h, p, rows[p].who = h.who)
  <2>4. /\ SameTask(n, h) /\ n.pc = "remove" /\ n.same = (rows[p].who = h.who) /\ n.row = p
        /\ n.rt = h.rt
      BY <1>2, <2>2, ReplacingIs
  <2>5. Become(t, n) /\ n \in Task /\ n.who = h.who /\ n.session = h.session
      BY <2>1, <2>4 DEF SameTask
  <2> HIDE DEF n
  <2>6. /\ tasks' = [tasks EXCEPT ![t] = n] /\ raced' = raced
        /\ crossed \subseteq crossed' /\ crossed' \subseteq Ids
        /\ \/ n.row = 0 \/ n.row \in crossed'
           \/ \A u \in Tasks \ {t} : tasks[u].pc # "idle" => tasks[u].row # n.row
      BY <2>5, BecomeIs
  <2> HIDE DEF h
  <2>7. Local(n) /\ Knowing(n, rows, crossed')
      BY <1>2, <2>2, <2>4, <2>5 DEF Local, Knowing, Connecting, HasRow, Waiting
  <2>8. /\ n.pc \notin Waiting \cup {"start", "insert"} \cup Emptied /\ n.rt = NoRuntime
        /\ n.row <= created /\ tasks[t].rt = NoRuntime /\ tasks[t].pc # "idle"
      BY <1>1, <1>2, <2>3, <2>4 DEF Waiting, Emptied, h
  <2>9. \A i \in Ids : tasks[t].row # i
      BY <1>2, Names DEF h
  <2> QED BY <1>1, <2>5, <2>6, <2>7, <2>8, <2>9, Goes
<1> QED BY <1>3, <1>4

\* Registry::remove by the task that replaces an account, or by the one that disconnects it.
LEMMA UnregisterStep ==
    ASSUME IInv, NEW t \in Tasks, NEW next \in Pcs, NEW after \in Pcs,
           \/ tasks[t].pc = "remove" /\ next = "stopping" /\ after = Replaced(t)
           \/ tasks[t].pc = "unregister" /\ next = "unregistered" /\ after = "drop",
           Unregister(t, next, after),
           UNCHANGED <<directus, server, boot, counters>>
    PROVE  IInv'
<1> DEFINE h == tasks[t]
           i == h.row
<1>1. /\ h \in Task /\ i \in Ids /\ h.rt = NoRuntime /\ boot = {} /\ h.pc # "idle" /\ i <= created
      /\ h.pc = "remove" => h.who \in Identities /\ h.session \in Sessions
      /\ Knowing(h, rows, crossed)
      /\ i # 0 /\ NoRuntime \notin Runtimes
    BY Facts, Names DEF HasRow, Waiting, Connecting, IInv, Knows
<1>2. /\ breaks' \in 0..MaxBreaks /\ overdue' = overdue /\ overdue \subseteq Ids
      /\ crossed \subseteq Ids /\ faults' = faults
    BY DEF counters, IInv, Typed, RestOK
<1>3. /\ after = "find" => h.pc = "remove" /\ h.same
      /\ after = "retire" => h.pc = "remove" /\ ~h.same
      /\ after \in {"find", "retire", "drop"}
    BY DEF Replaced
<1>4. CASE registry[i] = NoRuntime
  <2>1. Go(t, after) /\ runtimes' = runtimes /\ registry' = [registry EXCEPT ![i] = NoRuntime]
      BY <1>4 DEF Unregister
  <2>2. registry' = registry
      BY <1>4, <2>1, Names
  <2> DEFINE n == [h EXCEPT !.pc = after]
  <2>3. /\ n \in Task /\ tasks' = [tasks EXCEPT ![t] = n]
        /\ n.pc = after /\ n.who = h.who /\ n.session = h.session /\ n.same = h.same /\ n.row = i
        /\ n.rt = h.rt /\ crossed' = crossed /\ raced' = raced
      BY <2>1, GoIs
  <2> HIDE DEF n, h, i
  <2>4. Local(n) /\ n.row <= created
      BY <1>1, <1>3, <2>3 DEF Local, Connecting, HasRow, Waiting
  <2>5. Knowing(n, rows, crossed')
      BY <1>1, <1>3, <2>3 DEF Knowing, h, i
  <2> QED BY <1>1, <1>2, <1>3, <1>4, <2>1, <2>2, <2>3, <2>4, <2>5, Goes DEF Waiting, h, i
<1>5. CASE registry[i] # NoRuntime
  <2> DEFINE r == registry[i]
  <2>1. r \in Runtimes
      BY <1>1, <1>5, Names
  <2>2. /\ registry' = [registry EXCEPT ![i] = NoRuntime] /\ SendStop(r)
        /\ IF runtimes[r].handle THEN Become(t, Awaiting(h, next, r)) ELSE Go(t, after)
      BY <1>5 DEF Unregister, Awaiting
  <2>3. CASE runtimes[r].handle
    <3> DEFINE n == Awaiting(h, next, r)
    <3>1. SameTask(n, h) /\ n.pc = next /\ n.same = h.same /\ n.row = h.row /\ n.rt = r
        BY <1>1, <2>1, AwaitingIs
    <3>2. Become(t, n) /\ n \in Task
        BY <2>2, <2>3, <3>1 DEF SameTask
    <3> HIDE DEF n
    <3>3. /\ tasks' = [tasks EXCEPT ![t] = n] /\ raced' = raced
          /\ crossed \subseteq crossed' /\ crossed' \subseteq Ids
        BY <3>2, BecomeIs
    <3> QED BY <1>1, <2>1, <2>2, <2>3, <3>1, <3>2, <3>3, Stopping
  <2>4. CASE ~runtimes[r].handle
    <3> DEFINE n == [h EXCEPT !.pc = after]
    <3>1. /\ n \in Task /\ tasks' = [tasks EXCEPT ![t] = n] /\ SameTask(n, h)
          /\ n.pc = after /\ n.same = h.same /\ n.row = h.row
          /\ n.rt = h.rt /\ crossed' = crossed /\ raced' = raced
        BY <2>2, <2>4, GoIs
    <3> HIDE DEF n
    <3> QED BY <1>1, <1>2, <1>3, <2>1, <2>2, <2>4, <3>1, Stopping
  <2> QED BY <2>3, <2>4
<1> QED BY <1>4, <1>5

LEMMA RemoveStep ==
    ASSUME IInv, NEW t \in Tasks, Remove(t)
    PROVE  IInv'
<1>1. Replaced(t) \in Pcs /\ "stopping" \in Pcs
    BY DEF Replaced, Pcs
<1> QED BY <1>1, UnregisterStep DEF Remove

LEMMA RemoveWipedStep ==
    ASSUME IInv, RemoveWiped
    PROVE  IInv'
<1>1. "unregistered" \in Pcs /\ "drop" \in Pcs /\ Chat \in Tasks
    BY DEF Pcs, Tasks
<1> QED BY <1>1, UnregisterStep DEF RemoveWiped

\* The three places where a stop is awaited.
LEMMA AwaitedStep ==
    ASSUME IInv, NEW t \in Tasks, NEW p \in Pcs,
           \/ tasks[t].pc = "stopping" /\ p = Replaced(t)
           \/ tasks[t].pc = "wipe" /\ p = "unregister"
           \/ tasks[t].pc = "unregistered" /\ p = "drop",
           Awaited(t), Become(t, Awaiting(tasks[t], p, NoRuntime)),
           UNCHANGED <<directus, registry, server, boot, faults>>
    PROVE  IInv'
<1> DEFINE h == tasks[t]
           n == Awaiting(h, p, NoRuntime)
<1>1. /\ h \in Task /\ h.row \in Ids /\ h.pc # "idle" /\ h.row <= created
      /\ h.pc = "stopping" => h.who \in Identities /\ h.session \in Sessions
      /\ Knowing(h, rows, crossed)
      /\ h.row # 0
    BY Facts, Names DEF HasRow, Connecting, IInv, Knows
<1>2. /\ p = "find" => h.pc = "stopping" /\ h.same
      /\ p = "retire" => h.pc = "stopping" /\ ~h.same
      /\ p = "drop" => h.pc = "unregistered"
      /\ p \in {"find", "retire", "drop", "unregister"}
    BY DEF Replaced
<1>3. SameTask(n, h) /\ n.pc = p /\ n.same = h.same /\ n.row = h.row /\ n.rt = NoRuntime
    BY <1>1, AwaitingIs
<1>4. Become(t, n) /\ n \in Task /\ n.who = h.who /\ n.session = h.session
    BY <1>3 DEF SameTask
<1> HIDE DEF n
<1>5. /\ tasks' = [tasks EXCEPT ![t] = n] /\ raced' = raced
      /\ crossed \subseteq crossed' /\ crossed' \subseteq Ids
    BY <1>4, BecomeIs
<1>6. /\ runtimes' = runtimes /\ breaks' \in 0..MaxBreaks
      /\ overdue \subseteq overdue' /\ overdue' \subseteq Ids
      /\ ~Running(h.rt) \/ h.row \in overdue'
    BY <1>1, AwaitedIs
<1>7. n.pc \in Emptied /\ n.row \notin crossed' => registry[n.row] = NoRuntime
  <2>1. h.pc \in Emptied /\ h.row \notin crossed => registry[h.row] = NoRuntime
      BY NotTaken
  <2> QED BY <1>2, <1>3, <1>5, <2>1 DEF Emptied
<1> HIDE DEF h
<1>8. Local(n)
    BY <1>1, <1>2, <1>3, <1>4 DEF Local, Connecting, HasRow, Waiting
<1>9. Knowing(n, rows, crossed')
    BY <1>1, <1>2, <1>3, <1>4 DEF Knowing
<1> QED BY <1>1, <1>2, <1>3, <1>4, <1>5, <1>6, <1>7, <1>8, <1>9, Goes DEF Waiting, h

LEMMA StopAwaitedStep ==
    ASSUME IInv, NEW t \in Tasks, StopAwaited(t)
    PROVE  IInv'
<1>1. Replaced(t) \in Pcs
    BY DEF Replaced, Pcs
<1> QED BY <1>1, AwaitedStep DEF StopAwaited, Awaiting

LEMMA WipeStep ==
    ASSUME IInv, Wipe \/ RemovedWiped
    PROVE  IInv'
<1>1. "unregister" \in Pcs /\ "drop" \in Pcs /\ Chat \in Tasks
    BY DEF Pcs, Tasks
<1>2. CASE Wipe
    BY <1>1, <1>2, AwaitedStep DEF Wipe, Awaiting
<1>3. CASE RemovedWiped
    BY <1>1, <1>3, AwaitedStep DEF RemovedWiped, Awaiting
<1> QED BY <1>2, <1>3

LEMMA RetireStep ==
    ASSUME IInv, NEW t \in Tasks, Retire(t)
    PROVE  IInv'
<1> DEFINE h == tasks[t]
           i == h.row
<1>1. /\ h.pc = "retire" /\ UNCHANGED <<created, registry, runtimes, server, boot, counters>>
      /\ h \in Task /\ i \in Ids /\ h.rt = NoRuntime
      /\ faults \in 0..MaxFaults /\ breaks \in 0..MaxBreaks
      /\ crossed \subseteq Ids /\ overdue \subseteq Ids
    BY Facts DEF Retire, HasRow, Waiting, IInv, Typed, RestOK
<1>2. /\ faults' = faults /\ breaks' = breaks /\ overdue' = overdue
    BY <1>1 DEF counters
<1>3. CASE Exists(i)
  <2>1. rows' = WithStatus(i, "disconnected") /\ Go(t, "find")
      BY <1>3 DEF Retire
  <2> DEFINE n == [h EXCEPT !.pc = "find"]
  <2>2. /\ n \in Task /\ tasks' = [tasks EXCEPT ![t] = n] /\ SameTask(n, h)
        /\ n.pc = "find" /\ n.same = h.same /\ n.row = i /\ n.rt = h.rt
        /\ crossed' = crossed /\ raced' = raced
      BY <2>1, GoIs DEF Pcs
  <2> HIDE DEF n
  <2>3. /\ rows' \in [Ids -> Row] /\ \A k \in Ids : k # i => rows'[k] = rows[k]
        /\ rows'[i].who = rows[i].who /\ rows'[i].status = "disconnected" /\ rows'[i].session = 0
      BY <1>1, <2>1, WithStatusIs, Names
  <2> QED BY <1>1, <1>2, <2>2, <2>3, Closes
<1>4. CASE ~Exists(i)
  <2>1. rows' = rows /\ Become(t, Idle)
      BY <1>4 DEF Retire
  <2>2. /\ tasks' = [tasks EXCEPT ![t] = Idle] /\ raced' = raced /\ crossed' = crossed
      BY <2>1, IdleIs, BecomeIs
  <2>3. Local(Idle) /\ Idle.row <= created /\ Knowing(Idle, rows, crossed')
      BY IdleIs, Names DEF Local, Knowing, Connecting, HasRow, Waiting
  <2>4. UNCHANGED <<directus, registry, runtimes, server, boot, faults>>
      BY <1>1, <1>2, <2>1 DEF directus
  <2>5. /\ Idle \in Task /\ Idle.row = 0 /\ Idle.pc \notin Waiting \cup {"start", "insert"} \cup Emptied
      BY IdleIs DEF Waiting, Emptied
  <2>6. /\ tasks[t].pc # "idle" /\ tasks[t].rt = NoRuntime
        /\ \A k \in Ids : tasks[t].row = k => ~Exists(k)
      BY <1>1, <1>4
  <2> QED BY <1>1, <1>2, <2>2, <2>3, <2>4, <2>5, <2>6, Goes
<1> QED BY <1>3, <1>4

LEMMA FindStep ==
    ASSUME IInv, NEW t \in Tasks, Find(t)
    PROVE  IInv'
<1> DEFINE h == tasks[t]
           own == {i \in Ids : rows[i].who = h.who}
<1>1. /\ h.pc = "find" /\ UNCHANGED <<directus, registry, runtimes, server, boot, counters>>
      /\ breaks' \in 0..MaxBreaks /\ overdue' = overdue /\ overdue \subseteq Ids
      /\ crossed \subseteq Ids /\ faults' = faults
    BY DEF Find, counters, IInv, Typed, RestOK
<1>2. /\ h \in Task /\ h.rt = NoRuntime /\ h.who \in Identities /\ h.session \in Sessions
      /\ Knowing(h, rows, crossed) /\ h.row \in Ids \cup {0}
    BY <1>1, Facts DEF Local, Connecting, Waiting, IInv, Knows
<1>3. PICK i \in IF own = {} THEN {0} ELSE own : Become(t, Located(h, "write", i))
    BY DEF Find, Located
<1>4. i \in Ids \cup {0} /\ (i # 0 => rows[i].who = h.who) /\ (own # {} => i \in own)
    BY Names
<1>5. i <= created
  <2>1. i # 0 => rows[i].who # Nobody /\ i \in Ids
      BY <1>2, <1>4, Names
  <2> QED BY <2>1, Names DEF IInv, Typed, RowsOK
<1> DEFINE n == Located(h, "write", i)
<1>6. SameTask(n, h) /\ n.pc = "write" /\ n.same = h.same /\ n.row = i /\ n.rt = h.rt
    BY <1>2, <1>4, LocatedIs DEF Pcs
<1>7. Become(t, n) /\ n \in Task /\ n.who = h.who /\ n.session = h.session
    BY <1>3, <1>6 DEF SameTask
<1> HIDE DEF n
<1>8. /\ tasks' = [tasks EXCEPT ![t] = n] /\ raced' = raced
      /\ crossed \subseteq crossed' /\ crossed' \subseteq Ids
      /\ \/ n.row = 0 \/ n.row \in crossed'
         \/ \A u \in Tasks \ {t} : tasks[u].pc # "idle" => tasks[u].row # n.row
    BY <1>7, BecomeIs
<1>9. Local(n) /\ Knowing(n, rows, crossed')
    BY <1>2, <1>4, <1>6, <1>7 DEF Local, Knowing, Connecting, HasRow, Waiting
<1>10. ASSUME NEW k \in Ids \ crossed', h.row = k, Exists(k), rows[k].status = "connected"
       PROVE  n.row = k
  <2>1. k # 0 /\ k \notin crossed
      BY <1>8, <1>10, Names
  <2>2. h.same
      BY <1>1, <1>2, <1>10, <2>1 DEF Knowing
  <2>3. rows[k].who = h.who
      BY <1>1, <1>2, <1>10, <2>2 DEF Knowing, Exists
  <2>4. i \in own
      BY <1>4, <1>10, <2>3
  <2>5. i = k
      BY <1>10, <2>1, <2>3, <2>4 DEF IInv, Unique
  <2> QED BY <1>6, <2>5
<1>11. /\ n.pc \notin Waiting \cup {"start", "insert"} \cup Emptied /\ n.pc # "idle"
       /\ n.row <= created /\ tasks[t].rt = NoRuntime /\ tasks[t].pc # "idle"
    BY <1>1, <1>2, <1>5, <1>6 DEF Waiting, Emptied
<1> QED BY <1>1, <1>7, <1>8, <1>9, <1>10, <1>11, Goes

LEMMA WriteStep ==
    ASSUME IInv, NEW t \in Tasks, Write(t)
    PROVE  IInv'
<1> DEFINE h == tasks[t]
<1>1. /\ h.pc = "write" /\ UNCHANGED <<registry, runtimes, server, boot, counters>>
      /\ h \in Task /\ h.rt = NoRuntime /\ h.row \in Ids \cup {0}
      /\ faults \in 0..MaxFaults /\ breaks \in 0..MaxBreaks
      /\ crossed \subseteq Ids /\ overdue \subseteq Ids
    BY Facts DEF Write, Waiting, IInv, Typed, RestOK
<1>2. /\ faults' = faults /\ breaks' = breaks /\ overdue' = overdue
    BY <1>1 DEF counters
<1>3. CASE h.row # 0 /\ Exists(h.row)
  <2>1. Put(t, h.row) /\ Go(t, "start") /\ created' = created
      BY <1>3 DEF Write
  <2> DEFINE n == [h EXCEPT !.pc = "start"]
  <2>2. /\ n \in Task /\ tasks' = [tasks EXCEPT ![t] = n] /\ SameTask(n, h)
        /\ n.pc = "start" /\ n.row = h.row /\ n.rt = h.rt
        /\ crossed' = crossed /\ raced' = raced
      BY <2>1, GoIs DEF Pcs
  <2> HIDE DEF n
  <2>3. h.row \in Ids
      BY <1>1, <1>3
  <2> QED BY <1>1, <1>2, <1>3, <2>1, <2>2, <2>3, Puts
<1>4. CASE h.row # 0 /\ ~Exists(h.row)
  <2>1. Become(t, Idle) /\ UNCHANGED directus
      BY <1>4 DEF Write
  <2>2. /\ tasks' = [tasks EXCEPT ![t] = Idle] /\ raced' = raced /\ crossed' = crossed
      BY <2>1, IdleIs, BecomeIs
  <2>3. Local(Idle) /\ Idle.row <= created /\ Knowing(Idle, rows, crossed')
      BY IdleIs, Names DEF Local, Knowing, Connecting, HasRow, Waiting
  <2>4. UNCHANGED <<directus, registry, runtimes, server, boot, faults>>
      BY <1>1, <1>2, <2>1
  <2>5. /\ Idle \in Task /\ Idle.row = 0 /\ Idle.pc \notin Waiting \cup {"start", "insert"} \cup Emptied
      BY IdleIs DEF Waiting, Emptied
  <2>6. /\ tasks[t].pc # "idle" /\ tasks[t].rt = NoRuntime
        /\ \A k \in Ids : tasks[t].row = k => ~Exists(k)
      BY <1>1, <1>4
  <2> QED BY <1>1, <1>2, <2>2, <2>3, <2>4, <2>5, <2>6, Goes
<1>5. CASE h.row = 0
  <2>1. /\ created < MaxRows /\ created' = created + 1 /\ Put(t, created')
        /\ tasks' = [tasks EXCEPT ![t].pc = "start", ![t].row = created']
        /\ crossed' = crossed \cup Doubled(t) /\ raced' = raced
      BY <1>5 DEF Write
  <2> DEFINE i == created'
             n == Located(h, "start", i)
  <2>2. i \in Ids /\ i = created + 1
      BY <2>1, BoundsAssumption, Names DEF Ids
  <2>3. tasks' = [tasks EXCEPT ![t] = n]
      BY <2>1, Names DEF Located
  <2> HIDE DEF i
  <2>4. SameTask(n, h) /\ n.pc = "start" /\ n.row = i /\ n.rt = h.rt
      BY <1>1, <2>2, LocatedIs DEF Pcs
  <2>5. n \in Task
      BY <2>4 DEF SameTask
  <2> HIDE DEF n
  <2>6. Put(t, i) /\ created' = i
      BY <2>1 DEF i
  <2> QED BY <1>1, <1>2, <1>5, <2>1, <2>2, <2>3, <2>4, <2>5, <2>6, Puts
<1> QED BY <1>3, <1>4, <1>5

LEMMA StartGetStep ==
    ASSUME IInv, NEW t \in Tasks, StartGet(t)
    PROVE  IInv'
<1> DEFINE h == tasks[t]
           i == h.row
<1>1. /\ h.pc = "start" /\ UNCHANGED <<directus, registry, runtimes, server, boot, counters>>
      /\ breaks' \in 0..MaxBreaks /\ overdue' = overdue /\ overdue \subseteq Ids
      /\ crossed \subseteq Ids /\ raced \subseteq crossed /\ faults' = faults
    BY DEF StartGet, counters, IInv, Typed, RestOK
<1>2. /\ h \in Task /\ i \in Ids /\ h.rt = NoRuntime /\ boot = {} /\ i <= created
      /\ h.who \in Identities /\ h.session \in Sessions /\ 0 \notin Ids
    BY <1>1, Facts, Names DEF HasRow, Connecting, Waiting
<1>3. CASE registry[i] # NoRuntime
  <2>1. Become(t, Idle)
      BY <1>3 DEF StartGet
  <2>2. /\ tasks' = [tasks EXCEPT ![t] = Idle] /\ raced' = raced /\ crossed' = crossed
      BY <2>1, IdleIs, BecomeIs
  <2>3. Local(Idle) /\ Idle.row <= created /\ Knowing(Idle, rows, crossed')
      BY IdleIs, Names DEF Local, Knowing, Connecting, HasRow, Waiting
  <2>5. /\ Idle \in Task /\ Idle.row = 0 /\ Idle.pc \notin Waiting \cup {"start", "insert"} \cup Emptied
      BY IdleIs DEF Waiting, Emptied
  <2>6. /\ tasks[t].pc # "idle" /\ tasks[t].rt = NoRuntime
        /\ \A k \in Ids : tasks[t].row = k => registry[k] # NoRuntime
      BY <1>1, <1>2, <1>3
  <2> QED BY <1>1, <2>2, <2>3, <2>5, <2>6, Goes
<1>4. CASE registry[i] = NoRuntime
  <2> DEFINE n == [h EXCEPT !.pc = "insert"]
             both == {k \in Ids : i = k /\ \E u \in Tasks \ {t} : tasks[u].pc = "insert" /\ tasks[u].row = k}
  <2>1. tasks' = [tasks EXCEPT ![t] = n] /\ raced' = raced \cup both /\ crossed' = crossed
      BY <1>4 DEF StartGet
  <2>2. SameTask(n, h) /\ n.pc = "insert" /\ n.same = h.same /\ n.row = i /\ n.rt = h.rt
      BY <1>2, PcTask DEF Pcs
  <2>3. both \subseteq crossed /\ (i \notin both => \A u \in Tasks \ {t} : tasks[u].pc = "insert" => tasks[u].row # i)
      BY <1>1, <1>2 DEF IInv, Apart
  <2> HIDE DEF n, both
  <2>4. RestOK' /\ raced \subseteq raced'
      BY <1>1, <2>1, <2>3 DEF IInv, Typed, RestOK, server, counters
  <2>5. n \in Task /\ Local(n) /\ Knowing(n, rows, crossed')
      BY <1>2, <2>2 DEF SameTask, Local, Knowing, Connecting, HasRow, Waiting
  <2>6. i \notin crossed' \cup overdue' => rows[i].status = "connected"
      BY <1>1, <1>4, <2>1 DEF IInv, Starts, Spared
  <2>7. /\ n.pc \notin Waiting \cup {"start"} \cup Emptied /\ n.pc # "idle" /\ n.row = i
        /\ n.row <= created /\ tasks[t].rt = NoRuntime /\ tasks[t].row = i /\ tasks[t].pc # "idle"
      BY <1>1, <1>2, <2>2 DEF Waiting, Emptied
  <2>8. n.row \notin raced' =>
            /\ registry[n.row] = NoRuntime
            /\ \A u \in Tasks \ {t} : tasks[u].pc = "insert" => tasks[u].row # n.row
      BY <1>4, <2>1, <2>2, <2>3
  <2> HIDE DEF i, h
  <2> QED BY <1>1, <1>2, <2>1, <2>4, <2>5, <2>6, <2>7, <2>8, Walks
<1> QED BY <1>3, <1>4

LEMMA InsertStep ==
    ASSUME IInv, NEW t \in Tasks, Insert(t)
    PROVE  IInv'
<1> DEFINE h == tasks[t]
           i == h.row
           S == {t}
<1>1. /\ h.pc = "insert" /\ UNCHANGED <<directus, server, boot, counters>>
      /\ Launch(i, h.session) /\ Become(t, Idle)
    BY DEF Insert
<1>2. /\ i \in Ids /\ h.session \in Sessions /\ boot = {}
    BY <1>1, Facts DEF HasRow, Connecting
<1>3. /\ tasks' = [tasks EXCEPT ![t] = Idle] /\ raced' = raced /\ crossed' = crossed
    BY <1>1, IdleIs, BecomeIs
<1>4. /\ tasks' \in [Tasks -> Task]
      /\ \A u \in Tasks : tasks'[u] = IF u \in S THEN Idle ELSE tasks[u]
    BY <1>3, IdleIs, Names
<1>5. registry[i] # NoRuntime => i \in raced
    BY <1>1 DEF IInv, Races
<1>6. i \notin Spared => rows[i].status = "connected"
    BY <1>1 DEF IInv, Starts
<1>7. boot' = boot \ {i}
    BY <1>1, <1>2
<1>8. S \in SUBSET Tasks /\ S # {} /\ \A u \in S : tasks[u].pc = "insert" /\ tasks[u].row = i
    BY <1>1
<1> HIDE DEF S, i, h
<1> QED BY <1>1, <1>2, <1>3, <1>4, <1>5, <1>6, <1>7, <1>8, Launches

LEMMA DisconnectStep ==
    ASSUME IInv, Disconnect
    PROVE  IInv'
<1>1. /\ Chat \in Tasks /\ tasks[Chat].pc = "idle" /\ boot = {}
      /\ UNCHANGED <<directus, registry, runtimes, server, boot, counters>>
    BY DEF Disconnect, Tasks
<1>2. PICK i \in Chosen, purge \in BOOLEAN : Become(Chat, Leaving(i, purge))
    BY DEF Disconnect, Leaving
<1>3. i \in Ids /\ i <= created
    BY DEF Chosen, Exists, IInv, Typed, RowsOK
<1> DEFINE n == Leaving(i, purge)
<1>4. n \in Task /\ n.pc = "get" /\ n.row = i /\ n.rt = NoRuntime
    BY <1>3, LeavingIs
<1>5. Become(Chat, n)
    BY <1>2
<1> HIDE DEF n
<1>6. /\ tasks' = [tasks EXCEPT ![Chat] = n] /\ raced' = raced
      /\ crossed \subseteq crossed' /\ crossed' \subseteq Ids /\ raced' \subseteq crossed'
      /\ \/ n.row = 0 \/ n.row \in crossed'
         \/ \A u \in Tasks \ {Chat} : tasks[u].pc # "idle" => tasks[u].row # n.row
    BY <1>1, <1>4, <1>5, BecomeIs
<1>7. RestOK'
    BY <1>1, <1>6 DEF IInv, Typed, RestOK, server, counters
<1>8. Local(n) /\ Knowing(n, rows, crossed') /\ n.row <= created
    BY <1>3, <1>4 DEF Local, Knowing, Connecting, HasRow, Waiting
<1>9. /\ tasks[Chat].rt = NoRuntime /\ overdue' = overdue /\ faults' = faults
      /\ n.pc \notin Waiting \cup {"start", "insert"} \cup Emptied
    BY <1>1, <1>4, Facts DEF counters, Waiting, Emptied
<1> QED BY <1>1, <1>4, <1>6, <1>7, <1>8, <1>9, Walks

LEMMA GetStep ==
    ASSUME IInv, Get
    PROVE  IInv'
<1> DEFINE h == tasks[Chat]
           i == h.row
           r == registry[i]
<1>1. /\ Chat \in Tasks /\ h.pc = "get" /\ registry' = registry
      /\ UNCHANGED <<directus, server, boot, counters>>
      /\ breaks' \in 0..MaxBreaks /\ overdue' = overdue /\ overdue \subseteq Ids
      /\ crossed \subseteq Ids /\ faults' = faults
    BY DEF Get, Tasks, counters, IInv, Typed, RestOK
<1>2. /\ h \in Task /\ i \in Ids /\ h.rt = NoRuntime /\ boot = {} /\ i <= created
    BY <1>1, Facts DEF HasRow, Waiting
<1>3. CASE r = NoRuntime
  <2>1. Go(Chat, "drop") /\ runtimes' = runtimes
      BY <1>3 DEF Get
  <2> DEFINE n == [h EXCEPT !.pc = "drop"]
  <2>2. /\ n \in Task /\ tasks' = [tasks EXCEPT ![Chat] = n]
        /\ n.pc = "drop" /\ n.row = i /\ n.rt = h.rt /\ crossed' = crossed /\ raced' = raced
      BY <1>1, <2>1, GoIs DEF Pcs
  <2> HIDE DEF n, h, i
  <2>3. Local(n) /\ n.row <= created /\ Knowing(n, rows, crossed')
      BY <1>2, <2>2 DEF Local, Knowing, Connecting, HasRow, Waiting
  <2>4. tasks[Chat].pc # "idle" /\ tasks[Chat].row = i /\ tasks[Chat].rt = NoRuntime
      BY <1>1, <1>2 DEF h, i
  <2> QED BY <1>1, <1>3, <2>1, <2>2, <2>3, <2>4, Goes DEF Waiting
<1>4. CASE r # NoRuntime
  <2>1. r \in Runtimes
      BY <1>2, <1>4, Names
  <2>2. /\ SendStop(r)
        /\ IF runtimes[r].handle THEN Become(Chat, Awaiting(h, "wipe", r)) ELSE Go(Chat, "unregister")
      BY <1>4 DEF Get, Awaiting
  <2>3. CASE runtimes[r].handle
    <3> DEFINE n == Awaiting(h, "wipe", r)
    <3>1. SameTask(n, h) /\ n.pc = "wipe" /\ n.same = h.same /\ n.row = h.row /\ n.rt = r
        BY <1>2, <2>1, AwaitingIs DEF Pcs
    <3>2. Become(Chat, n) /\ n \in Task
        BY <2>2, <2>3, <3>1 DEF SameTask
    <3> HIDE DEF n
    <3>3. /\ tasks' = [tasks EXCEPT ![Chat] = n] /\ raced' = raced
          /\ crossed \subseteq crossed' /\ crossed' \subseteq Ids
        BY <1>1, <3>2, BecomeIs
    <3> QED BY <1>1, <1>2, <2>1, <2>2, <2>3, <3>1, <3>2, <3>3, Stopping
  <2>4. CASE ~runtimes[r].handle
    <3> DEFINE n == [h EXCEPT !.pc = "unregister"]
    <3>1. /\ n \in Task /\ tasks' = [tasks EXCEPT ![Chat] = n] /\ SameTask(n, h)
          /\ n.pc = "unregister" /\ n.same = h.same /\ n.row = h.row
          /\ n.rt = h.rt /\ crossed' = crossed /\ raced' = raced
        BY <1>1, <2>2, <2>4, GoIs DEF Pcs
    <3> HIDE DEF n
    <3>2. /\ n.rt = (IF runtimes[r].handle THEN r ELSE NoRuntime) /\ SendStop(r)
          /\ crossed \subseteq crossed' /\ crossed' \subseteq Ids
          /\ UNCHANGED <<directus, server, boot, raced, counters>>
        BY <1>1, <1>2, <2>2, <2>4, <3>1
    <3>3. /\ n \in Task /\ tasks' = [tasks EXCEPT ![Chat] = n] /\ SameTask(n, tasks[Chat])
          /\ n.row = i /\ n.same = tasks[Chat].same /\ registry[i] = r /\ r \in Runtimes
          /\ n.pc = "unregister" /\ ~runtimes[r].handle /\ registry' = registry
          /\ tasks[Chat].pc = "get" /\ tasks[Chat].row = i /\ tasks[Chat].rt = NoRuntime
          /\ i \in Ids /\ boot = {} /\ Chat \in Tasks
        BY <1>1, <1>2, <2>1, <2>4, <3>1
    <3> HIDE DEF r, i, h
    <3> QED BY <3>2, <3>3, Stopping
  <2> QED BY <2>3, <2>4
<1> QED BY <1>3, <1>4

\* What a disconnect writes, or a purge.
LEMMA DroppedIs ==
    ASSUME IInv, Chat \in Tasks, tasks[Chat].pc = "drop"
    PROVE  LET i == tasks[Chat].row
           IN  /\ Dropped \in [Ids -> Row]
               /\ \A k \in Ids : k # i => Dropped[k] = rows[k]
               /\ Dropped[i].who \in {rows[i].who, Nobody}
               /\ Dropped[i].session = 0 /\ Dropped[i].status # "connected"
<1> DEFINE i == tasks[Chat].row
<1>1. i \in Ids /\ rows \in [Ids -> Row]
    BY Facts, Names DEF HasRow
<1>2. CASE tasks[Chat].add
  <2>1. Dropped = [rows EXCEPT ![i] = NoRow]
      BY <1>2 DEF Dropped
  <2>2. NoRow \in Row /\ NoRow.who = Nobody /\ NoRow.session = 0 /\ NoRow.status = "disconnected"
      BY DEF NoRow, Row
  <2> QED BY <1>1, <2>1, <2>2
<1>3. CASE ~tasks[Chat].add /\ Exists(i)
  <2> DEFINE w == WithStatus(i, "disconnected")
  <2>1. Dropped = w
      BY <1>3 DEF Dropped
  <2>2. /\ w \in [Ids -> Row] /\ \A k \in Ids : k # i => w[k] = rows[k]
        /\ w[i].who = rows[i].who /\ w[i].status = "disconnected" /\ w[i].session = 0
      BY <1>1, WithStatusIs
  <2> HIDE DEF w
  <2> QED BY <2>1, <2>2
<1>4. CASE ~tasks[Chat].add /\ ~Exists(i)
  <2>1. Dropped = rows /\ rows[i].who = Nobody
      BY <1>4 DEF Dropped, Exists
  <2>2. rows[i].session = 0 /\ rows[i].status # "connected"
      BY <1>1, <1>4, <2>1 DEF IInv, Typed, RowsOK
  <2> QED BY <1>1, <2>1, <2>2
<1> QED BY <1>2, <1>3, <1>4

LEMMA DropStep ==
    ASSUME IInv, Drop
    PROVE  IInv'
<1>1. /\ Chat \in Tasks /\ tasks[Chat].pc = "drop"
      /\ UNCHANGED <<created, registry, runtimes, server, boot, counters>>
      /\ rows' = Dropped /\ Become(Chat, Idle)
    BY DEF Drop, Tasks
<1>2. /\ tasks' = [tasks EXCEPT ![Chat] = Idle] /\ raced' = raced /\ crossed' = crossed
    BY <1>1, IdleIs, BecomeIs
<1>3. /\ faults \in 0..MaxFaults /\ faults' = faults /\ breaks' = breaks /\ overdue' = overdue
    BY <1>1 DEF IInv, Typed, RestOK, counters
<1>4. Idle \in Task /\ Idle.pc = "idle" /\ Idle.row = 0 /\ Idle.rt = NoRuntime
    BY IdleIs
<1> QED BY <1>1, <1>2, <1>3, <1>4, DroppedIs, Closes

LEMMA DisconnectingStep ==
    ASSUME IInv, Disconnecting
    PROVE  IInv'
  BY GetStep, WipeStep, RemoveWipedStep, DropStep DEF Disconnecting

LEMMA FailStep ==
    ASSUME IInv, NEW t \in Tasks, Fail(t)
    PROVE  IInv'
<1> DEFINE h == tasks[t]
<1>1. /\ tasks' = [tasks EXCEPT ![t] = Idle]
      /\ UNCHANGED <<registry, runtimes, server, boot, raced, breaks>>
      /\ overdue' = IF h.rt = NoRuntime THEN overdue ELSE overdue \cup {h.row}
    BY DEF Fail
<1>2. faults' \in 0..MaxFaults /\ faults' # 0 /\ (faults' = 0 => faults = 0)
    BY BoundsAssumption DEF Fail, Fault, IInv, Typed, RestOK
<1>3. /\ Idle \in Task /\ Idle.pc = "idle" /\ Idle.row = 0 /\ Idle.rt = NoRuntime
      /\ Local(Idle) /\ Idle.row <= created /\ \A c : Knowing(Idle, rows, c)
      /\ Idle.pc \notin Waiting \cup {"start", "insert"} \cup Emptied
    BY IdleIs, Names DEF Local, Knowing, Connecting, HasRow, Waiting, Emptied
<1>4. CASE UNCHANGED <<directus, crossed>> /\ h.pc # "idle"
  <2>1. boot = {} /\ (h.rt = NoRuntime \/ h.row \in Ids)
      BY <1>4, Facts DEF Waiting, HasRow
  <2>2. overdue \subseteq overdue' /\ overdue' \subseteq Ids /\ (h.rt = NoRuntime \/ h.row \in overdue')
      BY <1>1, <2>1 DEF IInv, Typed, RestOK
  <2>3. RestOK' /\ crossed \subseteq crossed' /\ raced \subseteq raced'
      BY <1>1, <1>2, <1>4, <2>2 DEF IInv, Typed, RestOK, server
  <2> HIDE DEF h
  <2>4. h.rt = NoRuntime \/ ~Running(h.rt) \/ h.row \in overdue'
      BY <2>2
  <2> QED BY <1>1, <1>2, <1>3, <1>4, <2>1, <2>2, <2>3, <2>4, Walks DEF h
<1>5. ASSUME h.pc \in {"retire", "drop", "write"}
      PROVE  overdue' = overdue
    BY <1>1, <1>5, Facts DEF Waiting
<1>6. CASE /\ h.pc = "retire" /\ Exists(h.row) /\ rows' = WithStatus(h.row, "disconnected")
           /\ UNCHANGED <<created, crossed>>
  <2> DEFINE i == h.row
             w == WithStatus(i, "disconnected")
  <2>1. i \in Ids
      BY <1>6, Facts DEF HasRow
  <2>2. /\ w \in [Ids -> Row] /\ \A k \in Ids : k # i => w[k] = rows[k]
        /\ w[i].who = rows[i].who /\ w[i].status = "disconnected" /\ w[i].session = 0
      BY <2>1, WithStatusIs, Names
  <2>3. rows' = w
      BY <1>6
  <2> HIDE DEF w
  <2> QED BY <1>1, <1>2, <1>3, <1>5, <1>6, <2>2, <2>3, Closes
<1>7. CASE /\ h.pc = "drop" /\ rows' = Dropped /\ t = Chat /\ UNCHANGED <<created, crossed>>
  <2> QED BY <1>1, <1>2, <1>3, <1>5, <1>7, DroppedIs, Closes
<1>8. CASE /\ h.pc = "write" /\ h.row # 0 /\ Exists(h.row) /\ Put(t, h.row)
           /\ UNCHANGED <<created, crossed>>
  <2>1. h.row \in Ids
      BY <1>8, Facts
  <2> QED BY <1>1, <1>2, <1>3, <1>5, <1>8, <2>1, Puts
<1>9. CASE /\ h.pc = "write" /\ h.row = 0 /\ created < MaxRows /\ created' = created + 1
           /\ Put(t, created') /\ crossed' = crossed \cup Doubled(t)
  <2> DEFINE i == created'
  <2>1. i \in Ids /\ i = created + 1
      BY <1>9, BoundsAssumption, Names DEF Ids
  <2> HIDE DEF i
  <2>2. Put(t, i) /\ created' = i
      BY <1>9 DEF i
  <2> QED BY <1>1, <1>2, <1>3, <1>5, <1>9, <2>1, <2>2, Puts
<1> QED BY <1>4, <1>6, <1>7, <1>8, <1>9 DEF Fail

-----------------------------------------------------------------------------

LEMMA NextHolds ==
    ASSUME IInv, [Next]_vars
    PROVE  IInv'
<1>1. ASSUME NEW t \in Tasks, SignIn(t) \/ Connect(t) \/ Fail(t) PROVE IInv'
    BY <1>1, SignInStep, LookupStep, RemoveStep, StopAwaitedStep, RetireStep, FindStep, WriteStep,
       StartGetStep, InsertStep, FailStep DEF Connect
<1>2. CASE Disconnect \/ Disconnecting
    BY <1>2, DisconnectStep, DisconnectingStep
<1>3. ASSUME NEW r \in Runtimes, Ends(r) PROVE IInv'
    BY <1>3, EndsStep
<1>4. CASE Revoke \/ Crash
    BY <1>4, RevokeStep, CrashStep
<1>5. ASSUME NEW i \in Ids, Boot(i) PROVE IInv'
    BY <1>5, BootStep
<1>6. CASE UNCHANGED vars
  <2>1. /\ UNCHANGED <<rows, created, registry, runtimes, revoked, issued, tasks, boot>>
        /\ UNCHANGED <<crossed, raced, overdue, faults, breaks>>
      BY <1>6 DEF vars
  <2>2. RestOK'
      BY <2>1 DEF IInv, Typed, RestOK
  <2> QED BY <2>1, <2>2, Counts
<1> QED BY <1>1, <1>2, <1>3, <1>4, <1>5, <1>6 DEF Next

LEMMA Invariant == Spec => []IInv
<1>1. Init => IInv
    BY InitHolds
<1>2. IInv /\ [Next]_vars => IInv'
    BY NextHolds
<1> QED BY <1>1, <1>2, PTL DEF Spec

\* Registry::remove, stop and start_runtime: a runtime that runs is registered under its own
\* account, or somebody waits for it, or it was told to stop by one who gave up waiting, or two
\* tasks were starting its account at once; for any number of requests beside the chat's
\* handler, of accounts, sign-ins, runtimes, failures, late stops and crashes.
THEOREM NoRuntimeIsLost == Spec => []NoStray
<1>1. IInv => NoStray
    BY NoStrayFollows
<1> QED BY <1>1, Invariant, PTL

\* connect, disconnect, start_all and handle_session_invalidated: what runs is connected, and
\* what is connected is registered once nobody is at work, for the same number of everything,
\* on every account that two tasks did not work on at once and that no stop gave up on.
THEOREM StatusStaysTrue == Spec => []StatusIsTrue
<1>1. IInv => StatusIsTrue
    BY StatusFollows
<1> QED BY <1>1, Invariant, PTL
=============================================================================
