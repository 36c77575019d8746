---------------------------- MODULE MembersProofs ---------------------------
(***************************************************************************)
(* Theorems about Members, for any finite number of users, phone numbers,  *)
(* changes, failures and commands.                                         *)
(***************************************************************************)
EXTENDS Members, SequenceTheorems, FiniteSetTheorems, TLAPS

-----------------------------------------------------------------------------
(* Tasks *)

\* What a step may do with one field of a task.
LEMMA PcTask ==
    ASSUME NEW h \in Task, NEW p \in Steps
    PROVE  LET n == [h EXCEPT !.pc = p]
           IN  /\ n \in Task /\ n.pc = p /\ n.who = h.who /\ n.seen = h.seen
               /\ n.phones = h.phones /\ n.fresh = h.fresh /\ n.exact = h.exact
  BY DEF Task

LEMMA WhoTask ==
    ASSUME NEW h \in Task, NEW u \in People
    PROVE  LET n == [h EXCEPT !.who = u]
           IN  /\ n \in Task /\ n.pc = h.pc /\ n.who = u /\ n.seen = h.seen
               /\ n.phones = h.phones /\ n.fresh = h.fresh /\ n.exact = h.exact
  BY DEF Task

LEMMA SeenTask ==
    ASSUME NEW h \in Task, NEW s \in [People -> Roles]
    PROVE  LET n == [h EXCEPT !.seen = s]
           IN  /\ n \in Task /\ n.pc = h.pc /\ n.who = h.who /\ n.seen = s
               /\ n.phones = h.phones /\ n.fresh = h.fresh /\ n.exact = h.exact
  BY DEF Task

LEMMA PhonesTask ==
    ASSUME NEW h \in Task, NEW s \in SUBSET Phones
    PROVE  LET n == [h EXCEPT !.phones = s]
           IN  /\ n \in Task /\ n.pc = h.pc /\ n.who = h.who /\ n.seen = h.seen
               /\ n.phones = s /\ n.fresh = h.fresh /\ n.exact = h.exact
  BY DEF Task

LEMMA FreshTask ==
    ASSUME NEW h \in Task, NEW b \in BOOLEAN
    PROVE  LET n == [h EXCEPT !.fresh = b]
           IN  /\ n \in Task /\ n.pc = h.pc /\ n.who = h.who /\ n.seen = h.seen
               /\ n.phones = h.phones /\ n.fresh = b /\ n.exact = h.exact
  BY DEF Task

LEMMA ExactTask ==
    ASSUME NEW h \in Task, NEW b \in BOOLEAN
    PROVE  LET n == [h EXCEPT !.exact = b]
           IN  /\ n \in Task /\ n.pc = h.pc /\ n.who = h.who /\ n.seen = h.seen
               /\ n.phones = h.phones /\ n.fresh = h.fresh /\ n.exact = b
  BY DEF Task

LEMMA IdleIs ==
    /\ Idle \in Task /\ Idle.pc = "idle" /\ Idle.phones = {} /\ ~Idle.fresh
  BY DEF Idle, Task, Steps, Roles, People

\* The tasks that an action begins or moves in several fields.
Fetched(h, to, s, f, e) == [h EXCEPT !.pc = to, !.seen = s, !.fresh = f, !.exact = e]
Refreshing(u) == [Idle EXCEPT !.pc = "refresh", !.who = u]
Removing(u) == [Idle EXCEPT !.pc = "removed", !.who = u, !.fresh = TRUE]
Promoting(u, s) == [Idle EXCEPT !.pc = "role", !.who = u, !.fresh = TRUE, !.seen = s]
Batching(s) == [Idle EXCEPT !.pc = "batch", !.phones = s]
Finished(h) == [h EXCEPT !.pc = "refresh", !.phones = {}]

LEMMA FetchedIs ==
    ASSUME NEW h \in Task, NEW to \in Steps, NEW s \in [People -> Roles], NEW f \in BOOLEAN,
           NEW e \in BOOLEAN
    PROVE  LET n == Fetched(h, to, s, f, e)
           IN  n \in Task /\ n.pc = to /\ n.seen = s /\ n.fresh = f /\ n.exact = e /\ n.phones = h.phones
<1> DEFINE a == [h EXCEPT !.pc = to]
           b == [a EXCEPT !.seen = s]
           c == [b EXCEPT !.fresh = f]
           d == [c EXCEPT !.exact = e]
<1>1. Fetched(h, to, s, f, e) = d
    BY DEF Fetched
<1>2. a \in Task /\ a.pc = to /\ a.phones = h.phones
    BY PcTask
<1> HIDE DEF a
<1>3. b \in Task /\ b.pc = to /\ b.phones = h.phones /\ b.seen = s
    BY <1>2, SeenTask
<1> HIDE DEF b
<1>4. c \in Task /\ c.pc = to /\ c.phones = h.phones /\ c.seen = s /\ c.fresh = f
    BY <1>3, FreshTask
<1> HIDE DEF c
<1>5. d \in Task /\ d.pc = to /\ d.phones = h.phones /\ d.seen = s /\ d.fresh = f /\ d.exact = e
    BY <1>4, ExactTask
<1> HIDE DEF d
<1> QED BY <1>1, <1>5

LEMMA BegunIs ==
    ASSUME NEW p \in Steps
    PROVE  LET n == [Idle EXCEPT !.pc = p]
           IN  n \in Task /\ n.pc = p /\ n.phones = {} /\ ~n.fresh
  BY PcTask, IdleIs

LEMMA RefreshingIs ==
    ASSUME NEW u \in People
    PROVE  LET n == Refreshing(u)
           IN  n \in Task /\ n.pc = "refresh" /\ n.phones = {} /\ ~n.fresh
<1> DEFINE a == [Idle EXCEPT !.pc = "refresh"]
           b == [a EXCEPT !.who = u]
<1>1. Refreshing(u) = b
    BY DEF Refreshing
<1>2. a \in Task /\ a.pc = "refresh" /\ a.phones = {} /\ ~a.fresh
    BY BegunIs DEF Steps
<1> HIDE DEF a
<1>3. b \in Task /\ b.pc = "refresh" /\ b.phones = {} /\ ~b.fresh
    BY <1>2, WhoTask
<1> HIDE DEF b
<1> QED BY <1>1, <1>3

LEMMA RemovingIs ==
    ASSUME NEW u \in People
    PROVE  LET n == Removing(u)
           IN  n \in Task /\ n.pc = "removed" /\ n.who = u /\ n.phones = {}
<1> DEFINE a == [Idle EXCEPT !.pc = "removed"]
           b == [a EXCEPT !.who = u]
           c == [b EXCEPT !.fresh = TRUE]
<1>1. Removing(u) = c
    BY DEF Removing
<1>2. a \in Task /\ a.pc = "removed" /\ a.phones = {}
    BY BegunIs DEF Steps
<1> HIDE DEF a
<1>3. b \in Task /\ b.pc = "removed" /\ b.phones = {} /\ b.who = u
    BY <1>2, WhoTask
<1> HIDE DEF b
<1>4. c \in Task /\ c.pc = "removed" /\ c.phones = {} /\ c.who = u
    BY <1>3, FreshTask
<1> HIDE DEF c
<1> QED BY <1>1, <1>4

LEMMA PromotingIs ==
    ASSUME NEW u \in People, NEW s \in [People -> Roles]
    PROVE  LET n == Promoting(u, s)
           IN  n \in Task /\ n.pc = "role" /\ n.who = u /\ n.seen = s /\ n.phones = {}
<1> DEFINE a == [Idle EXCEPT !.pc = "role"]
           b == [a EXCEPT !.who = u]
           c == [b EXCEPT !.fresh = TRUE]
           d == [c EXCEPT !.seen = s]
<1>1. Promoting(u, s) = d
    BY DEF Promoting
<1>2. a \in Task /\ a.pc = "role" /\ a.phones = {}
    BY BegunIs DEF Steps
<1> HIDE DEF a
<1>3. b \in Task /\ b.pc = "role" /\ b.phones = {} /\ b.who = u
    BY <1>2, WhoTask
<1> HIDE DEF b
<1>4. c \in Task /\ c.pc = "role" /\ c.phones = {} /\ c.who = u
    BY <1>3, FreshTask
<1> HIDE DEF c
<1>5. d \in Task /\ d.pc = "role" /\ d.phones = {} /\ d.who = u /\ d.seen = s
    BY <1>4, SeenTask
<1> HIDE DEF d
<1> QED BY <1>1, <1>5

LEMMA BatchingIs ==
    ASSUME NEW s \in SUBSET Phones
    PROVE  LET n == Batching(s)
           IN  n \in Task /\ n.pc = "batch" /\ n.phones = s /\ ~n.fresh
<1> DEFINE a == [Idle EXCEPT !.pc = "batch"]
           b == [a EXCEPT !.phones = s]
<1>1. Batching(s) = b
    BY DEF Batching
<1>2. a \in Task /\ a.pc = "batch" /\ ~a.fresh
    BY BegunIs DEF Steps
<1> HIDE DEF a
<1>3. b \in Task /\ b.pc = "batch" /\ b.phones = s /\ ~b.fresh
    BY <1>2, PhonesTask
<1> HIDE DEF b
<1> QED BY <1>1, <1>3

LEMMA FinishedIs ==
    ASSUME NEW h \in Task
    PROVE  LET n == Finished(h)
           IN  n \in Task /\ n.pc = "refresh" /\ n.phones = {}
<1> DEFINE a == [h EXCEPT !.pc = "refresh"]
           b == [a EXCEPT !.phones = {}]
<1>1. Finished(h) = b
    BY DEF Finished
<1>2. a \in Task /\ a.pc = "refresh"
    BY PcTask DEF Steps
<1> HIDE DEF a
<1>3. b \in Task /\ b.pc = "refresh" /\ b.phones = {}
    BY <1>2, PhonesTask
<1> HIDE DEF b
<1> QED BY <1>1, <1>3

-----------------------------------------------------------------------------
(* What the unread frames say of the members *)

Of(f, u) == f.kind # "connected" /\ f.who = u
Is(f, kind, u) == f.kind = kind /\ f.who = u
CountedOf(f, u) == Counted(f) /\ f.who = u
At(fs) == 1..Len(fs)

\* The frames behind the last reconnection: nothing is missing among them.
Live(fs) == {i \in At(fs) : \A j \in At(fs) : j >= i => fs[j].kind # "connected"}

\* Who was removed is out, unless added again; who was added or had a role is in, unless
\* removed; the last role told is the role.
Removals(fs, ms) == \A i \in Live(fs) : fs[i].kind = "removed" =>
    ms[fs[i].who] = "none" \/ \E j \in At(fs) : j > i /\ Is(fs[j], "added", fs[i].who)
Presences(fs, ms) == \A i \in Live(fs) : fs[i].kind \in {"added", "role"} =>
    ms[fs[i].who] # "none" \/ \E j \in At(fs) : j > i /\ Is(fs[j], "removed", fs[i].who)
RolesTold(fs, ms) == \A i \in Live(fs) : fs[i].kind = "role" =>
    ms[fs[i].who] = fs[i].role \/ \E j \in At(fs) : j > i /\ Of(fs[j], fs[i].who)

\* Nobody has a role after a removal before being added, and additions and removals take turns.
Returns(fs) == \A i \in Live(fs), j \in At(fs) :
    i < j /\ fs[i].kind = "removed" /\ Is(fs[j], "role", fs[i].who) =>
        \E k \in At(fs) : k > i /\ Is(fs[k], "added", fs[i].who)
Turns(fs) == \A i \in Live(fs), j \in At(fs) :
    i < j /\ Counted(fs[i]) /\ Is(fs[j], fs[i].kind, fs[i].who) =>
        \E k \in At(fs) : i < k /\ k < j /\ CountedOf(fs[k], fs[i].who)

Good(fs, ms) == /\ Removals(fs, ms) /\ Presences(fs, ms) /\ RolesTold(fs, ms)
                /\ Returns(fs) /\ Turns(fs)

\* B is who was in before the unread frames.
Opens(B, fs, ms) == \A u \in People :
    /\ (\A i \in At(fs) : ~CountedOf(fs[i], u)) => (u \in B <=> ms[u] # "none")
    /\ \A i \in At(fs) :
          CountedOf(fs[i], u) /\ (\A j \in At(fs) : j < i => ~CountedOf(fs[j], u)) =>
              (u \in B <=> fs[i].kind = "removed")

Adds(fs) == \E i \in At(fs) : fs[i].kind = "added"

\* The frames make the members of the roles L; an addition makes the engine ask again.
Follows(L, fs, ms) == Adds(fs) \/ \A u \in People :
    /\ (\A i \in At(fs) : ~Of(fs[i], u)) => L[u] = ms[u]
    /\ L[u] = "none" /\ (\E i \in At(fs) : Of(fs[i], u)) =>
          \E i \in At(fs) : Is(fs[i], "removed", u)

OwnRole(r, fs, ms) == (\A i \in At(fs) : ~Is(fs[i], "role", Me)) => r = ms[Me]

\* The server changes the members and tells it.
New(fs, gs) == {i \in At(gs) : i > Len(fs)}
Grown(fs, gs, ms, ns) ==
    /\ Len(fs) <= Len(gs) /\ \A i \in At(fs) : gs[i] = fs[i]
    /\ \A i \in New(fs, gs) :
          \/ gs[i].kind = "added" /\ ms[gs[i].who] = "none" /\ ns[gs[i].who] # "none"
          \/ gs[i].kind = "removed" /\ ms[gs[i].who] # "none" /\ ns[gs[i].who] = "none"
          \/ /\ gs[i].kind = "role" /\ ms[gs[i].who] # "none"
             /\ ns[gs[i].who] # "none" /\ ns[gs[i].who] = gs[i].role
    /\ \A i, j \in New(fs, gs) : gs[i].who = gs[j].who => i = j
    /\ \A u \in People : (\A i \in New(fs, gs) : gs[i].who # u) => ns[u] = ms[u]

\* The event loop takes a frame.
Popped(fs, gs) == Len(fs) = Len(gs) + 1 /\ \A i \in At(gs) : gs[i] = fs[i + 1]

LEMMA FrameIs ==
    ASSUME NEW fs \in Seq(Frame), NEW i \in At(fs)
    PROVE  /\ fs[i] \in Frame /\ fs[i].who \in People /\ fs[i].role \in Roles
           /\ fs[i].kind \in {"connected", "added", "removed", "role"}
<1>1. fs[i] \in Frame
    BY ElementOfSeq DEF At
<1> QED BY <1>1 DEF Frame

LEMMA GrownLive ==
    ASSUME NEW fs \in Seq(Frame), NEW gs \in Seq(Frame), NEW ms, NEW ns, Grown(fs, gs, ms, ns)
    PROVE  /\ At(gs) = At(fs) \cup New(fs, gs)
           /\ Live(gs) = Live(fs) \cup New(fs, gs)
           /\ \A i \in At(fs), j \in New(fs, gs) : i < j
           /\ \A i \in New(fs, gs) : gs[i].kind # "connected"
           /\ \A i \in At(fs) : i \in At(gs) /\ gs[i] = fs[i]
           /\ Live(fs) \subseteq At(fs)
<1>1. /\ At(gs) = At(fs) \cup New(fs, gs)
      /\ \A i \in At(fs), j \in New(fs, gs) : i < j
    BY LenProperties DEF At, New, Grown
<1>2. \A i \in New(fs, gs) : gs[i].kind # "connected"
    BY DEF Grown
<1>3. \A i \in At(fs) : i \in Live(gs) <=> i \in Live(fs)
  <2> TAKE i \in At(fs)
  <2>1. \A j \in At(fs) : gs[j].kind = fs[j].kind
      BY DEF Grown
  <2> QED BY <1>1, <1>2, <2>1 DEF Live
<1>4. \A i \in New(fs, gs) : i \in Live(gs)
  <2> TAKE i \in New(fs, gs)
  <2>1. \A j \in At(gs) : j >= i => j \in New(fs, gs)
      BY LenProperties DEF At, New
  <2> QED BY <1>1, <1>2, <2>1 DEF Live
<1>5. Live(fs) \subseteq At(fs) /\ Live(gs) \subseteq At(gs)
    BY DEF Live
<1>6. \A i \in At(fs) : gs[i] = fs[i]
    BY DEF Grown
<1> QED BY <1>1, <1>2, <1>3, <1>4, <1>5, <1>6

LEMMA GrownRemovals ==
    ASSUME NEW fs \in Seq(Frame), NEW gs \in Seq(Frame), NEW ms, NEW ns, Grown(fs, gs, ms, ns),
           Removals(fs, ms)
    PROVE  Removals(gs, ns)
<1> SUFFICES ASSUME NEW i \in Live(gs), gs[i].kind = "removed",
                    \A j \in At(gs) : j > i => ~Is(gs[j], "added", gs[i].who)
             PROVE  ns[gs[i].who] = "none"
    BY DEF Removals
<1>1. CASE i \in New(fs, gs)
    BY <1>1 DEF Grown
<1>2. CASE i \in Live(fs)
  <2>1. /\ i \in At(fs) /\ gs[i] = fs[i] /\ gs[i].who \in People
        /\ \A k \in At(fs) : k \in At(gs) /\ gs[k] = fs[k]
      BY <1>2, FrameIs, GrownLive
  <2>2. ms[gs[i].who] = "none"
      BY <1>2, <2>1 DEF Removals
  <2>3. \A j \in New(fs, gs) : gs[j].who # gs[i].who
    <3> SUFFICES ASSUME NEW j \in New(fs, gs), gs[j].who = gs[i].who PROVE FALSE
        OBVIOUS
    <3>1. gs[j].kind = "added"
        BY <2>2 DEF Grown
    <3> QED BY <2>1, <3>1, GrownLive DEF Is
  <2> QED BY <2>1, <2>2, <2>3 DEF Grown
<1> QED BY <1>1, <1>2, GrownLive

LEMMA GrownPresences ==
    ASSUME NEW fs \in Seq(Frame), NEW gs \in Seq(Frame), NEW ms, NEW ns, Grown(fs, gs, ms, ns),
           Presences(fs, ms)
    PROVE  Presences(gs, ns)
<1> SUFFICES ASSUME NEW i \in Live(gs), gs[i].kind \in {"added", "role"},
                    \A j \in At(gs) : j > i => ~Is(gs[j], "removed", gs[i].who)
             PROVE  ns[gs[i].who] # "none"
    BY DEF Presences
<1>1. CASE i \in New(fs, gs)
    BY <1>1 DEF Grown
<1>2. CASE i \in Live(fs)
  <2>1. /\ i \in At(fs) /\ gs[i] = fs[i] /\ gs[i].who \in People
        /\ \A k \in At(fs) : k \in At(gs) /\ gs[k] = fs[k]
      BY <1>2, FrameIs, GrownLive
  <2>2. ms[gs[i].who] # "none"
      BY <1>2, <2>1 DEF Presences
  <2>3. \A j \in New(fs, gs) : gs[j].who = gs[i].who => ns[gs[i].who] # "none"
    <3> SUFFICES ASSUME NEW j \in New(fs, gs), gs[j].who = gs[i].who PROVE ns[gs[i].who] # "none"
        OBVIOUS
    <3>1. gs[j].kind # "removed"
        BY <2>1, GrownLive DEF Is
    <3> QED BY <3>1 DEF Grown
  <2> QED BY <2>1, <2>2, <2>3 DEF Grown
<1> QED BY <1>1, <1>2, GrownLive

LEMMA GrownRoles ==
    ASSUME NEW fs \in Seq(Frame), NEW gs \in Seq(Frame), NEW ms, NEW ns, Grown(fs, gs, ms, ns),
           RolesTold(fs, ms)
    PROVE  RolesTold(gs, ns)
<1> SUFFICES ASSUME NEW i \in Live(gs), gs[i].kind = "role",
                    \A j \in At(gs) : j > i => ~Of(gs[j], gs[i].who)
             PROVE  ns[gs[i].who] = gs[i].role
    BY DEF RolesTold
<1>1. CASE i \in New(fs, gs)
    BY <1>1 DEF Grown
<1>2. CASE i \in Live(fs)
  <2>1. /\ i \in At(fs) /\ gs[i] = fs[i] /\ gs[i].who \in People
        /\ \A k \in At(fs) : k \in At(gs) /\ gs[k] = fs[k]
      BY <1>2, FrameIs, GrownLive
  <2>2. ms[gs[i].who] = gs[i].role
      BY <1>2, <2>1 DEF RolesTold
  <2>3. \A j \in New(fs, gs) : gs[j].who # gs[i].who
      BY <2>1, GrownLive DEF Of
  <2> QED BY <2>1, <2>2, <2>3 DEF Grown
<1> QED BY <1>1, <1>2, GrownLive

LEMMA GrownReturns ==
    ASSUME NEW fs \in Seq(Frame), NEW gs \in Seq(Frame), NEW ms, NEW ns, Grown(fs, gs, ms, ns),
           Removals(fs, ms), Returns(fs)
    PROVE  Returns(gs)
<1> SUFFICES ASSUME NEW i \in Live(gs), NEW j \in At(gs), i < j, gs[i].kind = "removed",
                    Is(gs[j], "role", gs[i].who)
             PROVE  \E k \in At(gs) : k > i /\ Is(gs[k], "added", gs[i].who)
    BY DEF Returns
<1>1. CASE i \in New(fs, gs)
  <2>1. j \in New(fs, gs)
      BY <1>1 DEF New, At
  <2> QED BY <1>1, <2>1 DEF Grown, Is
<1>2. CASE i \in Live(fs)
  <2>1. i \in At(fs) /\ gs[i] = fs[i] /\ \A k \in At(fs) : k \in At(gs) /\ gs[k] = fs[k]
      BY <1>2, GrownLive
  <2>2. CASE j \in At(fs)
      BY <1>2, <2>1, <2>2 DEF Returns
  <2>3. CASE j \in New(fs, gs)
    <3>1. ms[gs[i].who] # "none"
        BY <2>3 DEF Grown, Is
    <3> QED BY <1>2, <2>1, <3>1 DEF Removals
  <2> QED BY <2>2, <2>3, GrownLive
<1> QED BY <1>1, <1>2, GrownLive

LEMMA GrownTurns ==
    ASSUME NEW fs \in Seq(Frame), NEW gs \in Seq(Frame), NEW ms, NEW ns, Grown(fs, gs, ms, ns),
           Removals(fs, ms), Presences(fs, ms), Turns(fs)
    PROVE  Turns(gs)
<1> SUFFICES ASSUME NEW i \in Live(gs), NEW j \in At(gs), i < j, Counted(gs[i]),
                    Is(gs[j], gs[i].kind, gs[i].who)
             PROVE  \E k \in At(gs) : i < k /\ k < j /\ CountedOf(gs[k], gs[i].who)
    BY DEF Turns
<1>1. CASE i \in New(fs, gs)
  <2>1. j \in New(fs, gs)
      BY <1>1 DEF New, At
  <2>2. j # i
      BY DEF At, Live
  <2> QED BY <1>1, <2>1, <2>2 DEF Grown, Is
<1>2. CASE i \in Live(fs)
  <2>1. i \in At(fs) /\ gs[i] = fs[i] /\ \A k \in At(fs) : k \in At(gs) /\ gs[k] = fs[k]
      BY <1>2, GrownLive
  <2>2. CASE j \in At(fs)
      BY <1>2, <2>1, <2>2 DEF Turns
  <2>3. CASE j \in New(fs, gs)
    <3>1. PICK k \in At(fs) : k > i /\ CountedOf(fs[k], fs[i].who)
      <4>1. CASE gs[i].kind = "removed"
        <5>1. ms[gs[i].who] # "none"
            BY <2>3, <4>1 DEF Grown, Is
        <5> QED BY <1>2, <2>1, <4>1, <5>1 DEF Removals, CountedOf, Counted, Is
      <4>2. CASE gs[i].kind = "added"
        <5>1. ms[gs[i].who] = "none"
            BY <2>3, <4>2 DEF Grown, Is
        <5> QED BY <1>2, <2>1, <4>2, <5>1 DEF Presences, CountedOf, Counted, Is
      <4> QED BY <4>1, <4>2 DEF Counted
    <3> QED BY <2>1, <2>3, <3>1, GrownLive
  <2> QED BY <2>2, <2>3, GrownLive
<1> QED BY <1>1, <1>2, GrownLive

LEMMA GrownGood ==
    ASSUME NEW fs \in Seq(Frame), NEW gs \in Seq(Frame), NEW ms, NEW ns, Grown(fs, gs, ms, ns),
           Good(fs, ms)
    PROVE  Good(gs, ns)
  BY GrownRemovals, GrownPresences, GrownRoles, GrownReturns, GrownTurns DEF Good

LEMMA GrownOpens ==
    ASSUME NEW fs \in Seq(Frame), NEW gs \in Seq(Frame), NEW ms, NEW ns, Grown(fs, gs, ms, ns),
           NEW B, Opens(B, fs, ms)
    PROVE  Opens(B, gs, ns)
<1> SUFFICES ASSUME NEW u \in People
             PROVE  /\ (\A i \in At(gs) : ~CountedOf(gs[i], u)) => (u \in B <=> ns[u] # "none")
                    /\ \A i \in At(gs) :
                          CountedOf(gs[i], u) /\ (\A j \in At(gs) : j < i => ~CountedOf(gs[j], u)) =>
                              (u \in B <=> gs[i].kind = "removed")
    BY DEF Opens
<1>1. /\ (\A i \in At(fs) : ~CountedOf(fs[i], u)) => (u \in B <=> ms[u] # "none")
      /\ \A i \in At(fs) :
            CountedOf(fs[i], u) /\ (\A j \in At(fs) : j < i => ~CountedOf(fs[j], u)) =>
                (u \in B <=> fs[i].kind = "removed")
    BY DEF Opens
<1>2. \A k \in At(fs) : k \in At(gs) /\ gs[k] = fs[k]
    BY GrownLive
<1>3. ASSUME \A i \in At(gs) : ~CountedOf(gs[i], u)
      PROVE  u \in B <=> ns[u] # "none"
  <2>1. u \in B <=> ms[u] # "none"
      BY <1>1, <1>2, <1>3
  <2>2. \A i \in New(fs, gs) : gs[i].who = u => ms[u] # "none" /\ ns[u] # "none"
    <3> SUFFICES ASSUME NEW i \in New(fs, gs), gs[i].who = u PROVE ms[u] # "none" /\ ns[u] # "none"
        OBVIOUS
    <3>1. ~CountedOf(gs[i], u)
        BY <1>3, GrownLive
    <3>2. gs[i].kind \notin {"added", "removed"}
        BY <3>1 DEF CountedOf, Counted
    <3> QED BY <3>2 DEF Grown
  <2> QED BY <2>1, <2>2 DEF Grown
<1>4. ASSUME NEW i \in At(gs), CountedOf(gs[i], u),
             \A j \in At(gs) : j < i => ~CountedOf(gs[j], u)
      PROVE  u \in B <=> gs[i].kind = "removed"
  <2>1. CASE i \in At(fs)
      BY <1>1, <1>2, <1>4, <2>1
  <2>2. CASE i \in New(fs, gs)
    <3>1. u \in B <=> ms[u] # "none"
        BY <1>1, <1>2, <1>4, <2>2, GrownLive
    <3> QED BY <1>4, <2>2, <3>1 DEF Grown, CountedOf, Counted
  <2> QED BY <2>1, <2>2, GrownLive
<1> QED BY <1>3, <1>4

LEMMA GrownFollows ==
    ASSUME NEW fs \in Seq(Frame), NEW gs \in Seq(Frame), NEW ms, NEW ns, Grown(fs, gs, ms, ns),
           Live(fs) = At(fs), Removals(fs, ms), NEW L, Follows(L, fs, ms)
    PROVE  Follows(L, gs, ns)
<1>1. \A k \in At(fs) : k \in At(gs) /\ gs[k] = fs[k]
    BY GrownLive
<1> SUFFICES ASSUME ~Adds(gs), NEW u \in People
             PROVE  /\ (\A i \in At(gs) : ~Of(gs[i], u)) => L[u] = ns[u]
                    /\ L[u] = "none" /\ (\E i \in At(gs) : Of(gs[i], u)) =>
                          \E i \in At(gs) : Is(gs[i], "removed", u)
    BY DEF Follows
<1>2. ~Adds(fs)
    BY <1>1 DEF Adds
<1>3. /\ (\A i \in At(fs) : ~Of(fs[i], u)) => L[u] = ms[u]
      /\ L[u] = "none" /\ (\E i \in At(fs) : Of(fs[i], u)) =>
            \E i \in At(fs) : Is(fs[i], "removed", u)
    BY <1>2 DEF Follows
<1>4. ASSUME \A i \in At(gs) : ~Of(gs[i], u)
      PROVE  L[u] = ns[u]
  <2>1. L[u] = ms[u]
      BY <1>1, <1>3, <1>4
  <2>2. \A i \in New(fs, gs) : gs[i].who # u
      BY <1>4, GrownLive DEF Of
  <2> QED BY <2>1, <2>2 DEF Grown
<1>5. ASSUME L[u] = "none", NEW i \in At(gs), Of(gs[i], u)
      PROVE  \E j \in At(gs) : Is(gs[j], "removed", u)
  <2>1. CASE \E j \in At(fs) : Is(fs[j], "removed", u)
      BY <1>1, <2>1
  <2>2. CASE \A j \in At(fs) : ~Is(fs[j], "removed", u)
    <3>1. L[u] = ms[u] /\ i \in New(fs, gs)
        BY <1>1, <1>3, <1>5, <2>2, GrownLive
    <3>2. gs[i].kind # "added"
        BY <1>5 DEF Adds
    <3> QED BY <1>5, <3>1, <3>2 DEF Grown, Of, Is
  <2> QED BY <2>1, <2>2
<1> QED BY <1>4, <1>5

LEMMA GrownRole ==
    ASSUME NEW fs \in Seq(Frame), NEW gs \in Seq(Frame), NEW ms, NEW ns, Grown(fs, gs, ms, ns),
           \A i \in New(fs, gs) : gs[i].who = Me => gs[i].kind = "role",
           NEW r, OwnRole(r, fs, ms)
    PROVE  OwnRole(r, gs, ns)
<1> SUFFICES ASSUME \A i \in At(gs) : ~Is(gs[i], "role", Me)
             PROVE  r = ns[Me]
    BY DEF OwnRole
<1>1. r = ms[Me]
    BY GrownLive DEF OwnRole
<1>2. \A i \in New(fs, gs) : gs[i].who # Me
    BY GrownLive DEF Is
<1> QED BY <1>1, <1>2 DEF Grown, People

LEMMA IsLive ==
    ASSUME NEW fs, NEW k \in At(fs), \A j \in At(fs) : j >= k => fs[j].kind # "connected"
    PROVE  k \in Live(fs)
  BY DEF Live

LEMMA PoppedIs ==
    ASSUME NEW fs \in Seq(Frame), NEW gs \in Seq(Frame), Popped(fs, gs)
    PROVE  /\ 1 \in At(fs)
           /\ \A i \in At(gs) : i + 1 \in At(fs) /\ gs[i] = fs[i + 1] /\ i \in Int /\ i + 1 > 1
           /\ \A i \in At(fs) : i \in Int /\ (i # 1 => i - 1 \in At(gs) /\ gs[i - 1] = fs[i] /\ i > 1)
           /\ \A i \in Live(gs) : i \in At(gs) /\ i + 1 \in Live(fs)
<1>1. /\ 1 \in At(fs)
      /\ \A i \in At(gs) : i + 1 \in At(fs) /\ gs[i] = fs[i + 1] /\ i \in Int /\ i + 1 > 1
    BY LenProperties DEF At, Popped
<1>2. ASSUME NEW i \in At(fs), i # 1
      PROVE  i - 1 \in At(gs) /\ gs[i - 1] = fs[i] /\ i > 1
    BY <1>2, LenProperties DEF At, Popped
<1>3. \A i \in At(fs) : i \in Int
    BY DEF At
<1>4. ASSUME NEW i \in Live(gs)
      PROVE  i \in At(gs) /\ i + 1 \in Live(fs)
  <2>1. i \in At(gs) /\ i + 1 \in At(fs) /\ i \in Int
      BY <1>1 DEF Live
  <2>2. ASSUME NEW j \in At(fs), j >= i + 1
        PROVE  fs[j].kind # "connected"
    <3>1. j # 1
        BY <1>3, <2>1, <2>2 DEF At
    <3>2. j - 1 \in At(gs) /\ gs[j - 1] = fs[j] /\ j - 1 >= i
        BY <1>2, <1>3, <2>1, <2>2, <3>1
    <3> QED BY <3>2 DEF Live
  <2>3. \A j \in At(fs) : j >= i + 1 => fs[j].kind # "connected"
      BY <2>2
  <2> QED BY <2>1, <2>3, IsLive
<1> QED BY <1>1, <1>2, <1>3, <1>4

LEMMA PoppedRemovals ==
    ASSUME NEW fs \in Seq(Frame), NEW gs \in Seq(Frame), NEW ms, Popped(fs, gs), Removals(fs, ms)
    PROVE  Removals(gs, ms)
<1> SUFFICES ASSUME NEW i \in Live(gs), gs[i].kind = "removed",
                    \A j \in At(gs) : j > i => ~Is(gs[j], "added", gs[i].who)
             PROVE  ms[gs[i].who] = "none"
    BY DEF Removals
<1>1. /\ i \in At(gs) /\ i \in Int /\ gs[i] = fs[i + 1] /\ i + 1 \in Live(fs)
      /\ \A j \in At(fs) : j > i + 1 => j \in Int /\ j - 1 \in At(gs) /\ gs[j - 1] = fs[j]
    BY PoppedIs
<1>2. ASSUME NEW j \in At(fs), j > i + 1
      PROVE  ~Is(fs[j], "added", gs[i].who)
  <2>1. j - 1 > i
      BY <1>1, <1>2
  <2> QED BY <1>1, <1>2, <2>1
<1> QED BY <1>1, <1>2 DEF Removals

LEMMA PoppedPresences ==
    ASSUME NEW fs \in Seq(Frame), NEW gs \in Seq(Frame), NEW ms, Popped(fs, gs), Presences(fs, ms)
    PROVE  Presences(gs, ms)
<1> SUFFICES ASSUME NEW i \in Live(gs), gs[i].kind \in {"added", "role"},
                    \A j \in At(gs) : j > i => ~Is(gs[j], "removed", gs[i].who)
             PROVE  ms[gs[i].who] # "none"
    BY DEF Presences
<1>1. /\ i \in At(gs) /\ i \in Int /\ gs[i] = fs[i + 1] /\ i + 1 \in Live(fs)
      /\ \A j \in At(fs) : j > i + 1 => j \in Int /\ j - 1 \in At(gs) /\ gs[j - 1] = fs[j]
    BY PoppedIs
<1>2. ASSUME NEW j \in At(fs), j > i + 1
      PROVE  ~Is(fs[j], "removed", gs[i].who)
  <2>1. j - 1 > i
      BY <1>1, <1>2
  <2> QED BY <1>1, <1>2, <2>1
<1> QED BY <1>1, <1>2 DEF Presences

LEMMA PoppedRoles ==
    ASSUME NEW fs \in Seq(Frame), NEW gs \in Seq(Frame), NEW ms, Popped(fs, gs), RolesTold(fs, ms)
    PROVE  RolesTold(gs, ms)
<1> SUFFICES ASSUME NEW i \in Live(gs), gs[i].kind = "role",
                    \A j \in At(gs) : j > i => ~Of(gs[j], gs[i].who)
             PROVE  ms[gs[i].who] = gs[i].role
    BY DEF RolesTold
<1>1. /\ i \in At(gs) /\ i \in Int /\ gs[i] = fs[i + 1] /\ i + 1 \in Live(fs)
      /\ \A j \in At(fs) : j > i + 1 => j \in Int /\ j - 1 \in At(gs) /\ gs[j - 1] = fs[j]
    BY PoppedIs
<1>2. ASSUME NEW j \in At(fs), j > i + 1
      PROVE  ~Of(fs[j], gs[i].who)
  <2>1. j - 1 > i
      BY <1>1, <1>2
  <2> QED BY <1>1, <1>2, <2>1
<1> QED BY <1>1, <1>2 DEF RolesTold

LEMMA PoppedReturns ==
    ASSUME NEW fs \in Seq(Frame), NEW gs \in Seq(Frame), Popped(fs, gs), Returns(fs)
    PROVE  Returns(gs)
<1> SUFFICES ASSUME NEW i \in Live(gs), NEW j \in At(gs), i < j, gs[i].kind = "removed",
                    Is(gs[j], "role", gs[i].who)
             PROVE  \E k \in At(gs) : k > i /\ Is(gs[k], "added", gs[i].who)
    BY DEF Returns
<1>1. /\ i \in At(gs) /\ i \in Int /\ gs[i] = fs[i + 1] /\ i + 1 \in Live(fs)
      /\ j \in Int /\ j + 1 \in At(fs) /\ gs[j] = fs[j + 1]
    BY PoppedIs
<1>2. PICK k \in At(fs) : k > i + 1 /\ Is(fs[k], "added", gs[i].who)
    BY <1>1 DEF Returns
<1>3. k \in Int /\ k - 1 \in At(gs) /\ gs[k - 1] = fs[k]
  <2>1. k # 1
      BY <1>1, <1>2 DEF At
  <2> QED BY <2>1, PoppedIs
<1>4. k - 1 > i
    BY <1>1, <1>2, <1>3
<1> QED BY <1>2, <1>3, <1>4

LEMMA PoppedTurns ==
    ASSUME NEW fs \in Seq(Frame), NEW gs \in Seq(Frame), Popped(fs, gs), Turns(fs)
    PROVE  Turns(gs)
<1> SUFFICES ASSUME NEW i \in Live(gs), NEW j \in At(gs), i < j, Counted(gs[i]),
                    Is(gs[j], gs[i].kind, gs[i].who)
             PROVE  \E k \in At(gs) : i < k /\ k < j /\ CountedOf(gs[k], gs[i].who)
    BY DEF Turns
<1>1. /\ i \in At(gs) /\ i \in Int /\ gs[i] = fs[i + 1] /\ i + 1 \in Live(fs)
      /\ j \in Int /\ j + 1 \in At(fs) /\ gs[j] = fs[j + 1]
    BY PoppedIs
<1>2. PICK k \in At(fs) : i + 1 < k /\ k < j + 1 /\ CountedOf(fs[k], gs[i].who)
    BY <1>1 DEF Turns
<1>3. k \in Int /\ k - 1 \in At(gs) /\ gs[k - 1] = fs[k]
  <2>1. k # 1
      BY <1>1, <1>2 DEF At
  <2> QED BY <2>1, PoppedIs
<1>4. i < k - 1 /\ k - 1 < j
    BY <1>1, <1>2, <1>3
<1> QED BY <1>2, <1>3, <1>4

LEMMA PoppedGood ==
    ASSUME NEW fs \in Seq(Frame), NEW gs \in Seq(Frame), NEW ms, Popped(fs, gs), Good(fs, ms)
    PROVE  Good(gs, ms)
  BY PoppedRemovals, PoppedPresences, PoppedRoles, PoppedReturns, PoppedTurns DEF Good

\* A frame that is counted moves who was in before the others.
LEMMA PoppedOpens ==
    ASSUME NEW fs \in Seq(Frame), NEW gs \in Seq(Frame), NEW ms, Popped(fs, gs),
           Live(fs) = At(fs), Good(fs, ms), NEW B, Opens(B, fs, ms), NEW C,
           \A u \in People : u # fs[1].who => (u \in C <=> u \in B),
           fs[1].who \in C <=> IF Counted(fs[1]) THEN fs[1].kind = "added" ELSE fs[1].who \in B
    PROVE  Opens(C, gs, ms)
<1>0. 1 \in At(fs) /\ fs[1].who \in People
    BY PoppedIs, FrameIs
<1>1. \A i \in At(gs) : i + 1 \in At(fs) /\ gs[i] = fs[i + 1] /\ i \in Int /\ i + 1 > 1
    BY PoppedIs
<1>2. \A i \in At(fs) : i \in Int /\ (i # 1 => i - 1 \in At(gs) /\ gs[i - 1] = fs[i] /\ i > 1)
    BY PoppedIs
<1> SUFFICES ASSUME NEW u \in People
             PROVE  /\ (\A i \in At(gs) : ~CountedOf(gs[i], u)) => (u \in C <=> ms[u] # "none")
                    /\ \A i \in At(gs) :
                          CountedOf(gs[i], u) /\ (\A j \in At(gs) : j < i => ~CountedOf(gs[j], u)) =>
                              (u \in C <=> gs[i].kind = "removed")
    BY DEF Opens
<1>3. /\ (\A i \in At(fs) : ~CountedOf(fs[i], u)) => (u \in B <=> ms[u] # "none")
      /\ \A i \in At(fs) :
            CountedOf(fs[i], u) /\ (\A j \in At(fs) : j < i => ~CountedOf(fs[j], u)) =>
                (u \in B <=> fs[i].kind = "removed")
    BY DEF Opens
<1>4. ASSUME \A i \in At(gs) : ~CountedOf(gs[i], u)
      PROVE  u \in C <=> ms[u] # "none"
  <2>1. \A i \in At(fs) : i # 1 => ~CountedOf(fs[i], u)
      BY <1>2, <1>4
  <2>2. CASE ~CountedOf(fs[1], u)
    <3>1. u \in B <=> ms[u] # "none"
        BY <1>3, <2>1, <2>2
    <3> QED BY <1>0, <2>2, <3>1 DEF CountedOf
  <2>3. CASE CountedOf(fs[1], u) /\ fs[1].kind = "added"
    <3>1. \A i \in At(fs) : ~(i > 1 /\ Is(fs[i], "removed", u))
        BY <2>1 DEF CountedOf, Counted, Is
    <3>2. ms[u] # "none"
        BY <1>0, <2>3, <3>1 DEF Good, Presences, CountedOf
    <3> QED BY <2>3, <3>2 DEF CountedOf
  <2>4. CASE CountedOf(fs[1], u) /\ fs[1].kind = "removed"
    <3>1. \A i \in At(fs) : ~(i > 1 /\ Is(fs[i], "added", u))
        BY <2>1 DEF CountedOf, Counted, Is
    <3>2. ms[u] = "none"
        BY <1>0, <2>4, <3>1 DEF Good, Removals, CountedOf
    <3> QED BY <2>4, <3>2 DEF CountedOf
  <2> QED BY <2>2, <2>3, <2>4 DEF CountedOf, Counted
<1>5. ASSUME NEW i \in At(gs), CountedOf(gs[i], u),
             \A j \in At(gs) : j < i => ~CountedOf(gs[j], u)
      PROVE  u \in C <=> gs[i].kind = "removed"
  <2> DEFINE k == i + 1
  <2>1. /\ k \in At(fs) /\ gs[i] = fs[k] /\ CountedOf(fs[k], u)
        /\ \A j \in At(fs) : 1 < j /\ j < k => ~CountedOf(fs[j], u)
    <3>1. k \in At(fs) /\ gs[i] = fs[k] /\ i \in Int /\ k > 1
        BY <1>1
    <3>2. ASSUME NEW j \in At(fs), 1 < j, j < k
          PROVE  ~CountedOf(fs[j], u)
      <4>1. j \in Int /\ j - 1 \in At(gs) /\ gs[j - 1] = fs[j]
          BY <1>2, <3>2
      <4>2. j - 1 < i
          BY <3>1, <3>2, <4>1
      <4> QED BY <1>5, <4>1, <4>2
    <3> QED BY <1>5, <3>1, <3>2
  <2>2. k \in Int /\ k > 1
      BY <1>1
  <2> HIDE DEF k
  <2>3. CASE ~CountedOf(fs[1], u)
    <3>1. \A j \in At(fs) : j < k => ~CountedOf(fs[j], u)
        BY <1>2, <2>1, <2>3
    <3>2. u \in B <=> fs[k].kind = "removed"
        BY <1>3, <2>1, <3>1
    <3> QED BY <1>0, <2>1, <2>3, <3>2 DEF CountedOf
  <2>4. CASE CountedOf(fs[1], u)
    <3>1. fs[k].kind # fs[1].kind
      <4> SUFFICES ASSUME fs[k].kind = fs[1].kind PROVE FALSE
          OBVIOUS
      <4>1. \E j \in At(fs) : 1 < j /\ j < k /\ CountedOf(fs[j], fs[1].who)
          BY <1>0, <2>1, <2>2, <2>4 DEF Good, Turns, CountedOf, Is
      <4> QED BY <2>1, <2>4, <4>1 DEF CountedOf
    <3> QED BY <2>1, <2>4, <3>1 DEF CountedOf, Counted
  <2> QED BY <2>3, <2>4
<1> QED BY <1>4, <1>5

\* A removal or a role that is taken is written.
LEMMA PoppedFollows ==
    ASSUME NEW fs \in Seq(Frame), NEW gs \in Seq(Frame), NEW ms, Popped(fs, gs),
           Live(fs) = At(fs), Good(fs, ms), NEW L, Follows(L, fs, ms), NEW N,
           fs[1].kind \in {"removed", "role"}, fs[1].kind = "role" => fs[1].role # "none",
           \A u \in People : u # fs[1].who => N[u] = L[u],
           fs[1].kind = "removed" => N[fs[1].who] = "none",
           fs[1].kind = "role" => N[fs[1].who] = IF L[fs[1].who] = "none" THEN "none" ELSE fs[1].role
    PROVE  Follows(N, gs, ms)
<1>0. 1 \in At(fs) /\ fs[1].who \in People
    BY PoppedIs, FrameIs
<1>1. \A i \in At(gs) : i + 1 \in At(fs) /\ gs[i] = fs[i + 1] /\ i \in Int /\ i + 1 > 1
    BY PoppedIs
<1>2. \A i \in At(fs) : i \in Int /\ (i # 1 => i - 1 \in At(gs) /\ gs[i - 1] = fs[i] /\ i > 1)
    BY PoppedIs
<1> SUFFICES ASSUME ~Adds(gs), NEW u \in People
             PROVE  /\ (\A i \in At(gs) : ~Of(gs[i], u)) => N[u] = ms[u]
                    /\ N[u] = "none" /\ (\E i \in At(gs) : Of(gs[i], u)) =>
                          \E i \in At(gs) : Is(gs[i], "removed", u)
    BY DEF Follows
<1>3. ~Adds(fs)
    BY <1>2 DEF Adds
<1>4. /\ (\A i \in At(fs) : ~Of(fs[i], u)) => L[u] = ms[u]
      /\ L[u] = "none" /\ (\E i \in At(fs) : Of(fs[i], u)) =>
            \E i \in At(fs) : Is(fs[i], "removed", u)
    BY <1>3 DEF Follows
<1>5. ASSUME \A i \in At(gs) : ~Of(gs[i], u)
      PROVE  N[u] = ms[u]
  <2>1. \A i \in At(fs) : i # 1 => ~Of(fs[i], u)
      BY <1>2, <1>5
  <2>2. CASE fs[1].who # u
    <3>1. \A i \in At(fs) : ~Of(fs[i], u)
        BY <2>1, <2>2 DEF Of
    <3> QED BY <1>4, <2>2, <3>1
  <2>3. CASE fs[1].who = u /\ fs[1].kind = "removed"
    <3>1. ms[u] = "none"
        BY <1>0, <1>3, <2>3 DEF Good, Removals, Adds, Is
    <3> QED BY <2>3, <3>1
  <2>4. CASE fs[1].who = u /\ fs[1].kind = "role"
    <3>1. \A i \in At(fs) : ~(i > 1 /\ Of(fs[i], u))
        BY <2>1
    <3>2. ms[u] = fs[1].role
        BY <1>0, <2>4, <3>1 DEF Good, RolesTold
    <3>3. Of(fs[1], u) /\ ~Is(fs[1], "removed", u)
        BY <2>4 DEF Of, Is
    <3>4. \A i \in At(fs) : ~Is(fs[i], "removed", u)
        BY <2>1, <3>3 DEF Of, Is
    <3>5. L[u] # "none"
        BY <1>0, <1>4, <3>3, <3>4
    <3> QED BY <2>4, <3>2, <3>5
  <2> QED BY <2>2, <2>3, <2>4
<1>6. ASSUME N[u] = "none", NEW i \in At(gs), Of(gs[i], u)
      PROVE  \E j \in At(gs) : Is(gs[j], "removed", u)
  <2>1. i + 1 \in At(fs) /\ Of(fs[i + 1], u) /\ i + 1 > 1 /\ i + 1 \in Int
      BY <1>1, <1>6
  <2>2. CASE fs[1].who = u /\ fs[1].kind = "removed"
    <3>1. CASE fs[i + 1].kind = "removed"
        BY <1>1, <1>6, <3>1 DEF Of, Is
    <3>2. CASE fs[i + 1].kind = "role"
      <4>1. \E k \in At(fs) : k > 1 /\ Is(fs[k], "added", u)
          BY <1>0, <2>1, <2>2, <3>2 DEF Good, Returns, Is, Of
      <4> QED BY <1>3, <4>1 DEF Adds, Is
    <3>3. CASE fs[i + 1].kind = "added"
        BY <1>3, <2>1, <3>3 DEF Adds
    <3> QED BY <2>1, <3>1, <3>2, <3>3, FrameIs DEF Of
  <2>3. CASE fs[1].who # u \/ fs[1].kind = "role"
    <3>1. L[u] = "none"
        BY <1>6, <2>3
    <3>2. PICK j \in At(fs) : Is(fs[j], "removed", u)
        BY <1>4, <2>1, <3>1
    <3>3. j # 1
        BY <2>3, <3>2 DEF Is
    <3> QED BY <1>2, <3>2, <3>3
  <2> QED BY <2>2, <2>3
<1> QED BY <1>5, <1>6

\* Our own role; the frames about us are roles.
LEMMA PoppedRole ==
    ASSUME NEW fs \in Seq(Frame), NEW gs \in Seq(Frame), NEW ms, Popped(fs, gs),
           Live(fs) = At(fs), Good(fs, ms), \A i \in At(fs) : Of(fs[i], Me) => fs[i].kind = "role",
           NEW r, OwnRole(r, fs, ms)
    PROVE  OwnRole(IF Is(fs[1], "role", Me) THEN fs[1].role ELSE r, gs, ms)
<1>0. 1 \in At(fs)
    BY PoppedIs
<1>1. \A i \in At(fs) : i \in Int /\ (i # 1 => i - 1 \in At(gs) /\ gs[i - 1] = fs[i] /\ i > 1)
    BY PoppedIs
<1>2. ASSUME \A i \in At(gs) : ~Is(gs[i], "role", Me)
      PROVE  (IF Is(fs[1], "role", Me) THEN fs[1].role ELSE r) = ms[Me]
  <2>1. \A i \in At(fs) : i # 1 => ~Is(fs[i], "role", Me)
      BY <1>1, <1>2
  <2>2. CASE ~Is(fs[1], "role", Me)
    <3>1. r = ms[Me]
        BY <2>1, <2>2 DEF OwnRole
    <3> QED BY <2>2, <3>1
  <2>3. CASE Is(fs[1], "role", Me)
    <3>1. \A i \in At(fs) : ~(i > 1 /\ Of(fs[i], Me))
        BY <2>1 DEF Of, Is
    <3>2. ms[Me] = fs[1].role
        BY <1>0, <2>3, <3>1 DEF Good, RolesTold, Is
    <3> QED BY <2>3, <3>2
  <2> QED BY <2>2, <2>3
<1> QED BY <1>2 DEF OwnRole

\* What was just asked for is what the server has.
LEMMA AskedNow ==
    ASSUME NEW fs \in Seq(Frame), NEW ms \in [People -> Roles], Live(fs) = At(fs), Good(fs, ms)
    PROVE  /\ (\A i \in At(fs) : ~Counted(fs[i])) => Opens(In(ms), fs, ms)
           /\ Follows(ms, fs, ms)
           /\ OwnRole(ms[Me], fs, ms)
<1>1. (\A i \in At(fs) : ~Counted(fs[i])) => Opens(In(ms), fs, ms)
    BY DEF Opens, In, CountedOf
<1>2. ASSUME ~Adds(fs), NEW u \in People, ms[u] = "none", NEW i \in At(fs), Of(fs[i], u)
      PROVE  \E j \in At(fs) : Is(fs[j], "removed", u)
  <2>1. fs[i].kind # "added"
      BY <1>2 DEF Adds
  <2>2. fs[i].kind \in {"removed", "role"}
      BY <1>2, <2>1, FrameIs DEF Of
  <2>3. CASE fs[i].kind = "removed"
      BY <1>2, <2>3 DEF Of, Is
  <2>4. CASE fs[i].kind = "role"
      BY <1>2, <2>4 DEF Good, Presences, Of
  <2> QED BY <2>2, <2>3, <2>4
<1> QED BY <1>1, <1>2 DEF Follows, OwnRole

\* What a command wrote, whose frame is still unread, does not change what the frames make of it.
LEMMA WroteFollows ==
    ASSUME NEW fs \in Seq(Frame), NEW ms, NEW L, Follows(L, fs, ms), NEW u \in People, NEW N,
           \A v \in People : v # u => N[v] = L[v],
           \/ \E i \in At(fs) : Is(fs[i], "removed", u)
           \/ (\E i \in At(fs) : Is(fs[i], "role", u)) /\ (N[u] = "none" => L[u] = "none")
    PROVE  Follows(N, fs, ms)
<1>1. \E i \in At(fs) : Of(fs[i], u)
    BY DEF Is, Of
<1> SUFFICES ASSUME ~Adds(fs), NEW v \in People
             PROVE  /\ (\A i \in At(fs) : ~Of(fs[i], v)) => N[v] = ms[v]
                    /\ N[v] = "none" /\ (\E i \in At(fs) : Of(fs[i], v)) =>
                          \E i \in At(fs) : Is(fs[i], "removed", v)
    BY DEF Follows
<1>2. /\ (\A i \in At(fs) : ~Of(fs[i], v)) => L[v] = ms[v]
      /\ L[v] = "none" /\ (\E i \in At(fs) : Of(fs[i], v)) =>
            \E i \in At(fs) : Is(fs[i], "removed", v)
    BY DEF Follows
<1>3. CASE v # u
    BY <1>2, <1>3
<1>4. CASE v = u
    BY <1>1, <1>2, <1>4
<1> QED BY <1>3, <1>4

-----------------------------------------------------------------------------
(* The inductive invariant *)

Typed == /\ members \in [People -> Roles] /\ up \in BOOLEAN /\ frames \in Seq(Frame)
         /\ list \in [People -> Roles] /\ count \in Nat /\ myRole \in Roles \ {"none"}
         /\ told \in [Phones -> {"nothing", "added", "already", "refused"}]
         /\ added \in Nat /\ loop \in {"idle", "check", "retry"}
         /\ message \in {"none", "pending", "refused", "failed", "sent"}
         /\ sure \in [list : BOOLEAN, count : BOOLEAN, role : BOOLEAN] /\ heard \in BOOLEAN
         /\ faults \in Nat

\* We stay, and what is unread is right while the socket is up.
World == /\ members[Me] # "none"
         /\ \A i \in At(frames) : /\ frames[i].kind = "role" => frames[i].role # "none"
                                  /\ Of(frames[i], Me) => frames[i].kind = "role"
         /\ up => Good(frames, members)

Writing == {"writeList", "writeMembers"}
Refreshes(h) == h.pc \in {"refresh", "writeMembers"}

\* What a task in hand has itself, ...
Basic(t, h) == /\ h.pc = "writeList" => h.seen[Me] # "none"
               /\ t = "chat" /\ h.pc = "role" => h.seen[h.who] # "none"
               /\ t = "chat" /\ h.phones # {} => h.pc \in {"batch", "each"}

\* ... an answer that is still fresh, ...
Current(h, caught, fs, ms) == h.fresh /\ h.pc \in Writing =>
    /\ caught
    /\ h.exact => Opens(In(h.seen), fs, ms)
    /\ h.pc = "writeList" => OwnRole(h.seen[Me], fs, ms)
    /\ h.pc = "writeMembers" => Follows(h.seen, fs, ms)

\* ... and a command whose frame is still unread.
Asked(h, fs) == /\ h.fresh /\ h.pc = "removed" => \E i \in At(fs) : Is(fs[i], "removed", h.who)
                /\ h.fresh /\ h.pc = "role" => \E i \in At(fs) : Is(fs[i], "role", h.who)

Ok(t, h, caught, fs, ms) == Basic(t, h) /\ Current(h, caught, fs, ms) /\ (t = "chat" => Asked(h, fs))

Work == /\ tasks \in [Tasks -> Task]
        /\ \A t \in Tasks : Ok(t, tasks[t], Caught, frames, members)

\* What is stored becomes what the server has once the frames are handled.
Sure == /\ sure.list \/ sure.count \/ sure.role => Caught
        /\ sure.count => \E B \in SUBSET People : count = Cardinality(B) /\ Opens(B, frames, members)
        /\ sure.role => OwnRole(myRole, frames, members)
        /\ sure.list => Refreshes(tasks["engine"]) \/ Follows(list, frames, members)

Tried == faults = 0 => \A p \in Others : told[p] # "refused"

\* A message that was refused in a group that is big enough now will be tried again.
Awaits == Size(members) < MinMembers \/ Adds(frames) \/ Refreshes(tasks["engine"]) \/ added > 0 \/ loop # "idle"
Awaited == /\ loop # "idle" => message = "failed"
           /\ heard /\ message \in {"refused", "failed"} => Awaits

IInv == Typed /\ World /\ Work /\ Sure /\ Tried /\ Awaited

-----------------------------------------------------------------------------
(* Sets of people *)

LEMMA PeopleFinite ==
    /\ IsFiniteSet(People) /\ IsFiniteSet(Phones)
    /\ \A S \in SUBSET People : IsFiniteSet(S) /\ Cardinality(S) \in Nat
<1>1. IsFiniteSet({Me})
    BY FS_Singleton
<1>2. IsFiniteSet(People) /\ IsFiniteSet(Phones)
    BY <1>1, FiniteAssumption, FS_Union DEF People, Phones
<1>3. \A S \in SUBSET People : IsFiniteSet(S)
    BY <1>2, FS_Subset
<1> QED BY <1>2, <1>3, FS_CardinalityType

LEMMA SizeIs ==
    ASSUME NEW ms \in [People -> Roles]
    PROVE  In(ms) \in SUBSET People /\ IsFiniteSet(In(ms)) /\ Size(ms) \in Nat
<1>1. In(ms) \in SUBSET People
    BY DEF In
<1> QED BY <1>1, PeopleFinite DEF Size

\* Fewer people are not more.
LEMMA Fewer ==
    ASSUME NEW ms \in [People -> Roles], NEW ns \in [People -> Roles],
           \A u \in People : ns[u] # "none" => ms[u] # "none"
    PROVE  Size(ns) <= Size(ms)
<1>1. In(ns) \subseteq In(ms)
    BY DEF In
<1> QED BY <1>1, SizeIs, FS_Subset DEF Size

-----------------------------------------------------------------------------
(* The properties follow *)

LEMMA AllLive ==
    ASSUME NEW fs \in Seq(Frame)
    PROVE  /\ (~\E i \in DOMAIN fs : fs[i].kind = "connected") <=> Live(fs) = At(fs)
           /\ DOMAIN fs = At(fs)
<1>1. DOMAIN fs = At(fs)
    BY LenProperties DEF At
<1>2. ASSUME \A i \in At(fs) : fs[i].kind # "connected" PROVE Live(fs) = At(fs)
    BY <1>2 DEF Live
<1>3. ASSUME Live(fs) = At(fs), NEW i \in At(fs) PROVE fs[i].kind # "connected"
  <2>1. i \in Live(fs) /\ i >= i
      BY <1>3 DEF At
  <2> QED BY <2>1 DEF Live
<1> QED BY <1>1, <1>2, <1>3

LEMMA CaughtIs ==
    ASSUME frames \in Seq(Frame)
    PROVE  /\ Caught <=> up /\ Live(frames) = At(frames)
           /\ DOMAIN frames = At(frames)
  BY AllLive DEF Caught

LEMMA NoFrames ==
    ASSUME frames = <<>>
    PROVE  At(frames) = {}
  BY DEF At

LEMMA TypeOKFollows == IInv => TypeOK
<1> SUFFICES ASSUME IInv PROVE TypeOK
    OBVIOUS
<1>1. \A i \in DOMAIN frames : frames[i] \in Frame
    BY ElementOfSeq, LenProperties DEF IInv, Typed
<1> QED BY <1>1 DEF IInv, Typed, Work, TypeOK

LEMMA MembersConvergeFollows == IInv => MembersConverge
<1> SUFFICES ASSUME IInv PROVE MembersConverge
    OBVIOUS
<1>1. TypeOK
    BY TypeOKFollows
<1>2. ASSUME Quiet
      PROVE  At(frames) = {} /\ ~Refreshes(tasks["engine"])
    BY <1>2, NoFrames DEF Quiet, Refreshes, Tasks
<1>3. ASSUME Quiet, sure.list PROVE list = members
  <2>1. Follows(list, frames, members)
      BY <1>2, <1>3 DEF IInv, Sure
  <2>2. \A u \in People : list[u] = members[u]
      BY <1>2, <1>3, <2>1 DEF Follows, Adds
  <2> QED BY <2>2 DEF IInv, Typed
<1>4. ASSUME Quiet, sure.role PROVE myRole = members[Me]
    BY <1>2, <1>4 DEF IInv, Sure, OwnRole
<1>5. ASSUME Quiet, sure.count PROVE count = Size(members)
  <2>1. PICK B \in SUBSET People : count = Cardinality(B) /\ Opens(B, frames, members)
      BY <1>5 DEF IInv, Sure
  <2>2. B = In(members)
      BY <1>2, <1>5, <2>1 DEF Opens, In
  <2> QED BY <2>1, <2>2 DEF Size
<1> QED BY <1>1, <1>3, <1>4, <1>5 DEF MembersConverge

LEMMA TooSmallFollows == IInv => TooSmallIsRetried
<1> SUFFICES ASSUME IInv, heard, Quiet, added = 0, loop = "idle", message = "failed"
             PROVE  Size(members) < MinMembers
    BY DEF TooSmallIsRetried
<1>1. At(frames) = {} /\ ~Refreshes(tasks["engine"])
    BY NoFrames DEF Quiet, Refreshes, Tasks
<1> QED BY <1>1 DEF IInv, Awaited, Awaits, Adds

-----------------------------------------------------------------------------
(* The initial states *)

LEMMA InitInvariant == Init => IInv
<1> SUFFICES ASSUME Init PROVE IInv
    OBVIOUS
<1>1. members \in [People -> Roles] /\ members[Me] = "admin"
    BY DEF Init, People, Roles
<1>2. frames \in Seq(Frame) /\ At(frames) = {}
    BY NoFrames DEF Init
<1>3. count = Size(members) /\ count \in Nat
    BY <1>1, SizeIs DEF Init
<1>4. Typed
    BY <1>1, <1>2, <1>3 DEF Init, Typed, Roles
<1>5. Live(frames) = {} /\ Caught
    BY <1>2, CaughtIs DEF Live, Init
<1>6. World
    BY <1>1, <1>2, <1>5 DEF World, Good, Removals, Presences, RolesTold, Returns, Turns
<1>7. Work
    BY IdleIs DEF Work, Ok, Basic, Current, Asked, Init, Writing
<1>8. Opens(In(members), frames, members)
    BY <1>2 DEF Opens, In
<1>9. Sure
  <2>1. In(members) \in SUBSET People /\ count = Cardinality(In(members))
      BY <1>1, <1>3, SizeIs DEF Size
  <2>2. sure.list = FALSE /\ myRole = members[Me]
      BY <1>1 DEF Init
  <2> QED BY <1>5, <1>8, <2>1, <2>2 DEF Sure, OwnRole
<1>10. Tried
    BY DEF Init, Tried, Phones
<1>11. Awaited
    BY DEF Init, Awaited
<1> QED BY <1>4, <1>6, <1>7, <1>9, <1>10, <1>11 DEF IInv

-----------------------------------------------------------------------------
(* What keeps the invariant *)

\* The server tells what it does, ...
Grows == /\ up /\ up' = up /\ Grown(frames, frames', members, members')
         /\ \A i \in New(frames, frames') : frames'[i].who = Me => frames'[i].kind = "role"

\* ... or nothing happens there.
Stays == UNCHANGED <<members, up, frames>>

LEMMA StaysKeeps ==
    ASSUME Stays
    PROVE  /\ World => World'
           /\ \A h \in Task : /\ Current(h, Caught, frames, members) => Current(h, Caught', frames', members')
                              /\ Asked(h, frames) => Asked(h, frames')
  BY DEF Stays, World, Current, Caught, Asked

LEMMA GrowsCaught ==
    ASSUME Typed, Typed', Grows, Caught
    PROVE  Caught'
<1>1. frames \in Seq(Frame) /\ frames' \in Seq(Frame)
    BY DEF Typed
<1>2. Live(frames) = At(frames)
    BY <1>1, CaughtIs
<1>3. Grown(frames, frames', members, members')
    BY DEF Grows
<1>4. Live(frames') = At(frames')
  <2>1. /\ Live(frames') = Live(frames) \cup New(frames, frames')
        /\ At(frames') = At(frames) \cup New(frames, frames')
      BY <1>1, <1>3, GrownLive
  <2> QED BY <1>2, <2>1
<1>5. ~\E i \in DOMAIN frames' : frames'[i].kind = "connected"
    BY <1>1, <1>4, AllLive
<1> QED BY <1>5 DEF Caught, Grows

LEMMA GrowsKeeps ==
    ASSUME Typed, Typed', World, Grows
    PROVE  /\ World'
           /\ \A h \in Task : /\ Current(h, Caught, frames, members) => Current(h, Caught', frames', members')
                              /\ Asked(h, frames) => Asked(h, frames')
           /\ \A B : Opens(B, frames, members) => Opens(B, frames', members')
           /\ \A r : OwnRole(r, frames, members) => OwnRole(r, frames', members')
           /\ Caught => \A L : Follows(L, frames, members) => Follows(L, frames', members')
           /\ Adds(frames) => Adds(frames')
<1>1. /\ frames \in Seq(Frame) /\ frames' \in Seq(Frame)
      /\ Grown(frames, frames', members, members')
    BY DEF Typed, Grows
<1>2. /\ \A i \in At(frames) : i \in At(frames') /\ frames'[i] = frames[i]
      /\ At(frames') = At(frames) \cup New(frames, frames')
    BY <1>1, GrownLive
<1>3. /\ \A i \in New(frames, frames') : /\ frames'[i].who = Me => frames'[i].kind = "role"
                                         /\ frames'[i].kind = "role" => frames'[i].role # "none"
    BY DEF Grows, Grown
<1>4. World'
  <2>1. members'[Me] # "none"
    <3>1. CASE \A i \in New(frames, frames') : frames'[i].who # Me
      <4>1. members'[Me] = members[Me]
          BY <1>1, <3>1 DEF Grown, People
      <4> QED BY <4>1 DEF World
    <3>2. CASE \E i \in New(frames, frames') : frames'[i].who = Me
        BY <1>1, <1>3, <3>2 DEF Grown
    <3> QED BY <3>1, <3>2
  <2>2. \A i \in At(frames') : /\ frames'[i].kind = "role" => frames'[i].role # "none"
                               /\ Of(frames'[i], Me) => frames'[i].kind = "role"
      BY <1>2, <1>3 DEF World, Of
  <2>3. Good(frames', members')
    <3>1. Good(frames, members)
        BY DEF Grows, World
    <3> QED BY <1>1, <3>1, GrownGood
  <2> QED BY <2>1, <2>2, <2>3 DEF World
<1>5. \A B : Opens(B, frames, members) => Opens(B, frames', members')
    BY <1>1, GrownOpens
<1>6. \A r : OwnRole(r, frames, members) => OwnRole(r, frames', members')
    BY <1>1, GrownRole DEF Grows
<1>7. ASSUME Caught, NEW L, Follows(L, frames, members) PROVE Follows(L, frames', members')
  <2>1. Live(frames) = At(frames) /\ Removals(frames, members)
      BY <1>1, <1>7, CaughtIs DEF World, Good, Grows
  <2> QED BY <1>1, <1>7, <2>1, GrownFollows
<1>8. ASSUME NEW h \in Task, Current(h, Caught, frames, members)
      PROVE  Current(h, Caught', frames', members')
    BY <1>5, <1>6, <1>7, <1>8, GrowsCaught DEF Current
<1>9. ASSUME NEW h \in Task, Asked(h, frames) PROVE Asked(h, frames')
    BY <1>2, <1>9 DEF Asked
<1>10. Adds(frames) => Adds(frames')
    BY <1>2 DEF Adds
<1> QED BY <1>4, <1>5, <1>6, <1>7, <1>8, <1>9, <1>10

\* What holds of a task whatever happens, once its answer is known to be old.
LEMMA StaleOk ==
    ASSUME NEW t \in Tasks, NEW h \in Task, Basic(t, h), NEW c, NEW fs, NEW ms
    PROVE  Ok(t, [h EXCEPT !.fresh = FALSE], c, fs, ms)
<1> DEFINE n == [h EXCEPT !.fresh = FALSE]
<1>1. /\ n \in Task /\ n.pc = h.pc /\ n.who = h.who /\ n.seen = h.seen
      /\ n.phones = h.phones /\ n.fresh = FALSE
    BY FreshTask
<1> HIDE DEF n
<1>2. Ok(t, n, c, fs, ms)
    BY <1>1 DEF Ok, Basic, Current, Asked
<1> QED BY <1>2 DEF n

\* A task that has nothing fresh in hand.
LEMMA PlainOk ==
    ASSUME NEW t \in Tasks, NEW h \in Task, h.pc \notin {"writeList", "writeMembers", "removed", "role"},
           t = "chat" /\ h.phones # {} => h.pc \in {"batch", "each"}, NEW c, NEW fs, NEW ms
    PROVE  Ok(t, h, c, fs, ms)
  BY DEF Ok, Basic, Current, Asked, Writing

LEMMA StaleIs ==
    ASSUME NEW ts \in [Tasks -> Task]
    PROVE  /\ Stale(ts) \in [Tasks -> Task]
           /\ \A t \in Tasks : Stale(ts)[t] = [ts[t] EXCEPT !.fresh = FALSE] /\ Stale(ts)[t].pc = ts[t].pc
<1>1. \A t \in Tasks : [ts[t] EXCEPT !.fresh = FALSE] \in Task /\ [ts[t] EXCEPT !.fresh = FALSE].pc = ts[t].pc
    BY FreshTask
<1> QED BY <1>1 DEF Stale

LEMMA StaleWork ==
    ASSUME NEW ts \in [Tasks -> Task], \A t \in Tasks : Basic(t, ts[t]), tasks' = Stale(ts)
    PROVE  Work'
<1>1. /\ tasks' \in [Tasks -> Task]
      /\ \A t \in Tasks : tasks'[t] = [ts[t] EXCEPT !.fresh = FALSE]
    BY StaleIs
<1>2. ASSUME NEW t \in Tasks PROVE Ok(t, tasks'[t], Caught', frames', members')
  <2>1. Ok(t, [ts[t] EXCEPT !.fresh = FALSE], Caught', frames', members')
      BY StaleOk
  <2> QED BY <1>1, <2>1
<1> QED BY <1>1, <1>2 DEF Work

\* Nothing is known for sure after a loss.
LEMMA UnsureIs ==
    ASSUME sure' = Unsure
    PROVE  Sure'
  BY DEF Sure, Unsure

\* A task goes on, and the other one is where it was.
LEMMA TaskWork ==
    ASSUME Work, NEW t \in Tasks, NEW k \in Task, tasks' = [tasks EXCEPT ![t] = k],
           Ok(t, k, Caught', frames', members'),
           \A u \in Tasks \ {t} : Ok(u, tasks[u], Caught', frames', members')
    PROVE  /\ Work' /\ tasks'[t] = k
           /\ \A u \in Tasks \ {t} : tasks'[u] = tasks[u]
<1>1. /\ tasks' \in [Tasks -> Task] /\ tasks'[t] = k
      /\ \A u \in Tasks \ {t} : tasks'[u] = tasks[u]
    BY DEF Work
<1>2. \A u \in Tasks : Ok(u, tasks'[u], Caught', frames', members')
    BY <1>1
<1> QED BY <1>1, <1>2 DEF Work

\* Nothing happens at the server, and one task goes on.
LEMMA StaysWork ==
    ASSUME IInv, Stays, NEW t \in Tasks, NEW k \in Task, tasks' = [tasks EXCEPT ![t] = k],
           Ok(t, k, Caught, frames, members)
    PROVE  /\ World' /\ Work' /\ tasks'[t] = k
           /\ \A u \in Tasks \ {t} : tasks'[u] = tasks[u]
<1>1. Caught' = Caught /\ frames' = frames /\ members' = members
    BY DEF Stays, Caught
<1>2. /\ Ok(t, k, Caught', frames', members')
      /\ \A u \in Tasks \ {t} : Ok(u, tasks[u], Caught', frames', members')
    BY <1>1 DEF IInv, Work
<1>3. World'
    BY StaysKeeps DEF IInv
<1>4. Work
    BY DEF IInv
<1> QED BY <1>2, <1>3, <1>4, TaskWork

\* What is sure stays sure while the store is not written.
LEMMA StaysSure ==
    ASSUME IInv, Stays, UNCHANGED store,
           sure'.list => sure.list, sure'.count => sure.count, sure'.role => sure.role,
           Refreshes(tasks["engine"]) => Refreshes(tasks'["engine"]) \/ ~sure'.list
    PROVE  Sure'
  BY DEF IInv, Sure, Stays, store, Caught, Refreshes

\* A message waits on.
LEMMA AwaitedStep ==
    ASSUME Awaited, UNCHANGED <<loop, message>>, heard' => heard, added \in Nat, added' \in Nat, added' >= added,
           Size(members') < MinMembers \/ ~(Size(members) < MinMembers) \/ Adds(frames'),
           Adds(frames) => Adds(frames') \/ Refreshes(tasks'["engine"]),
           Refreshes(tasks["engine"]) => Refreshes(tasks'["engine"]) \/ added' > 0
    PROVE  Awaited'
<1>1. Awaits => Awaits'
    BY DEF Awaits
<1> QED BY <1>1 DEF Awaited

\* The frames that tell of a change.
Tells(fs, ms, ns) ==
    /\ \A i \in At(fs) :
          /\ \/ fs[i].kind = "added" /\ ms[fs[i].who] = "none" /\ ns[fs[i].who] # "none"
             \/ fs[i].kind = "removed" /\ ms[fs[i].who] # "none" /\ ns[fs[i].who] = "none"
             \/ /\ fs[i].kind = "role" /\ ms[fs[i].who] # "none"
                /\ ns[fs[i].who] # "none" /\ ns[fs[i].who] = fs[i].role
          /\ fs[i].who = Me => fs[i].kind = "role"
    /\ \A i, j \in At(fs) : fs[i].who = fs[j].who => i = j
    /\ \A u \in People : (\A i \in At(fs) : fs[i].who # u) => ns[u] = ms[u]

LEMMA Appended ==
    ASSUME NEW es \in Seq(Frame), NEW fs \in Seq(Frame)
    PROVE  LET gs == es \o fs
           IN  /\ gs \in Seq(Frame) /\ Len(es) <= Len(gs)
               /\ \A i \in At(es) : gs[i] = es[i]
               /\ \A i \in New(es, gs) : i - Len(es) \in At(fs) /\ gs[i] = fs[i - Len(es)]
               /\ \A i \in At(fs) : i + Len(es) \in New(es, gs) /\ gs[i + Len(es)] = fs[i]
<1> DEFINE gs == es \o fs
<1>1. /\ gs \in Seq(Frame) /\ Len(gs) = Len(es) + Len(fs) /\ Len(es) \in Nat /\ Len(fs) \in Nat
      /\ \A i \in 1..Len(es) + Len(fs) : gs[i] = IF i <= Len(es) THEN es[i] ELSE fs[i - Len(es)]
    BY ConcatProperties, LenProperties
<1> HIDE DEF gs
<1>2. Len(es) <= Len(gs) /\ \A i \in At(es) : gs[i] = es[i]
    BY <1>1 DEF At
<1>3. ASSUME NEW i \in New(es, gs)
      PROVE  i - Len(es) \in At(fs) /\ gs[i] = fs[i - Len(es)]
    BY <1>1 DEF At, New
<1>4. ASSUME NEW i \in At(fs)
      PROVE  i + Len(es) \in New(es, gs) /\ gs[i + Len(es)] = fs[i]
  <2>1. /\ i + Len(es) \in 1..Len(es) + Len(fs) /\ i + Len(es) > Len(es)
        /\ (i + Len(es)) - Len(es) = i
      BY <1>1 DEF At
  <2> QED BY <1>1, <2>1 DEF At, New
<1> QED BY <1>1, <1>2, <1>3, <1>4 DEF gs

LEMMA TellsGrown ==
    ASSUME NEW es \in Seq(Frame), NEW fs \in Seq(Frame), NEW ms, NEW ns, Tells(fs, ms, ns)
    PROVE  /\ Grown(es, es \o fs, ms, ns)
           /\ \A i \in New(es, es \o fs) : (es \o fs)[i].who = Me => (es \o fs)[i].kind = "role"
           /\ Adds(fs) => Adds(es \o fs)
           /\ \A u, kind : (\E i \in At(fs) : Is(fs[i], kind, u)) => \E i \in At(es \o fs) : Is((es \o fs)[i], kind, u)
<1> DEFINE gs == es \o fs
<1>1. /\ gs \in Seq(Frame) /\ Len(es) <= Len(gs)
      /\ \A i \in At(es) : gs[i] = es[i]
      /\ \A i \in New(es, gs) : i - Len(es) \in At(fs) /\ gs[i] = fs[i - Len(es)]
      /\ \A i \in At(fs) : i + Len(es) \in New(es, gs) /\ gs[i + Len(es)] = fs[i]
    BY Appended
<1>2. New(es, gs) \subseteq At(gs)
    BY DEF New
<1>3. Len(es) \in Nat /\ New(es, gs) \subseteq Int
    BY LenProperties DEF New, At
<1> HIDE DEF gs
<1>4. \A i, j \in New(es, gs) : gs[i].who = gs[j].who => i = j
  <2> SUFFICES ASSUME NEW i \in New(es, gs), NEW j \in New(es, gs), gs[i].who = gs[j].who PROVE i = j
      OBVIOUS
  <2>1. i - Len(es) = j - Len(es)
      BY <1>1 DEF Tells
  <2> QED BY <1>3, <2>1
<1>5. \A i \in New(es, gs) :
         /\ \/ gs[i].kind = "added" /\ ms[gs[i].who] = "none" /\ ns[gs[i].who] # "none"
            \/ gs[i].kind = "removed" /\ ms[gs[i].who] # "none" /\ ns[gs[i].who] = "none"
            \/ /\ gs[i].kind = "role" /\ ms[gs[i].who] # "none"
               /\ ns[gs[i].who] # "none" /\ ns[gs[i].who] = gs[i].role
         /\ gs[i].who = Me => gs[i].kind = "role"
    BY <1>1 DEF Tells
<1>6. ASSUME NEW u \in People, \A i \in New(es, gs) : gs[i].who # u
      PROVE  ns[u] = ms[u]
  <2>1. \A i \in At(fs) : fs[i].who # u
      BY <1>1, <1>6
  <2> QED BY <2>1 DEF Tells
<1>7. Grown(es, gs, ms, ns)
    BY <1>1, <1>4, <1>5, <1>6 DEF Grown
<1>8. Adds(fs) => Adds(gs)
    BY <1>1, <1>2 DEF Adds
<1>9. \A u, kind : (\E i \in At(fs) : Is(fs[i], kind, u)) => \E i \in At(gs) : Is(gs[i], kind, u)
    BY <1>1, <1>2
<1> QED BY <1>5, <1>7, <1>8, <1>9 DEF gs

LEMMA TellStep ==
    ASSUME IInv, Typed', NEW fs \in Seq(Frame), NEW ts \in [Tasks -> Task], Tell(fs, ts), up' = up,
           Tells(fs, members, members'), members'[Me] # "none",
           ts["engine"] = tasks["engine"], Basic("chat", ts["chat"]),
           up => Ok("chat", ts["chat"], Caught', frames', members'),
           UNCHANGED <<store, loop, message, added>>,
           Size(members') < MinMembers \/ ~(Size(members) < MinMembers) \/ Adds(fs)
    PROVE  World' /\ Work' /\ Sure' /\ Awaited'
<1>1. /\ frames \in Seq(Frame) /\ "engine" \in Tasks /\ "chat" \in Tasks
      /\ \A t \in Tasks : t \in {"engine", "chat"}
      /\ tasks["engine"] \in Task /\ added \in Nat
    BY DEF IInv, Typed, Tasks, Work
<1>2. CASE up
  <2>1. frames' = frames \o fs /\ tasks' = ts /\ sure' = sure /\ heard' = heard
      BY <1>2 DEF Tell
  <2>2. Grows
      BY <1>1, <1>2, <2>1, TellsGrown DEF Grows
  <2>3. /\ World'
        /\ \A h \in Task : Current(h, Caught, frames, members) => Current(h, Caught', frames', members')
        /\ \A B : Opens(B, frames, members) => Opens(B, frames', members')
        /\ \A r : OwnRole(r, frames, members) => OwnRole(r, frames', members')
        /\ Caught => \A L : Follows(L, frames, members) => Follows(L, frames', members')
        /\ Adds(frames) => Adds(frames')
      BY <2>2, GrowsKeeps DEF IInv
  <2>4. Work'
    <3>1. Ok("engine", ts["engine"], Caught', frames', members')
        BY <1>1, <2>3 DEF IInv, Work, Ok
    <3> QED BY <1>1, <1>2, <2>1, <3>1 DEF Work
  <2>5. Sure'
    <3>1. Caught => Caught'
        BY <2>2, GrowsCaught DEF IInv
    <3>2. count' = count /\ myRole' = myRole /\ list' = list /\ tasks'["engine"] = tasks["engine"]
        BY <2>1 DEF store
    <3>3. sure.count => \E B \in SUBSET People : count = Cardinality(B) /\ Opens(B, frames', members')
        BY <2>3 DEF IInv, Sure
    <3>4. sure.list => Refreshes(tasks["engine"]) \/ Follows(list, frames', members')
        BY <2>3 DEF IInv, Sure
    <3>5. sure.role => OwnRole(myRole, frames', members')
        BY <2>3 DEF IInv, Sure
    <3>6. sure.list \/ sure.count \/ sure.role => Caught'
        BY <3>1 DEF IInv, Sure
    <3> QED BY <2>1, <3>2, <3>3, <3>4, <3>5, <3>6 DEF Sure
  <2>6. Awaited'
    <3>1. Adds(fs) => Adds(frames')
        BY <1>1, <2>1, TellsGrown
    <3>2. tasks'["engine"] = tasks["engine"]
        BY <2>1
    <3>3. Awaited
        BY DEF IInv
    <3> QED BY <1>1, <2>1, <2>3, <3>1, <3>2, <3>3, AwaitedStep
  <2> QED BY <2>3, <2>4, <2>5, <2>6
<1>3. CASE ~up
  <2>1. tasks' = Stale(ts) /\ sure' = Unsure /\ heard' = FALSE /\ frames' = frames
      BY <1>3 DEF Tell
  <2>2. World'
      BY <1>3, <2>1 DEF IInv, World
  <2>3. Basic("engine", ts["engine"])
      BY <1>1 DEF IInv, Work, Ok
  <2>4. Work'
      BY <1>1, <2>1, <2>3, StaleWork
  <2>5. Sure'
      BY <2>1, UnsureIs
  <2>6. Awaited'
      BY <2>1 DEF IInv, Awaited
  <2> QED BY <2>2, <2>4, <2>5, <2>6
<1>4. up \in BOOLEAN
    BY DEF IInv, Typed
<1> QED BY <1>2, <1>3, <1>4

LEMMA OneFrame ==
    ASSUME NEW f \in Frame
    PROVE  <<f>> \in Seq(Frame) /\ At(<<f>>) = {1} /\ <<f>>[1] = f
  BY DEF At

LEMMA EventIs ==
    ASSUME NEW k \in {"connected", "added", "removed", "role"}, NEW u \in People, NEW r \in Roles
    PROVE  /\ Event(k, u, r) \in Frame
           /\ Event(k, u, r).kind = k /\ Event(k, u, r).who = u /\ Event(k, u, r).role = r
  BY DEF Event, Frame

\* One event about one of the members.
LEMMA OneTells ==
    ASSUME Typed, NEW f \in Frame, NEW r \in Roles,
           members' = [members EXCEPT ![f.who] = r], f.who = Me => f.kind = "role",
           \/ f.kind = "added" /\ members[f.who] = "none" /\ r # "none"
           \/ f.kind = "removed" /\ members[f.who] # "none" /\ r = "none"
           \/ f.kind = "role" /\ members[f.who] # "none" /\ r # "none" /\ r = f.role
    PROVE  Tells(<<f>>, members, members')
<1> DEFINE fs == <<f>>
<1>1. At(fs) = {1} /\ fs[1] = f
    BY OneFrame
<1> HIDE DEF fs
<1>2. f.who \in People
    BY DEF Frame
<1>3. /\ members'[f.who] = r
      /\ \A u \in People : u # f.who => members'[u] = members[u]
    BY <1>2 DEF Typed
<1>4. Tells(fs, members, members')
    BY <1>1, <1>3 DEF Tells
<1> QED BY <1>4 DEF fs

LEMMA EntersTells ==
    ASSUME IInv, NEW u \in People, NEW ts, Enters(u, ts)
    PROVE  \E fs \in Seq(Frame) :
               /\ Tell(fs, ts) /\ Tells(fs, members, members') /\ Adds(fs)
               /\ members' \in [People -> Roles] /\ members'[Me] # "none"
<1>1. PICK d \in {"none", "member"} : Tell(<<Event("added", u, d)>>, ts)
    BY DEF Enters
<1> DEFINE f == Event("added", u, d)
<1>2. /\ f \in Frame /\ f.kind = "added" /\ f.who = u
      /\ members[u] = "none" /\ members' = [members EXCEPT ![u] = "member"]
    BY EventIs DEF Roles, Enters
<1>3. u # Me /\ members \in [People -> Roles] /\ members[Me] # "none" /\ Typed
    BY <1>2 DEF IInv, World, Typed
<1>4. Tell(<<f>>, ts)
    BY <1>1
<1> HIDE DEF f
<1>5. Tells(<<f>>, members, members')
    BY <1>2, <1>3, OneTells DEF Roles
<1>6. <<f>> \in Seq(Frame) /\ Adds(<<f>>)
    BY <1>2, OneFrame DEF Adds
<1>7. members' \in [People -> Roles] /\ members'[Me] # "none"
    BY <1>2, <1>3 DEF Roles
<1> QED BY <1>4, <1>5, <1>6, <1>7

LEMMA LeavesTells ==
    ASSUME IInv, NEW u \in People, NEW ts, Leaves(u, ts)
    PROVE  \E fs \in Seq(Frame) :
               /\ Tell(fs, ts) /\ Tells(fs, members, members')
               /\ \E i \in At(fs) : Is(fs[i], "removed", u)
               /\ members' \in [People -> Roles] /\ members'[Me] # "none"
               /\ Size(members') <= Size(members)
<1> DEFINE f == Event("removed", u, "none")
<1>1. /\ f \in Frame /\ f.kind = "removed" /\ f.who = u
      /\ members[u] # "none" /\ u # Me /\ members' = [members EXCEPT ![u] = "none"]
      /\ Tell(<<f>>, ts)
    BY EventIs DEF Roles, Leaves
<1> HIDE DEF f
<1>2. members \in [People -> Roles] /\ members[Me] # "none" /\ Typed
    BY DEF IInv, World, Typed
<1>3. Tells(<<f>>, members, members')
    BY <1>1, <1>2, OneTells DEF Roles
<1>4. <<f>> \in Seq(Frame) /\ \E i \in At(<<f>>) : Is(<<f>>[i], "removed", u)
    BY <1>1, OneFrame DEF Is
<1>5. members' \in [People -> Roles] /\ members'[Me] # "none"
    BY <1>1, <1>2 DEF Roles
<1>6. \A p \in People : members'[p] # "none" => members[p] # "none"
    BY <1>1, <1>2
<1>7. Size(members') <= Size(members)
    BY <1>2, <1>5, <1>6, Fewer
<1> QED BY <1>1, <1>3, <1>4, <1>5, <1>7

LEMMA BecomesTells ==
    ASSUME IInv, NEW u \in People, NEW r \in Roles \ {"none"}, NEW ts, Becomes(u, r, ts)
    PROVE  \E fs \in Seq(Frame) :
               /\ Tell(fs, ts) /\ Tells(fs, members, members')
               /\ \E i \in At(fs) : Is(fs[i], "role", u)
               /\ members' \in [People -> Roles] /\ members'[Me] # "none"
               /\ Size(members') <= Size(members)
<1> DEFINE f == Event("role", u, r)
<1>1. /\ f \in Frame /\ f.kind = "role" /\ f.who = u /\ f.role = r
      /\ members[u] # "none" /\ members' = [members EXCEPT ![u] = r]
      /\ Tell(<<f>>, ts)
    BY EventIs DEF Becomes
<1> HIDE DEF f
<1>2. members \in [People -> Roles] /\ members[Me] # "none" /\ Typed
    BY DEF IInv, World, Typed
<1>3. Tells(<<f>>, members, members')
    BY <1>1, <1>2, OneTells
<1>4. <<f>> \in Seq(Frame) /\ \E i \in At(<<f>>) : Is(<<f>>[i], "role", u)
    BY <1>1, OneFrame DEF Is
<1>5. members' \in [People -> Roles] /\ members'[Me] # "none"
    BY <1>1, <1>2 DEF Roles
<1>6. \A p \in People : members'[p] # "none" => members[p] # "none"
    BY <1>1, <1>2
<1>7. Size(members') <= Size(members)
    BY <1>2, <1>5, <1>6, Fewer
<1> QED BY <1>1, <1>3, <1>4, <1>5, <1>7

\* What a change leaves typed.
LEMMA TellTyped ==
    ASSUME Typed, NEW fs \in Seq(Frame), NEW ts, Tell(fs, ts), members' \in [People -> Roles],
           told' \in [Phones -> {"nothing", "added", "already", "refused"}], faults' \in Nat,
           UNCHANGED <<up, store, added, loop, message>>
    PROVE  Typed'
<1>1. CASE up
  <2>1. frames' = frames \o fs /\ sure' = sure /\ heard' = heard
      BY <1>1 DEF Tell
  <2>2. frames' \in Seq(Frame)
      BY <2>1, ConcatProperties DEF Typed
  <2> QED BY <2>1, <2>2 DEF Typed, store
<1>2. CASE ~up
  <2>1. frames' = frames /\ sure' = Unsure /\ heard' = FALSE
      BY <1>2 DEF Tell
  <2>2. Unsure \in [list : BOOLEAN, count : BOOLEAN, role : BOOLEAN]
      BY DEF Unsure
  <2> QED BY <2>1, <2>2 DEF Typed, store
<1> QED BY <1>1, <1>2

\* A failed request is not blamed on anybody.
LEMMA TriedStep ==
    ASSUME IInv, told' = told, faults' = faults \/ faults' = faults + 1
    PROVE  Tried'
  BY DEF IInv, Tried, Typed

LEMMA ChangeStep == IInv /\ Change => IInv'
<1> SUFFICES ASSUME IInv, Change PROVE IInv'
    OBVIOUS
<1>1. PICK u \in People : \/ Enters(u, tasks) \/ Leaves(u, tasks)
                          \/ \E r \in Roles \ {"none"} : Becomes(u, r, tasks)
    BY DEF Change
<1>2. UNCHANGED <<up, store, told, added, loop, message, faults>>
    BY DEF Change
<1>3. PICK fs \in Seq(Frame) :
               /\ Tell(fs, tasks) /\ Tells(fs, members, members')
               /\ members' \in [People -> Roles] /\ members'[Me] # "none"
               /\ Size(members') <= Size(members) \/ Adds(fs)
    BY <1>1, EntersTells, LeavesTells, BecomesTells
<1>4. Typed'
    BY <1>2, <1>3, TellTyped DEF IInv, Typed
<1>5. /\ tasks \in [Tasks -> Task] /\ "chat" \in Tasks
      /\ Ok("chat", tasks["chat"], Caught, frames, members)
    BY DEF IInv, Work, Tasks
<1>6. up => Ok("chat", tasks["chat"], Caught', frames', members')
  <2> SUFFICES ASSUME up PROVE Ok("chat", tasks["chat"], Caught', frames', members')
      OBVIOUS
  <2>1. Grows
    <3>1. frames \in Seq(Frame) /\ frames' = frames \o fs
        BY <1>3 DEF IInv, Typed, Tell
    <3> QED BY <1>2, <1>3, <3>1, TellsGrown DEF Grows
  <2> QED BY <1>4, <1>5, <2>1, GrowsKeeps DEF IInv, Ok
<1>7. Size(members') < MinMembers \/ ~(Size(members) < MinMembers) \/ Adds(fs)
  <2>1. Size(members) \in Nat /\ Size(members') \in Nat
      BY <1>3, SizeIs DEF IInv, Typed
  <2> QED BY <1>3, <2>1, BoundsAssumption
<1>8. World' /\ Work' /\ Sure' /\ Awaited'
    BY <1>2, <1>3, <1>4, <1>5, <1>6, <1>7, TellStep DEF Ok
<1>9. Tried'
    BY <1>2, TriedStep
<1> QED BY <1>4, <1>8, <1>9 DEF IInv

LEMMA DropStep == IInv /\ Drop => IInv'
<1> SUFFICES ASSUME IInv, Drop PROVE IInv'
    OBVIOUS
<1>1. /\ up' = FALSE /\ sure' = Unsure /\ heard' = FALSE /\ tasks' = Stale(tasks)
      /\ UNCHANGED <<members, store, told, added, loop, message, faults>>
    BY DEF Drop
<1>2. PICK n \in 0..Len(frames) : frames' = SubSeq(frames, 1, n)
    BY DEF Drop
<1>3. frames' \in Seq(Frame) /\ Len(frames') = n /\ \A i \in 1..n : frames'[i] = frames[i]
    BY <1>2, SubSeqProperties DEF IInv, Typed
<1>4. \A i \in At(frames') : i \in At(frames) /\ frames'[i] = frames[i]
    BY <1>3, LenProperties DEF At, IInv, Typed
<1>5. Unsure \in [list : BOOLEAN, count : BOOLEAN, role : BOOLEAN]
    BY DEF Unsure
<1>6. Typed'
    BY <1>1, <1>3, <1>5 DEF IInv, Typed, store
<1>7. World'
    BY <1>1, <1>4 DEF IInv, World
<1>8. Work'
    BY <1>1, StaleWork DEF IInv, Work, Ok
<1>9. Sure'
    BY <1>1, UnsureIs
<1>10. Tried'
    BY <1>1, TriedStep
<1>11. Awaited'
    BY <1>1 DEF IInv, Awaited
<1> QED BY <1>6, <1>7, <1>8, <1>9, <1>10, <1>11 DEF IInv

LEMMA ConnectStep == IInv /\ Connect => IInv'
<1> SUFFICES ASSUME IInv, Connect PROVE IInv'
    OBVIOUS
<1> DEFINE f == Event("connected", Me, "none")
<1>1. f \in Frame /\ f.kind = "connected"
    BY EventIs DEF People, Roles
<1>2. /\ ~up /\ up' = TRUE /\ frames' = Append(frames, f)
      /\ UNCHANGED <<members, store, tasks, told, added, loop, message, heard, sure, faults>>
    BY DEF Connect, retry, counters
<1> HIDE DEF f
<1>3. /\ frames \in Seq(Frame) /\ frames' \in Seq(Frame) /\ Len(frames) \in Nat
      /\ Len(frames') = Len(frames) + 1
      /\ \A i \in 1..Len(frames) : frames'[i] = frames[i]
      /\ frames'[Len(frames) + 1] = f
    BY <1>1, <1>2, AppendProperties, LenProperties DEF IInv, Typed
<1>4. /\ At(frames') = At(frames) \cup {Len(frames) + 1}
      /\ \A i \in At(frames) : frames'[i] = frames[i]
    BY <1>3 DEF At
<1>5. Live(frames') = {}
  <2> SUFFICES ASSUME NEW i \in Live(frames') PROVE FALSE
      OBVIOUS
  <2>1. Len(frames) + 1 \in At(frames') /\ Len(frames) + 1 >= i
      BY <1>3, <1>4 DEF Live, At
  <2> QED BY <1>1, <1>3, <2>1 DEF Live
<1>6. Typed'
    BY <1>2, <1>3 DEF IInv, Typed, store
<1>7. World'
  <2>1. Good(frames', members')
      BY <1>5 DEF Good, Removals, Presences, RolesTold, Returns, Turns
  <2>2. \A i \in At(frames') : /\ frames'[i].kind = "role" => frames'[i].role # "none"
                               /\ Of(frames'[i], Me) => frames'[i].kind = "role"
      BY <1>1, <1>3, <1>4 DEF IInv, World, Of
  <2> QED BY <1>2, <2>1, <2>2 DEF IInv, World
<1>8. ~Caught
    BY <1>2 DEF Caught
<1>9. Work'
  <2>1. ASSUME NEW t \in Tasks PROVE Ok(t, tasks[t], Caught', frames', members')
    <3>1. Ok(t, tasks[t], Caught, frames, members)
        BY DEF IInv, Work
    <3>2. Current(tasks[t], Caught', frames', members')
        BY <1>8, <3>1 DEF Ok, Current
    <3>3. t = "chat" => Asked(tasks[t], frames')
        BY <1>4, <3>1 DEF Ok, Asked
    <3> QED BY <3>1, <3>2, <3>3 DEF Ok
  <2> QED BY <1>2, <2>1 DEF IInv, Work
<1>10. Sure'
    BY <1>2, <1>8 DEF IInv, Sure
<1>11. Tried'
    BY <1>2, TriedStep
<1>12. Awaited'
    BY <1>2, <1>4 DEF IInv, Awaited, Awaits, Adds
<1> QED BY <1>6, <1>7, <1>9, <1>10, <1>11, <1>12 DEF IInv

\* The engine's event loop takes a frame and goes on with k.
LEMMA HandleStep ==
    ASSUME IInv, NEW kind, NEW k \in Task, Handle(kind, k),
           k.pc \notin {"writeList", "writeMembers", "removed", "role"}, k.phones = {},
           UNCHANGED <<members, up>>
    PROVE  /\ World' /\ Work' /\ tasks'["engine"] = k
           /\ frames' \in Seq(Frame) /\ Popped(frames, frames')
           /\ 1 \in At(frames) /\ frames[1] = Head(frames) /\ frames[1].kind = kind
           /\ frames[1] \in Frame /\ frames[1].who \in People
           /\ ~Refreshes(tasks["engine"])
           /\ Caught => Caught' /\ Live(frames) = At(frames)
<1>1. /\ frames \in Seq(Frame) /\ frames # <<>> /\ Head(frames).kind = kind /\ frames' = Tail(frames)
      /\ tasks["engine"].pc = "idle" /\ tasks' = [Stale(tasks) EXCEPT !["engine"] = k]
    BY DEF IInv, Typed, Handle
<1>2. /\ frames' \in Seq(Frame) /\ Len(frames') = Len(frames) - 1
      /\ Len(frames) \in Nat /\ Len(frames) >= 1
      /\ \A i \in 1..Len(frames') : frames'[i] = frames[i + 1]
      /\ Head(frames) = frames[1]
    BY <1>1, HeadTailProperties, LenProperties, EmptySeq
<1>3. Popped(frames, frames') /\ 1 \in At(frames)
    BY <1>2 DEF Popped, At
<1>4. frames[1] \in Frame /\ frames[1].who \in People
    BY <1>1, <1>3, FrameIs
<1>5. \A i \in At(frames') : i + 1 \in At(frames) /\ frames'[i] = frames[i + 1]
  <2>1. frames \in Seq(Frame) /\ frames' \in Seq(Frame) /\ Popped(frames, frames')
      BY <1>1, <1>2, <1>3
  <2> QED BY <2>1, PoppedIs
<1>6. World'
  <2>1. up => Good(frames', members)
      BY <1>1, <1>2, <1>3, PoppedGood DEF IInv, World
  <2> QED BY <1>5, <2>1 DEF IInv, World
<1>7. /\ "engine" \in Tasks /\ "chat" \in Tasks /\ \A t \in Tasks : t \in {"engine", "chat"}
      /\ tasks \in [Tasks -> Task]
    BY DEF Tasks, IInv, Work
<1>8. /\ tasks' \in [Tasks -> Task] /\ tasks'["engine"] = k
      /\ tasks'["chat"] = [tasks["chat"] EXCEPT !.fresh = FALSE]
    BY <1>1, <1>7, StaleIs
<1>9. Work'
  <2>1. Ok("engine", k, Caught', frames', members')
      BY <1>7, PlainOk
  <2>2. Ok("chat", tasks["chat"], Caught, frames, members)
      BY <1>7 DEF IInv, Work
  <2>3. Ok("chat", tasks'["chat"], Caught', frames', members')
      BY <1>7, <1>8, <2>2, StaleOk DEF Ok
  <2> QED BY <1>7, <1>8, <2>1, <2>3 DEF Work
<1>10. Caught => Caught' /\ Live(frames) = At(frames)
  <2> SUFFICES ASSUME Caught PROVE Caught' /\ Live(frames) = At(frames)
      OBVIOUS
  <2>1. up /\ Live(frames) = At(frames)
      BY <1>1, CaughtIs
  <2>2. \A i \in At(frames) : frames[i].kind # "connected"
      BY <1>1, <2>1, AllLive
  <2>3. \A i \in At(frames') : frames'[i].kind # "connected"
      BY <1>5, <2>2
  <2>4. ~\E i \in DOMAIN frames' : frames'[i].kind = "connected"
      BY <1>2, <2>3, AllLive
  <2> QED BY <2>1, <2>4 DEF Caught
<1> QED BY <1>1, <1>2, <1>3, <1>4, <1>6, <1>8, <1>9, <1>10 DEF Refreshes

LEMMA PoppedAdds ==
    ASSUME NEW fs \in Seq(Frame), NEW gs \in Seq(Frame), Popped(fs, gs), fs[1].kind # "added"
    PROVE  Adds(fs) => Adds(gs)
<1>1. \A i \in At(fs) : i # 1 => i - 1 \in At(gs) /\ gs[i - 1] = fs[i]
    BY PoppedIs
<1> QED BY <1>1 DEF Adds

\* How the frame that is taken moves who was in, as the count does.
LEMMA TakenIn ==
    ASSUME NEW fs \in Seq(Frame), NEW gs \in Seq(Frame), NEW ms, Popped(fs, gs),
           Live(fs) = At(fs), Good(fs, ms), NEW B \in SUBSET People, Opens(B, fs, ms)
    PROVE  \E C \in SUBSET People :
               /\ Opens(C, gs, ms)
               /\ fs[1].kind = "added" => Cardinality(C) = Cardinality(B) + 1
               /\ fs[1].kind = "removed" => Cardinality(C) = Less(Cardinality(B))
               /\ ~Counted(fs[1]) => C = B
<1> DEFINE u == fs[1].who
<1>1. 1 \in At(fs) /\ u \in People
    BY PoppedIs, FrameIs
<1>2. IsFiniteSet(B) /\ Cardinality(B) \in Nat
    BY PeopleFinite
<1>3. \A j \in At(fs) : ~(j < 1)
    BY DEF At
<1>4. Counted(fs[1]) => (u \in B <=> fs[1].kind = "removed")
    BY <1>1, <1>3 DEF Opens, CountedOf
<1> HIDE DEF u
<1>5. CASE fs[1].kind = "added"
  <2> DEFINE C == B \cup {u}
  <2>1. u \notin B
      BY <1>4, <1>5 DEF Counted
  <2>2. Cardinality(C) = Cardinality(B) + 1
      BY <1>2, <2>1, FS_AddElement
  <2>3. C \in SUBSET People /\ u \in C /\ \A p \in People : p # u => (p \in C <=> p \in B)
      BY <1>1
  <2> HIDE DEF C
  <2>4. Opens(C, gs, ms)
      BY <1>5, <2>3, PoppedOpens DEF u, Counted
  <2> QED BY <1>5, <2>2, <2>3, <2>4 DEF Counted
<1>6. CASE fs[1].kind = "removed"
  <2> DEFINE C == B \ {u}
  <2>1. u \in B
      BY <1>4, <1>6 DEF Counted
  <2>2. Cardinality(C) = Cardinality(B) - 1 /\ IsFiniteSet(C)
      BY <1>2, <2>1, FS_RemoveElement
  <2>3. Cardinality(C) \in Nat
      BY <2>2, FS_CardinalityType
  <2>4. C \in SUBSET People /\ u \notin C /\ \A p \in People : p # u => (p \in C <=> p \in B)
      BY <1>1
  <2> HIDE DEF C
  <2>5. Cardinality(C) = Less(Cardinality(B))
      BY <1>2, <2>2, <2>3 DEF Less
  <2>6. Opens(C, gs, ms)
      BY <1>6, <2>4, PoppedOpens DEF u, Counted
  <2> QED BY <1>6, <2>4, <2>5, <2>6 DEF Counted
<1>7. CASE ~Counted(fs[1])
  <2>1. Opens(B, gs, ms)
      BY <1>7, PoppedOpens
  <2> QED BY <1>7, <2>1 DEF Counted
<1> QED BY <1>5, <1>6, <1>7 DEF Counted

\* What is sure of the count and of our role after a frame.
LEMMA TakenSure ==
    ASSUME IInv, Popped(frames, frames'), frames' \in Seq(Frame), UNCHANGED <<members, sure>>,
           Caught => Caught' /\ Live(frames) = At(frames),
           frames[1].kind = "added" => count' = count + 1,
           frames[1].kind = "removed" => count' = Less(count),
           ~Counted(frames[1]) => count' = count,
           myRole' = IF Is(frames[1], "role", Me) THEN frames[1].role ELSE myRole,
           sure.list => Refreshes(tasks'["engine"]) \/ Follows(list', frames', members)
    PROVE  Sure'
<1>1. frames \in Seq(Frame)
    BY DEF IInv, Typed
<1>2. ASSUME Caught PROVE Good(frames, members)
    BY <1>2 DEF Caught, IInv, World
<1>3. ASSUME sure.count
      PROVE  \E C \in SUBSET People : count' = Cardinality(C) /\ Opens(C, frames', members)
  <2>1. PICK B \in SUBSET People : count = Cardinality(B) /\ Opens(B, frames, members)
      BY <1>3 DEF IInv, Sure
  <2>2. Caught
      BY <1>3 DEF IInv, Sure
  <2>3. PICK C \in SUBSET People :
               /\ Opens(C, frames', members)
               /\ frames[1].kind = "added" => Cardinality(C) = Cardinality(B) + 1
               /\ frames[1].kind = "removed" => Cardinality(C) = Less(Cardinality(B))
               /\ ~Counted(frames[1]) => C = B
      BY <1>1, <1>2, <2>1, <2>2, TakenIn
  <2>4. count' = Cardinality(C)
      BY <2>1, <2>3 DEF Counted
  <2> QED BY <2>3, <2>4
<1>4. ASSUME sure.role
      PROVE  OwnRole(myRole', frames', members)
  <2>1. Caught /\ OwnRole(myRole, frames, members)
      BY <1>4 DEF IInv, Sure
  <2>2. \A i \in At(frames) : Of(frames[i], Me) => frames[i].kind = "role"
      BY DEF IInv, World
  <2> QED BY <1>1, <1>2, <2>1, <2>2, PoppedRole
<1>5. sure.list \/ sure.count \/ sure.role => Caught'
    BY DEF IInv, Sure
<1> QED BY <1>3, <1>4, <1>5 DEF Sure

LEMMA OnConnectedStep == IInv /\ OnConnected => IInv'
<1> SUFFICES ASSUME IInv, OnConnected PROVE IInv'
    OBVIOUS
<1> DEFINE k == [Idle EXCEPT !.pc = "list"]
<1>1. Handle("connected", k) /\ UNCHANGED <<members, up, store, told, added, loop, message, heard, sure, faults>>
    BY DEF OnConnected, retry, counters
<1>2. k \in Task /\ k.pc = "list" /\ k.phones = {}
    BY BegunIs DEF Steps
<1> HIDE DEF k
<1>3. /\ World' /\ Work' /\ tasks'["engine"] = k
      /\ frames' \in Seq(Frame) /\ Popped(frames, frames')
      /\ 1 \in At(frames) /\ frames[1].kind = "connected"
      /\ ~Refreshes(tasks["engine"])
      /\ Caught => Live(frames) = At(frames)
    BY <1>1, <1>2, HandleStep
<1>4. Typed'
    BY <1>1, <1>3 DEF IInv, Typed, store
<1>5. ~Caught
  <2>1. 1 >= 1
      OBVIOUS
  <2> QED BY <1>3, <2>1 DEF Live
<1>6. Sure'
    BY <1>1, <1>5 DEF IInv, Sure
<1>7. Tried'
    BY <1>1, TriedStep
<1>8. Awaited'
  <2>1. Adds(frames) => Adds(frames')
      BY <1>3, PoppedAdds DEF IInv, Typed
  <2>2. Awaited /\ added \in Nat
      BY DEF IInv, Typed
  <2> QED BY <1>1, <1>3, <2>1, <2>2, AwaitedStep
<1> QED BY <1>3, <1>4, <1>6, <1>7, <1>8 DEF IInv

LEMMA OnAddedStep == IInv /\ OnAdded => IInv'
<1> SUFFICES ASSUME IInv, OnAdded PROVE IInv'
    OBVIOUS
<1> DEFINE k == Refreshing(Head(frames).who)
<1>1. /\ Handle("added", k)
      /\ list' = [list EXCEPT ![Head(frames).who] = IF Head(frames).role = "none" THEN @ ELSE Head(frames).role]
      /\ count' = count + 1
      /\ UNCHANGED <<members, up, myRole, told, added, loop, message, heard, sure, faults>>
    BY DEF OnAdded, Refreshing, retry, counters
<1>2. Head(frames) \in Frame
    BY HeadTailProperties DEF IInv, Typed, OnAdded, Handle
<1>3. k \in Task /\ k.pc = "refresh" /\ k.phones = {}
    BY <1>2, RefreshingIs DEF Frame
<1> HIDE DEF k
<1>4. /\ World' /\ Work' /\ tasks'["engine"] = k
      /\ frames' \in Seq(Frame) /\ Popped(frames, frames')
      /\ frames[1].kind = "added"
      /\ Caught => Caught' /\ Live(frames) = At(frames)
    BY <1>1, <1>3, HandleStep
<1>5. Typed'
  <2>1. list' \in [People -> Roles]
      BY <1>1, <1>2 DEF IInv, Typed, Frame
  <2> QED BY <1>1, <1>4, <2>1 DEF IInv, Typed
<1>6. Refreshes(tasks'["engine"])
    BY <1>3, <1>4 DEF Refreshes
<1>7. Sure'
    BY <1>1, <1>4, <1>6, TakenSure DEF Counted, Is
<1>8. Tried'
    BY <1>1, TriedStep
<1>9. Awaited'
    BY <1>1, <1>6 DEF IInv, Awaited, Awaits
<1> QED BY <1>4, <1>5, <1>7, <1>8, <1>9 DEF IInv

\* What is sure of the list after a removal or a role.
LEMMA TakenList ==
    ASSUME IInv, Popped(frames, frames'), frames' \in Seq(Frame), ~Refreshes(tasks["engine"]),
           1 \in At(frames), sure.list, Live(frames) = At(frames), NEW N,
           frames[1].kind \in {"removed", "role"},
           \A u \in People : u # frames[1].who => N[u] = list[u],
           frames[1].kind = "removed" => N[frames[1].who] = "none",
           frames[1].kind = "role" => N[frames[1].who] = IF list[frames[1].who] = "none" THEN "none" ELSE frames[1].role
    PROVE  Follows(N, frames', members)
<1>1. frames \in Seq(Frame) /\ Good(frames, members) /\ Follows(list, frames, members)
    BY DEF IInv, Typed, Sure, World, Caught
<1>2. frames[1].kind = "role" => frames[1].role # "none"
    BY DEF IInv, World
<1> QED BY <1>1, <1>2, PoppedFollows

LEMMA OnRemovedStep == IInv /\ OnRemoved => IInv'
<1> SUFFICES ASSUME IInv, OnRemoved PROVE IInv'
    OBVIOUS
<1>1. /\ Handle("removed", Idle)
      /\ list' = [list EXCEPT ![Head(frames).who] = "none"]
      /\ count' = Less(count)
      /\ UNCHANGED <<members, up, myRole, told, added, loop, message, heard, sure, faults>>
    BY DEF OnRemoved, retry, counters
<1>2. /\ World' /\ Work' /\ tasks'["engine"] = Idle
      /\ frames' \in Seq(Frame) /\ Popped(frames, frames')
      /\ 1 \in At(frames) /\ frames[1] = Head(frames) /\ frames[1].kind = "removed"
      /\ frames[1] \in Frame /\ frames[1].who \in People
      /\ ~Refreshes(tasks["engine"])
      /\ Caught => Caught' /\ Live(frames) = At(frames)
    BY <1>1, IdleIs, HandleStep
<1>3. Typed'
  <2>1. list' \in [People -> Roles] /\ count' \in Nat
      BY <1>1, <1>2 DEF IInv, Typed, Less, Roles
  <2> QED BY <1>1, <1>2, <2>1 DEF IInv, Typed
<1>4. sure.list => Follows(list', frames', members)
  <2>1. \A u \in People : list'[u] = IF u = frames[1].who THEN "none" ELSE list[u]
      BY <1>1, <1>2 DEF IInv, Typed
  <2>2. sure.list => Caught
      BY DEF IInv, Sure
  <2> QED BY <1>2, <2>1, <2>2, TakenList
<1>5. Sure'
    BY <1>1, <1>2, <1>4, TakenSure DEF Counted, Is
<1>6. Tried'
    BY <1>1, TriedStep
<1>7. Awaited'
  <2>1. Adds(frames) => Adds(frames')
      BY <1>2, PoppedAdds DEF IInv, Typed
  <2>2. Awaited /\ added \in Nat
      BY DEF IInv, Typed
  <2> QED BY <1>1, <1>2, <2>1, <2>2, AwaitedStep
<1> QED BY <1>2, <1>3, <1>5, <1>6, <1>7 DEF IInv

LEMMA OnRoleStep == IInv /\ OnRole => IInv'
<1> SUFFICES ASSUME IInv, OnRole PROVE IInv'
    OBVIOUS
<1>1. /\ Handle("role", Idle)
      /\ list' = WithRole(Head(frames).who, Head(frames).role)
      /\ myRole' = IF Head(frames).who = Me THEN Head(frames).role ELSE myRole
      /\ UNCHANGED <<members, up, count, told, added, loop, message, heard, sure, faults>>
    BY DEF OnRole, retry, counters
<1>2. /\ World' /\ Work' /\ tasks'["engine"] = Idle
      /\ frames' \in Seq(Frame) /\ Popped(frames, frames')
      /\ 1 \in At(frames) /\ frames[1] = Head(frames) /\ frames[1].kind = "role"
      /\ frames[1] \in Frame /\ frames[1].who \in People
      /\ ~Refreshes(tasks["engine"])
      /\ Caught => Caught' /\ Live(frames) = At(frames)
    BY <1>1, IdleIs, HandleStep
<1>3. frames[1].role \in Roles \ {"none"}
    BY <1>2 DEF IInv, World, Frame
<1>4. \A u \in People :
          list'[u] = IF u # frames[1].who THEN list[u] ELSE IF list[u] = "none" THEN "none" ELSE frames[1].role
    BY <1>1, <1>2 DEF IInv, Typed, WithRole
<1>5. Typed'
  <2>1. list' \in [People -> Roles] /\ myRole' \in Roles \ {"none"}
      BY <1>1, <1>2, <1>3 DEF IInv, Typed, WithRole
  <2> QED BY <1>1, <1>2, <2>1 DEF IInv, Typed
<1>6. sure.list => Follows(list', frames', members)
  <2>1. sure.list => Caught
      BY DEF IInv, Sure
  <2> QED BY <1>2, <1>4, <2>1, TakenList
<1>7. Sure'
    BY <1>1, <1>2, <1>6, TakenSure DEF Counted, Is
<1>8. Tried'
    BY <1>1, TriedStep
<1>9. Awaited'
  <2>1. Adds(frames) => Adds(frames')
      BY <1>2, PoppedAdds DEF IInv, Typed
  <2>2. Awaited /\ added \in Nat
      BY DEF IInv, Typed
  <2> QED BY <1>1, <1>2, <2>1, <2>2, AwaitedStep
<1> QED BY <1>2, <1>5, <1>7, <1>8, <1>9 DEF IInv

-----------------------------------------------------------------------------
(* What the event loop and a handler both do *)

SureType == [list : BOOLEAN, count : BOOLEAN, role : BOOLEAN]

LEMMA ListSure ==
    ASSUME NEW s \in SureType, NEW b \in BOOLEAN
    PROVE  LET n == [s EXCEPT !.list = b]
           IN  n \in SureType /\ n.list = b /\ n.count = s.count /\ n.role = s.role
  BY DEF SureType

LEMMA CountSure ==
    ASSUME NEW s \in SureType, NEW b \in BOOLEAN
    PROVE  LET n == [s EXCEPT !.count = b]
           IN  n \in SureType /\ n.list = s.list /\ n.count = b /\ n.role = s.role
  BY DEF SureType

LEMMA RoleSure ==
    ASSUME NEW s \in SureType, NEW b \in BOOLEAN
    PROVE  LET n == [s EXCEPT !.role = b]
           IN  n \in SureType /\ n.list = s.list /\ n.count = s.count /\ n.role = b
  BY DEF SureType

SureOfGroup(s, r, c) == [s EXCEPT !.role = r, !.count = c]
SureOfList(s, l, c) == [s EXCEPT !.list = l, !.count = c]
SureOfRemoval(s, l) == [s EXCEPT !.count = FALSE, !.list = @ /\ l]

LEMMA SureOfGroupIs ==
    ASSUME NEW s \in SureType, NEW x \in BOOLEAN, NEW y \in BOOLEAN
    PROVE  LET n == SureOfGroup(s, x, y)
           IN  n \in SureType /\ n.list = s.list /\ n.count = y /\ n.role = x
<1> DEFINE a == [s EXCEPT !.role = x]
           b == [a EXCEPT !.count = y]
<1>1. SureOfGroup(s, x, y) = b
    BY DEF SureOfGroup
<1>2. a \in SureType /\ a.list = s.list /\ a.role = x
    BY RoleSure
<1> HIDE DEF a
<1>3. b \in SureType /\ b.list = a.list /\ b.count = y /\ b.role = a.role
    BY <1>2, CountSure
<1> HIDE DEF b
<1> QED BY <1>1, <1>2, <1>3

LEMMA SureOfListIs ==
    ASSUME NEW s \in SureType, NEW x \in BOOLEAN, NEW y \in BOOLEAN
    PROVE  LET n == SureOfList(s, x, y)
           IN  n \in SureType /\ n.list = x /\ n.count = y /\ n.role = s.role
<1> DEFINE a == [s EXCEPT !.list = x]
           b == [a EXCEPT !.count = y]
<1>1. SureOfList(s, x, y) = b
    BY DEF SureOfList
<1>2. a \in SureType /\ a.list = x /\ a.role = s.role
    BY ListSure
<1> HIDE DEF a
<1>3. b \in SureType /\ b.list = a.list /\ b.count = y /\ b.role = a.role
    BY <1>2, CountSure
<1> HIDE DEF b
<1> QED BY <1>1, <1>2, <1>3

LEMMA SureOfRemovalIs ==
    ASSUME NEW s \in SureType, NEW x \in BOOLEAN
    PROVE  LET n == SureOfRemoval(s, x)
           IN  n \in SureType /\ n.list = (s.list /\ x) /\ n.count = FALSE /\ n.role = s.role
<1> DEFINE l == s.list /\ x
           a == [s EXCEPT !.count = FALSE]
           b == [a EXCEPT !.list = l]
<1>1. a \in SureType /\ a.list = s.list /\ a.count = FALSE /\ a.role = s.role
    BY CountSure
<1>2. SureOfRemoval(s, x) = b
    BY DEF SureOfRemoval, SureType
<1>3. l \in BOOLEAN
    OBVIOUS
<1> HIDE DEF a, l
<1>4. b \in SureType /\ b.list = l /\ b.count = a.count /\ b.role = a.role
    BY <1>1, <1>3, ListSure
<1> HIDE DEF b
<1> QED BY <1>1, <1>2, <1>4 DEF l

LEMMA TaskIs ==
    ASSUME IInv, NEW t \in Tasks
    PROVE  /\ tasks[t] \in Task /\ Ok(t, tasks[t], Caught, frames, members)
           /\ tasks[t].seen \in [People -> Roles] /\ tasks[t].who \in People
           /\ tasks[t].fresh \in BOOLEAN /\ tasks[t].exact \in BOOLEAN /\ tasks[t].phones \in SUBSET Phones
           /\ tasks \in [Tasks -> Task] /\ "engine" \in Tasks /\ "chat" \in Tasks
<1>1. tasks[t] \in Task /\ Ok(t, tasks[t], Caught, frames, members) /\ tasks \in [Tasks -> Task]
    BY DEF IInv, Work
<1>2. "engine" \in Tasks /\ "chat" \in Tasks
    BY DEF Tasks
<1> QED BY <1>1, <1>2 DEF Task

LEMMA FetchStep ==
    ASSUME IInv, NEW t \in Tasks, NEW from, NEW to, Fetch(t, from, to),
           <<from, to>> \in {<<"list", "writeList">>, <<"refresh", "writeMembers">>}
    PROVE  IInv'
<1> DEFINE x == ~\E i \in DOMAIN frames : Counted(frames[i])
           k == Fetched(tasks[t], to, members, Caught, x)
<1>1. /\ tasks[t].pc = from /\ tasks' = [tasks EXCEPT ![t] = k] /\ Stays
      /\ UNCHANGED <<store, told, added, loop, message, heard, sure, faults>>
    BY DEF Fetch, Fetched, Stays, retry, counters
<1>2. /\ to \in Steps /\ Caught \in BOOLEAN /\ x \in BOOLEAN
      /\ members \in [People -> Roles] /\ frames \in Seq(Frame)
    BY DEF Steps, Caught, IInv, Typed
<1> HIDE DEF x
<1>3. k \in Task /\ k.pc = to /\ k.seen = members /\ k.fresh = Caught /\ k.exact = x /\ k.phones = tasks[t].phones
  <2>1. tasks[t] \in Task
      BY TaskIs
  <2> QED BY <1>2, <2>1, FetchedIs
<1>4. Caught => Live(frames) = At(frames) /\ Good(frames, members) /\ DOMAIN frames = At(frames)
    BY <1>2, CaughtIs DEF IInv, World
<1>5. Ok(t, k, Caught, frames, members)
  <2>1. Basic(t, k)
      BY <1>1, <1>3, TaskIs DEF Basic, Ok, IInv, World
  <2>2. Current(k, Caught, frames, members)
    <3> HIDE DEF k
    <3> SUFFICES ASSUME Caught
                 PROVE  /\ k.exact => Opens(In(members), frames, members)
                        /\ OwnRole(members[Me], frames, members)
                        /\ Follows(members, frames, members)
        BY <1>3 DEF Current
    <3>1. k.exact => \A i \in At(frames) : ~Counted(frames[i])
        BY <1>3, <1>4 DEF x
    <3> QED BY <1>2, <1>4, <3>1, AskedNow
  <2>3. Asked(k, frames)
      BY <1>3 DEF Asked
  <2> QED BY <2>1, <2>2, <2>3 DEF Ok
<1> HIDE DEF k
<1>6. /\ World' /\ Work' /\ tasks'[t] = k
      /\ \A u \in Tasks \ {t} : tasks'[u] = tasks[u]
    BY <1>1, <1>3, <1>5, StaysWork
<1>7. Typed'
    BY <1>1 DEF IInv, Typed, Stays, store
<1>8. Refreshes(tasks["engine"]) => Refreshes(tasks'["engine"])
    BY <1>1, <1>3, <1>6 DEF Refreshes, Tasks
<1>9. Sure'
    BY <1>1, <1>8, StaysSure
<1>10. Tried'
    BY <1>1, TriedStep
<1>11. Awaited'
  <2>1. Awaited /\ added \in Nat
      BY DEF IInv, Typed
  <2> QED BY <1>1, <1>8, <2>1, AwaitedStep DEF Stays
<1> QED BY <1>6, <1>7, <1>9, <1>10, <1>11 DEF IInv

LEMMA RefusedStep ==
    ASSUME IInv, NEW t \in Tasks, NEW from \in {"list", "refresh"}, Refused(t, from)
    PROVE  IInv'
<1>1. /\ tasks[t].pc = from /\ tasks' = [tasks EXCEPT ![t] = Idle] /\ Stays
      /\ Ended(t) /\ sure' = [sure EXCEPT !.list = @ /\ t # "engine"]
      /\ faults' = faults + 1 /\ UNCHANGED <<store, told, loop, message, heard>>
    BY DEF Refused, Fault, Stays
<1>2. Ok(t, Idle, Caught, frames, members)
    BY IdleIs, PlainOk
<1>3. /\ World' /\ Work' /\ tasks'[t] = Idle
      /\ \A u \in Tasks \ {t} : tasks'[u] = tasks[u]
    BY <1>1, <1>2, IdleIs, StaysWork
<1>4. /\ sure' \in SureType /\ sure'.list = (sure.list /\ t # "engine")
      /\ sure'.count = sure.count /\ sure'.role = sure.role
  <2>1. sure \in SureType /\ (sure.list /\ t # "engine") \in BOOLEAN
      BY DEF IInv, Typed, SureType
  <2>2. sure' = [sure EXCEPT !.list = (sure.list /\ t # "engine")]
      BY <1>1, <2>1 DEF SureType
  <2> QED BY <2>1, <2>2, ListSure
<1>5. added' \in Nat /\ added' >= added
    BY <1>1 DEF Ended, IInv, Typed
<1>6. Typed'
    BY <1>1, <1>4, <1>5 DEF IInv, Typed, Stays, store, SureType
<1>7. t # "engine" => tasks'["engine"] = tasks["engine"]
    BY <1>3 DEF Tasks
<1>8. Sure'
    BY <1>1, <1>4, <1>7, StaysSure
<1>9. Tried'
    BY <1>1, TriedStep
<1>10. Awaited'
  <2>1. Refreshes(tasks["engine"]) => Refreshes(tasks'["engine"]) \/ added' > 0
      BY <1>1, <1>7 DEF Refreshes, Ended, IInv, Typed
  <2>2. Awaited /\ added \in Nat
      BY DEF IInv, Typed
  <2> QED BY <1>1, <1>5, <2>1, <2>2, AwaitedStep DEF Stays
<1> QED BY <1>3, <1>6, <1>8, <1>9, <1>10 DEF IInv

LEMMA WriteGroupStep ==
    ASSUME IInv, NEW t \in Tasks, WriteGroup(t)
    PROVE  IInv'
<1> DEFINE h == tasks[t]
<1>1. /\ h.pc = "writeList" /\ tasks' = [tasks EXCEPT ![t] = Idle] /\ Stays
      /\ count' = Size(h.seen) /\ myRole' = h.seen[Me]
      /\ sure' = SureOfGroup(sure, h.fresh, h.fresh /\ h.exact)
      /\ UNCHANGED <<list, told, added, loop, message, heard, faults>>
    BY DEF WriteGroup, SureOfGroup, Stays, retry, counters
<1>2. /\ h \in Task /\ Ok(t, h, Caught, frames, members) /\ h.seen \in [People -> Roles]
      /\ h.fresh \in BOOLEAN /\ h.exact \in BOOLEAN
    BY TaskIs
<1> HIDE DEF h
<1>3. Ok(t, Idle, Caught, frames, members)
    BY IdleIs, PlainOk
<1>4. /\ World' /\ Work' /\ tasks'[t] = Idle
      /\ \A u \in Tasks \ {t} : tasks'[u] = tasks[u]
    BY <1>1, <1>3, IdleIs, StaysWork
<1>5. /\ sure' \in SureType /\ sure'.list = sure.list
      /\ sure'.count = (h.fresh /\ h.exact) /\ sure'.role = h.fresh
  <2>1. sure \in SureType /\ (h.fresh /\ h.exact) \in BOOLEAN
      BY <1>2 DEF IInv, Typed, SureType
  <2> QED BY <1>1, <1>2, <2>1, SureOfGroupIs
<1>6. h.seen[Me] # "none" /\ h.seen[Me] \in Roles
    BY <1>1, <1>2 DEF Ok, Basic, People
<1>7. Typed'
  <2>1. count' \in Nat
      BY <1>1, <1>2, SizeIs
  <2> QED BY <1>1, <1>5, <1>6, <2>1 DEF IInv, Typed, Stays, SureType
<1>8. Refreshes(tasks["engine"]) => Refreshes(tasks'["engine"])
    BY <1>1, <1>4 DEF Refreshes, Tasks, h
<1>9. Sure'
  <2>1. Caught' = Caught /\ frames' = frames /\ members' = members
      BY <1>1 DEF Stays, Caught
  <2>2. h.fresh => /\ Caught /\ OwnRole(h.seen[Me], frames, members)
                   /\ h.exact => Opens(In(h.seen), frames, members)
      BY <1>1, <1>2 DEF Ok, Current, Writing
  <2>3. In(h.seen) \in SUBSET People /\ count' = Cardinality(In(h.seen))
      BY <1>1, <1>2, SizeIs DEF Size
  <2>4. sure'.count => \E B \in SUBSET People : count' = Cardinality(B) /\ Opens(B, frames, members)
      BY <1>5, <2>2, <2>3
  <2>5. sure'.list => Caught /\ (Refreshes(tasks'["engine"]) \/ Follows(list, frames, members))
      BY <1>5, <1>8 DEF IInv, Sure
  <2> QED BY <1>1, <1>5, <2>1, <2>2, <2>4, <2>5 DEF Sure
<1>10. Tried'
    BY <1>1, TriedStep
<1>11. Awaited'
  <2>1. Awaited /\ added \in Nat
      BY DEF IInv, Typed
  <2> QED BY <1>1, <1>8, <2>1, AwaitedStep DEF Stays
<1> QED BY <1>4, <1>7, <1>9, <1>10, <1>11 DEF IInv

LEMMA WriteMembersStep ==
    ASSUME IInv, NEW t \in Tasks, WriteMembers(t)
    PROVE  IInv'
<1> DEFINE h == tasks[t]
<1>1. /\ h.pc = "writeMembers" /\ tasks' = [tasks EXCEPT ![t] = Idle] /\ Stays
      /\ list' = h.seen /\ count' = Size(h.seen)
      /\ sure' = SureOfList(sure, h.fresh, h.fresh /\ h.exact)
      /\ Ended(t) /\ UNCHANGED <<myRole, told, loop, message, heard, faults>>
    BY DEF WriteMembers, Replaced, Recounted, SureOfList, Stays, counters
<1>2. /\ h \in Task /\ Ok(t, h, Caught, frames, members) /\ h.seen \in [People -> Roles]
      /\ h.fresh \in BOOLEAN /\ h.exact \in BOOLEAN
    BY TaskIs
<1>3. added' \in Nat /\ added' >= added /\ (t = "engine" => added' > 0)
    BY <1>1 DEF Ended, IInv, Typed
<1> HIDE DEF h
<1>4. Ok(t, Idle, Caught, frames, members)
    BY IdleIs, PlainOk
<1>5. /\ World' /\ Work' /\ tasks'[t] = Idle
      /\ \A u \in Tasks \ {t} : tasks'[u] = tasks[u]
    BY <1>1, <1>4, IdleIs, StaysWork
<1>6. /\ sure' \in SureType /\ sure'.list = h.fresh
      /\ sure'.count = (h.fresh /\ h.exact) /\ sure'.role = sure.role
  <2>1. sure \in SureType /\ (h.fresh /\ h.exact) \in BOOLEAN
      BY <1>2 DEF IInv, Typed, SureType
  <2> QED BY <1>1, <1>2, <2>1, SureOfListIs
<1>7. Typed'
  <2>1. count' \in Nat
      BY <1>1, <1>2, SizeIs
  <2> QED BY <1>1, <1>2, <1>3, <1>6, <2>1 DEF IInv, Typed, Stays, SureType
<1>8. Sure'
  <2>1. Caught' = Caught /\ frames' = frames /\ members' = members
      BY <1>1 DEF Stays, Caught
  <2>2. h.fresh => /\ Caught /\ Follows(h.seen, frames, members)
                   /\ h.exact => Opens(In(h.seen), frames, members)
      BY <1>1, <1>2 DEF Ok, Current, Writing
  <2>3. In(h.seen) \in SUBSET People /\ count' = Cardinality(In(h.seen))
      BY <1>1, <1>2, SizeIs DEF Size
  <2>4. sure'.count => \E B \in SUBSET People : count' = Cardinality(B) /\ Opens(B, frames, members)
      BY <1>6, <2>2, <2>3
  <2>5. sure'.role => Caught /\ OwnRole(myRole, frames, members)
      BY <1>6 DEF IInv, Sure
  <2> QED BY <1>1, <1>6, <2>1, <2>2, <2>4, <2>5 DEF Sure
<1>9. Tried'
    BY <1>1, TriedStep
<1>10. Awaited'
  <2>1. Refreshes(tasks["engine"]) => Refreshes(tasks'["engine"]) \/ added' > 0
      BY <1>3, <1>5 DEF Tasks
  <2>2. Awaited /\ added \in Nat
      BY DEF IInv, Typed
  <2> QED BY <1>1, <1>3, <2>1, <2>2, AwaitedStep DEF Stays
<1> QED BY <1>5, <1>7, <1>8, <1>9, <1>10 DEF IInv

-----------------------------------------------------------------------------
(* The user's commands *)

\* The user's handler goes on, and nothing else happens.
LEMMA ChatStays ==
    ASSUME IInv, Stays, NEW k \in Task, tasks' = [tasks EXCEPT !["chat"] = k],
           Ok("chat", k, Caught, frames, members), Tried',
           told' \in [Phones -> {"nothing", "added", "already", "refused"}], faults' \in Nat,
           UNCHANGED <<store, added, loop, message, heard, sure>>
    PROVE  IInv'
<1>1. "chat" \in Tasks /\ "engine" \in Tasks \ {"chat"}
    BY DEF Tasks
<1>2. World' /\ Work' /\ tasks'["engine"] = tasks["engine"]
    BY <1>1, StaysWork
<1>3. Typed'
    BY DEF IInv, Typed, Stays, store
<1>4. Sure'
    BY <1>2, StaysSure
<1>5. Awaited'
  <2>1. Awaited /\ added \in Nat
      BY DEF IInv, Typed
  <2> QED BY <1>2, <2>1, AwaitedStep DEF Stays
<1> QED BY <1>2, <1>3, <1>4, <1>5 DEF IInv

LEMMA LookStep == IInv /\ Look => IInv'
<1> SUFFICES ASSUME IInv, Look PROVE IInv'
    OBVIOUS
<1>1. PICK pc \in {"refresh", "list"} : tasks' = Chat([Idle EXCEPT !.pc = pc])
    BY DEF Look
<1> DEFINE k == [Idle EXCEPT !.pc = pc]
<1>2. /\ tasks' = [tasks EXCEPT !["chat"] = k] /\ Stays
      /\ UNCHANGED <<store, told, added, loop, message, heard, sure, faults>>
    BY <1>1 DEF Look, Chat, Stays, retry
<1>3. k \in Task /\ k.pc = pc /\ k.phones = {}
    BY BegunIs DEF Steps
<1> HIDE DEF k
<1>4. Ok("chat", k, Caught, frames, members)
    BY <1>3, PlainOk DEF Tasks
<1>5. Tried'
    BY <1>2, TriedStep
<1> QED BY <1>2, <1>3, <1>4, <1>5, ChatStays DEF IInv, Typed

LEMMA AddStep ==
    ASSUME IInv, NEW phones \in SUBSET Phones, Add(phones)
    PROVE  IInv'
<1> DEFINE k == Batching(phones)
<1>1. /\ tasks' = [tasks EXCEPT !["chat"] = k] /\ Stays
      /\ told' = [p \in Phones |-> "nothing"]
      /\ UNCHANGED <<store, added, loop, message, heard, sure, faults>>
    BY DEF Add, Batching, Chat, Stays, retry
<1>2. k \in Task /\ k.pc = "batch"
    BY BatchingIs
<1> HIDE DEF k
<1>3. Ok("chat", k, Caught, frames, members)
    BY <1>2, PlainOk DEF Tasks
<1>4. Tried'
    BY <1>1 DEF Tried, Phones
<1> QED BY <1>1, <1>2, <1>3, <1>4, ChatStays DEF IInv, Typed

\* A command that the server carries out, and the row that is written after.
LEMMA CommandStep ==
    ASSUME IInv, NEW k \in Task, NEW fs \in Seq(Frame), Tell(fs, [tasks EXCEPT !["chat"] = k]),
           Tells(fs, members, members'), members' \in [People -> Roles], members'[Me] # "none",
           Basic("chat", k), k.pc \notin Writing,
           k.pc = "removed" => \E i \in At(fs) : Is(fs[i], "removed", k.who),
           k.pc = "role" => \E i \in At(fs) : Is(fs[i], "role", k.who),
           Size(members') <= Size(members) \/ Adds(fs), Tried',
           told' \in [Phones -> {"nothing", "added", "already", "refused"}], faults' \in Nat,
           UNCHANGED <<up, store, added, loop, message>>
    PROVE  IInv'
<1> DEFINE ts == [tasks EXCEPT !["chat"] = k]
<1>1. /\ ts \in [Tasks -> Task] /\ ts["chat"] = k /\ ts["engine"] = tasks["engine"]
    BY DEF IInv, Work, Tasks
<1>2. Tell(fs, ts)
    OBVIOUS
<1> HIDE DEF ts
<1>3. Typed'
    BY <1>2, TellTyped DEF IInv
<1>4. up => Ok("chat", k, Caught', frames', members')
  <2> SUFFICES ASSUME up PROVE Ok("chat", k, Caught', frames', members')
      OBVIOUS
  <2>1. frames' = frames \o fs /\ frames \in Seq(Frame)
      BY <1>2 DEF Tell, IInv, Typed
  <2>2. /\ k.pc = "removed" => \E i \in At(frames') : Is(frames'[i], "removed", k.who)
        /\ k.pc = "role" => \E i \in At(frames') : Is(frames'[i], "role", k.who)
      BY <2>1, TellsGrown
  <2>3. Current(k, Caught', frames', members')
      BY DEF Current
  <2> QED BY <2>2, <2>3 DEF Ok, Asked
<1>5. Size(members') < MinMembers \/ ~(Size(members) < MinMembers) \/ Adds(fs)
  <2>1. Size(members) \in Nat /\ Size(members') \in Nat
      BY SizeIs DEF IInv, Typed
  <2> QED BY <2>1, BoundsAssumption
<1>6. World' /\ Work' /\ Sure' /\ Awaited'
    BY <1>1, <1>2, <1>3, <1>4, <1>5, TellStep
<1> QED BY <1>3, <1>6 DEF IInv

LEMMA RemoveStep ==
    ASSUME IInv, NEW u \in People, Remove(u)
    PROVE  IInv'
<1> DEFINE k == Removing(u)
           ts == [tasks EXCEPT !["chat"] = k]
<1>1. /\ Leaves(u, ts)
      /\ UNCHANGED <<up, store, told, added, loop, message, faults>>
    BY DEF Remove, Removing, Chat
<1>2. k \in Task /\ k.pc = "removed" /\ k.who = u /\ k.phones = {}
    BY RemovingIs
<1> HIDE DEF k
<1>3. PICK fs \in Seq(Frame) :
               /\ Tell(fs, ts) /\ Tells(fs, members, members')
               /\ \E i \in At(fs) : Is(fs[i], "removed", u)
               /\ members' \in [People -> Roles] /\ members'[Me] # "none"
               /\ Size(members') <= Size(members)
    BY <1>1, LeavesTells
<1>4. Basic("chat", k) /\ k.pc \notin Writing
    BY <1>2 DEF Basic, Writing
<1>5. Tried' /\ told' \in [Phones -> {"nothing", "added", "already", "refused"}] /\ faults' \in Nat
    BY <1>1, TriedStep DEF IInv, Typed
<1> QED BY <1>1, <1>2, <1>3, <1>4, <1>5, CommandStep

LEMMA SetRoleStep ==
    ASSUME IInv, NEW u \in People, NEW r \in Roles \ {"none"}, SetRole(u, r)
    PROVE  IInv'
<1> DEFINE s == [members EXCEPT ![u] = r]
           k == Promoting(u, s)
           ts == [tasks EXCEPT !["chat"] = k]
<1>1. /\ Becomes(u, r, ts)
      /\ UNCHANGED <<up, store, told, added, loop, message, faults>>
    BY DEF SetRole, Promoting, Chat
<1>2. s \in [People -> Roles] /\ s[u] # "none"
    BY DEF IInv, Typed
<1> HIDE DEF s
<1>3. k \in Task /\ k.pc = "role" /\ k.who = u /\ k.phones = {} /\ k.seen = s
    BY <1>2, PromotingIs
<1> HIDE DEF k
<1>4. PICK fs \in Seq(Frame) :
               /\ Tell(fs, ts) /\ Tells(fs, members, members')
               /\ \E i \in At(fs) : Is(fs[i], "role", u)
               /\ members' \in [People -> Roles] /\ members'[Me] # "none"
               /\ Size(members') <= Size(members)
    BY <1>1, BecomesTells
<1>5. Basic("chat", k) /\ k.pc \notin Writing
    BY <1>2, <1>3 DEF Basic, Writing
<1>6. Tried' /\ told' \in [Phones -> {"nothing", "added", "already", "refused"}] /\ faults' \in Nat
    BY <1>1, TriedStep DEF IInv, Typed
<1> QED BY <1>1, <1>3, <1>4, <1>5, <1>6, CommandStep

LEMMA RemoveWritesStep == IInv /\ RemoveWrites => IInv'
<1> SUFFICES ASSUME IInv, RemoveWrites PROVE IInv'
    OBVIOUS
<1> DEFINE c == tasks["chat"]
           k == [Idle EXCEPT !.pc = "refresh"]
<1>1. /\ c.pc = "removed" /\ tasks' = [tasks EXCEPT !["chat"] = k] /\ Stays
      /\ list' = [list EXCEPT ![c.who] = "none"] /\ count' = Less(count)
      /\ sure' = SureOfRemoval(sure, c.fresh)
      /\ UNCHANGED <<myRole, told, added, loop, message, heard, faults>>
    BY DEF RemoveWrites, SureOfRemoval, Chat, Stays, retry, counters
<1>2. /\ Ok("chat", c, Caught, frames, members) /\ c.who \in People /\ c.fresh \in BOOLEAN
      /\ "chat" \in Tasks /\ "engine" \in Tasks \ {"chat"}
    BY TaskIs DEF Tasks
<1>3. k \in Task /\ k.pc = "refresh" /\ k.phones = {}
    BY BegunIs DEF Steps
<1> HIDE DEF c, k
<1>4. Ok("chat", k, Caught, frames, members)
    BY <1>2, <1>3, PlainOk
<1>5. World' /\ Work' /\ tasks'["engine"] = tasks["engine"]
    BY <1>1, <1>2, <1>3, <1>4, StaysWork
<1>6. /\ sure' \in SureType /\ sure'.list = (sure.list /\ c.fresh)
      /\ sure'.count = FALSE /\ sure'.role = sure.role
  <2>1. sure \in SureType
      BY DEF IInv, Typed, SureType
  <2> QED BY <1>1, <1>2, <2>1, SureOfRemovalIs
<1>7. Typed'
  <2>1. list' \in [People -> Roles]
      BY <1>1 DEF IInv, Typed, Roles
  <2>2. count' \in Nat
      BY <1>1 DEF IInv, Typed, Less
  <2> QED BY <1>1, <1>6, <2>1, <2>2 DEF IInv, Typed, Stays, SureType
<1>8. Sure'
  <2>1. Caught' = Caught /\ frames' = frames /\ members' = members /\ myRole' = myRole
      BY <1>1 DEF Stays, Caught
  <2>2. ASSUME sure.list, c.fresh, ~Refreshes(tasks["engine"])
        PROVE  Follows(list', frames, members)
    <3>1. \E i \in At(frames) : Is(frames[i], "removed", c.who)
        BY <1>1, <1>2, <2>2 DEF Ok, Asked
    <3>2. Follows(list, frames, members) /\ frames \in Seq(Frame)
        BY <2>2 DEF IInv, Sure, Typed
    <3>3. \A v \in People : v # c.who => list'[v] = list[v]
        BY <1>1 DEF IInv, Typed
    <3> QED BY <1>2, <3>1, <3>2, <3>3, WroteFollows
  <2> QED BY <1>5, <1>6, <2>1, <2>2 DEF IInv, Sure
<1>9. Tried'
    BY <1>1, TriedStep
<1>10. Awaited'
  <2>1. Awaited /\ added \in Nat
      BY DEF IInv, Typed
  <2> QED BY <1>1, <1>5, <2>1, AwaitedStep DEF Stays
<1> QED BY <1>5, <1>7, <1>8, <1>9, <1>10 DEF IInv

LEMMA RoleWritesStep == IInv /\ RoleWrites => IInv'
<1> SUFFICES ASSUME IInv, RoleWrites PROVE IInv'
    OBVIOUS
<1> DEFINE c == tasks["chat"]
           k == [Idle EXCEPT !.pc = "refresh"]
           l == sure.list /\ c.fresh
<1>1. /\ c.pc = "role" /\ tasks' = [tasks EXCEPT !["chat"] = k] /\ Stays
      /\ list' = WithRole(c.who, c.seen[c.who])
      /\ sure' = [sure EXCEPT !.list = @ /\ c.fresh]
      /\ UNCHANGED <<count, myRole, told, added, loop, message, heard, faults>>
    BY DEF RoleWrites, Chat, Stays, retry, counters
<1>2. /\ Ok("chat", c, Caught, frames, members) /\ c.who \in People /\ c.fresh \in BOOLEAN
      /\ c.seen \in [People -> Roles]
      /\ "chat" \in Tasks /\ "engine" \in Tasks \ {"chat"}
    BY TaskIs DEF Tasks
<1>3. k \in Task /\ k.pc = "refresh" /\ k.phones = {}
    BY BegunIs DEF Steps
<1> HIDE DEF c, k
<1>4. Ok("chat", k, Caught, frames, members)
    BY <1>2, <1>3, PlainOk
<1>5. World' /\ Work' /\ tasks'["engine"] = tasks["engine"]
    BY <1>1, <1>2, <1>3, <1>4, StaysWork
<1>6. sure' \in SureType /\ sure'.list = l /\ sure'.count = sure.count /\ sure'.role = sure.role
  <2>1. sure \in SureType /\ l \in BOOLEAN
      BY DEF IInv, Typed, SureType
  <2>2. sure' = [sure EXCEPT !.list = l]
      BY <1>1, <2>1 DEF SureType
  <2> HIDE DEF l
  <2> QED BY <2>1, <2>2, ListSure
<1>7. c.seen[c.who] # "none"
    BY <1>1, <1>2 DEF Ok, Basic
<1>8. \A v \in People :
          list'[v] = IF v # c.who THEN list[v] ELSE IF list[v] = "none" THEN "none" ELSE c.seen[c.who]
    BY <1>1, <1>2 DEF IInv, Typed, WithRole
<1>9. Typed'
  <2>1. list' \in [People -> Roles]
      BY <1>1, <1>2 DEF IInv, Typed, WithRole
  <2> QED BY <1>1, <1>6, <2>1 DEF IInv, Typed, Stays, SureType
<1>10. Sure'
  <2>1. Caught' = Caught /\ frames' = frames /\ members' = members /\ myRole' = myRole
      BY <1>1 DEF Stays, Caught
  <2>2. ASSUME sure.list, c.fresh, ~Refreshes(tasks["engine"])
        PROVE  Follows(list', frames, members)
    <3>1. \E i \in At(frames) : Is(frames[i], "role", c.who)
        BY <1>1, <1>2, <2>2 DEF Ok, Asked
    <3>2. Follows(list, frames, members) /\ frames \in Seq(Frame)
        BY <2>2 DEF IInv, Sure, Typed
    <3>3. /\ \A v \in People : v # c.who => list'[v] = list[v]
          /\ list'[c.who] = "none" => list[c.who] = "none"
        BY <1>2, <1>7, <1>8
    <3> QED BY <1>2, <3>1, <3>2, <3>3, WroteFollows
  <2> QED BY <1>1, <1>5, <1>6, <2>1, <2>2 DEF IInv, Sure
<1>11. Tried'
    BY <1>1, TriedStep
<1>12. Awaited'
  <2>1. Awaited /\ added \in Nat
      BY DEF IInv, Typed
  <2> QED BY <1>1, <1>5, <2>1, AwaitedStep DEF Stays
<1> QED BY <1>5, <1>9, <1>10, <1>11, <1>12 DEF IInv

\* The frames of the numbers that the server added.
LEMMA AddAllTells ==
    ASSUME IInv, NEW phones \in SUBSET Others, NEW ts, AddAll(phones, ts)
    PROVE  \E fs \in Seq(Frame) :
               /\ Tell(fs, ts) /\ Tells(fs, members, members')
               /\ members' \in [People -> Roles] /\ members'[Me] # "none"
               /\ Size(members') <= Size(members) \/ Adds(fs)
<1> DEFINE new == {p \in phones : members[p] = "none"}
           n == Cardinality(new)
           events == {Event("added", p, "none") : p \in new}
<1>1. PICK s \in [1..n -> events] : {s[i].who : i \in DOMAIN s} = new /\ Tell(s, ts)
    BY DEF AddAll
<1>2. /\ members \in [People -> Roles] /\ members[Me] # "none"
      /\ members' = [p \in People |-> IF p \in new THEN "member" ELSE members[p]]
    BY DEF IInv, Typed, World, AddAll
<1>3. new \in SUBSET People /\ Me \notin new
    BY PeopleAssumption DEF People
<1>4. IsFiniteSet(new) /\ n \in Nat
    BY <1>3, PeopleFinite
<1>5. \A e \in events : e \in Frame /\ e.kind = "added" /\ e.who \in new
    BY <1>3, EventIs DEF Roles
<1>6. \A p \in new : members[p] = "none"
    OBVIOUS
<1> HIDE DEF new, events
<1>7. s \in Seq(Frame) /\ At(s) = 1..n
  <2>1. s \in [1..n -> Frame]
      BY <1>1, <1>5
  <2>2. s \in Seq(Frame)
      BY <1>4, <2>1, SeqDef
  <2>3. DOMAIN s = 1..n /\ DOMAIN s = 1..Len(s)
      BY <2>1, <2>2, LenProperties
  <2> QED BY <2>2, <2>3 DEF At
<1>8. \A i \in At(s) : s[i].kind = "added" /\ s[i].who \in new
    BY <1>1, <1>5, <1>7
<1>9. \A p \in new : \E i \in At(s) : s[i].who = p
    BY <1>1, <1>7
<1>10. \A i, j \in At(s) : s[i].who = s[j].who => i = j
  <2> DEFINE f == [i \in 1..n |-> s[i].who]
  <2>1. f \in Surjection(1..n, new)
      BY <1>7, <1>8, <1>9 DEF Surjection
  <2>2. IsFiniteSet(1..n) /\ Cardinality(1..n) = Cardinality(new)
      BY <1>4, FS_Interval
  <2> HIDE DEF f
  <2>3. f \in Injection(1..n, new)
      BY <1>4, <2>1, <2>2, FS_SurjSameCardinalityImpliesInj
  <2> QED BY <1>7, <2>3 DEF f, Injection, IsInjective
<1>11. members' \in [People -> Roles] /\ members'[Me] # "none"
    BY <1>2, <1>3 DEF Roles, People
<1>12. Tells(s, members, members')
  <2>1. \A p \in new : members'[p] # "none"
      BY <1>2, <1>3
  <2>2. \A u \in People : (\A i \in At(s) : s[i].who # u) => members'[u] = members[u]
      BY <1>2, <1>9
  <2> QED BY <1>3, <1>6, <1>8, <1>10, <2>1, <2>2 DEF Tells
<1>13. Size(members') <= Size(members) \/ Adds(s)
  <2>1. CASE new = {}
    <3>1. \A u \in People : members'[u] # "none" => members[u] # "none"
        BY <1>2, <2>1
    <3> QED BY <1>2, <1>11, <3>1, Fewer
  <2>2. CASE new # {}
      BY <1>8, <1>9, <2>2 DEF Adds
  <2> QED BY <2>1, <2>2
<1> QED BY <1>1, <1>7, <1>11, <1>12, <1>13

\* The next task of a batch, and of one number of it.
Trying(c) == [c EXCEPT !.pc = "each"]
Without(c, p) == IF c.phones = {p} THEN Finished(c) ELSE [c EXCEPT !.phones = @ \ {p}]

LEMMA NextTask ==
    ASSUME NEW c \in Task, c.pc \in {"batch", "each"}, NEW p
    PROVE  \A k \in {Finished(c), Trying(c), Without(c, p)} :
               /\ k \in Task /\ k.pc \in {"refresh", "batch", "each"}
               /\ k.phones # {} => k.pc \in {"batch", "each"}
<1>1. /\ Finished(c) \in Task /\ Finished(c).pc = "refresh" /\ Finished(c).phones = {}
    BY FinishedIs
<1>2. /\ Trying(c) \in Task /\ Trying(c).pc = "each"
    BY PcTask DEF Trying, Steps
<1>3. CASE c.phones = {p}
    BY <1>1, <1>2, <1>3 DEF Without
<1>4. CASE c.phones # {p}
  <2> DEFINE r == c.phones \ {p}
             n == [c EXCEPT !.phones = r]
  <2>1. r \in SUBSET Phones
      BY DEF Task
  <2>2. Without(c, p) = n
      BY <1>4 DEF Without
  <2> HIDE DEF r
  <2>3. n \in Task /\ n.pc = c.pc
      BY <2>1, PhonesTask
  <2> HIDE DEF n
  <2> QED BY <1>1, <1>2, <2>2, <2>3
<1> QED BY <1>3, <1>4

LEMMA NextTaskOk ==
    ASSUME NEW k \in Task, k.pc \in {"refresh", "batch", "each"}, k.phones # {} => k.pc \in {"batch", "each"},
           NEW c, NEW fs, NEW ms
    PROVE  Ok("chat", k, c, fs, ms) /\ Basic("chat", k)
  BY PlainOk DEF Tasks, Basic

\* The server adds what was asked for.
LEMMA AddAllStep ==
    ASSUME IInv, NEW phones \in SUBSET Others, NEW k \in Task, k.pc \in {"refresh", "batch", "each"},
           k.phones # {} => k.pc \in {"batch", "each"},
           AddAll(phones, Chat(k)), UNCHANGED AddOutside, faults' = faults
    PROVE  IInv'
<1>1. PICK fs \in Seq(Frame) :
               /\ Tell(fs, Chat(k)) /\ Tells(fs, members, members')
               /\ members' \in [People -> Roles] /\ members'[Me] # "none"
               /\ Size(members') <= Size(members) \/ Adds(fs)
    BY AddAllTells
<1>2. Tell(fs, [tasks EXCEPT !["chat"] = k])
    BY <1>1 DEF Chat
<1>3. Basic("chat", k) /\ k.pc \notin {"writeList", "writeMembers", "removed", "role"}
    BY NextTaskOk
<1>4. told' \in [Phones -> {"nothing", "added", "already", "refused"}]
    BY DEF AddAll, IInv, Typed
<1>5. Tried'
  <2>1. \A p \in Phones : told'[p] = "refused" => told[p] = "refused"
      BY DEF AddAll
  <2> QED BY <2>1 DEF IInv, Tried, Phones
<1>6. UNCHANGED <<up, store, added, loop, message>> /\ faults' \in Nat
    BY DEF AddOutside, IInv, Typed
<1>7. k.pc \notin Writing
    BY DEF Writing
<1> QED BY <1>1, <1>2, <1>3, <1>4, <1>5, <1>6, <1>7, CommandStep

\* Numbers are refused: they are no numbers, or the request failed.
LEMMA RefuseStep ==
    ASSUME IInv, NEW phones \in SUBSET Phones, NEW k \in Task, k.pc \in {"refresh", "batch", "each"},
           k.phones # {} => k.pc \in {"batch", "each"},
           Refuse(phones, Chat(k)), UNCHANGED AddOutside,
           faults' = faults + 1 \/ (faults' = faults /\ phones \subseteq BadPhones)
    PROVE  IInv'
<1>1. /\ Stays /\ tasks' = [tasks EXCEPT !["chat"] = k]
      /\ UNCHANGED <<store, added, loop, message, heard, sure>>
      /\ told' = [p \in Phones |-> IF p \in phones THEN "refused" ELSE told[p]]
    BY DEF Refuse, AddOutside, Stays, Chat
<1>2. Ok("chat", k, Caught, frames, members)
    BY NextTaskOk
<1>3. told' \in [Phones -> {"nothing", "added", "already", "refused"}] /\ faults' \in Nat
    BY <1>1 DEF IInv, Typed
<1>4. Tried'
  <2>1. CASE faults' = faults + 1
      BY <2>1 DEF Tried, IInv, Typed
  <2>2. CASE faults' = faults /\ phones \subseteq BadPhones
    <3>1. \A p \in Others : p \notin phones /\ told'[p] = told[p]
        BY <1>1, <2>2, PeopleAssumption DEF Phones, People
    <3> QED BY <2>2, <3>1 DEF Tried, IInv
  <2> QED BY <2>1, <2>2
<1> QED BY <1>1, <1>2, <1>3, <1>4, ChatStays

LEMMA BatchStep == IInv /\ Batch => IInv'
<1> SUFFICES ASSUME IInv, Batch PROVE IInv'
    OBVIOUS
<1> DEFINE c == tasks["chat"]
<1>1. /\ c.pc = "batch" /\ UNCHANGED AddOutside
      /\ \/ c.phones \cap BadPhones = {} /\ AddAll(c.phones, Chat(Finished(c))) /\ UNCHANGED faults
         \/ /\ c.phones \cap BadPhones # {}
            /\ IF Cardinality(c.phones) > 1 THEN Refuse({}, Chat(Trying(c)))
               ELSE Refuse(c.phones, Chat(Finished(c)))
            /\ UNCHANGED faults
         \/ Fault /\ Refuse(c.phones, Chat(Finished(c)))
    BY DEF Batch, Finished, Trying
<1>2. c \in Task /\ c.phones \in SUBSET Phones
    BY TaskIs DEF Tasks
<1> HIDE DEF c
<1>3. \A k \in {Finished(c), Trying(c)} :
          /\ k \in Task /\ k.pc \in {"refresh", "batch", "each"}
          /\ k.phones # {} => k.pc \in {"batch", "each"}
    BY <1>1, <1>2, NextTask
<1>4. CASE c.phones \cap BadPhones = {} /\ AddAll(c.phones, Chat(Finished(c))) /\ UNCHANGED faults
  <2>1. c.phones \in SUBSET Others
      BY <1>2, <1>4 DEF Phones
  <2> QED BY <1>1, <1>3, <1>4, <2>1, AddAllStep
<1>5. CASE Refuse({}, Chat(Trying(c))) /\ UNCHANGED faults
    BY <1>1, <1>3, <1>5, RefuseStep
<1>6. CASE /\ c.phones \cap BadPhones # {} /\ ~(Cardinality(c.phones) > 1)
           /\ Refuse(c.phones, Chat(Finished(c))) /\ UNCHANGED faults
  <2>1. c.phones \subseteq BadPhones
    <3>1. PICK b \in c.phones : b \in BadPhones
        BY <1>6
    <3>2. IsFiniteSet(c.phones) /\ Cardinality(c.phones) \in Nat
        BY <1>2, PeopleFinite, FS_Subset, FS_CardinalityType
    <3>3. IsFiniteSet({b}) /\ Cardinality({b}) = 1
        BY FS_Singleton
    <3>4. {b} = c.phones
      <4>1. {b} \subseteq c.phones /\ Cardinality({b}) <= Cardinality(c.phones)
          BY <3>2, FS_Subset
      <4>2. Cardinality({b}) = Cardinality(c.phones)
          BY <1>6, <3>2, <3>3, <4>1
      <4> QED BY <3>2, <4>1, <4>2, FS_Subset
    <3> QED BY <3>1, <3>4
  <2> QED BY <1>1, <1>2, <1>3, <1>6, <2>1, RefuseStep
<1>7. CASE Fault /\ Refuse(c.phones, Chat(Finished(c)))
    BY <1>1, <1>2, <1>3, <1>7, RefuseStep DEF Fault
<1> QED BY <1>1, <1>4, <1>5, <1>6, <1>7

LEMMA EachStep ==
    ASSUME IInv, NEW p \in Phones, Each(p)
    PROVE  IInv'
<1> DEFINE c == tasks["chat"]
           k == Without(c, p)
<1>1. /\ c.pc = "each" /\ UNCHANGED AddOutside
      /\ \/ p \notin BadPhones /\ AddAll({p}, Chat(k)) /\ UNCHANGED faults
         \/ p \in BadPhones /\ Refuse({p}, Chat(k)) /\ UNCHANGED faults
         \/ Fault /\ Refuse({p}, Chat(k))
    BY DEF Each, Finished, Without
<1>2. c \in Task
    BY TaskIs DEF Tasks
<1>3. /\ k \in Task /\ k.pc \in {"refresh", "batch", "each"}
      /\ k.phones # {} => k.pc \in {"batch", "each"}
    BY <1>1, <1>2, NextTask
<1> HIDE DEF k
<1>4. CASE p \notin BadPhones /\ AddAll({p}, Chat(k)) /\ UNCHANGED faults
  <2>1. {p} \in SUBSET Others
      BY <1>4 DEF Phones
  <2> QED BY <1>1, <1>3, <1>4, <2>1, AddAllStep
<1>5. CASE p \in BadPhones /\ Refuse({p}, Chat(k)) /\ UNCHANGED faults
    BY <1>1, <1>3, <1>5, RefuseStep
<1>6. CASE Fault /\ Refuse({p}, Chat(k))
    BY <1>1, <1>3, <1>6, RefuseStep DEF Fault
<1> QED BY <1>1, <1>4, <1>5, <1>6

-----------------------------------------------------------------------------
(* The message *)

LEMMA MessageStep == IInv /\ Message => IInv'
<1> SUFFICES ASSUME IInv, Message PROVE IInv'
    OBVIOUS
<1>1. /\ UNCHANGED <<members, up, frames, list, count, myRole, tasks, told, sure>>
      /\ faults' = faults \/ faults' = faults + 1
    BY DEF Message, Write, Post, Fail, TakeAdded, Check, Retry, Fault, store, counters
<1>2. /\ added \in Nat /\ added' \in Nat /\ loop' \in {"idle", "check", "retry"}
      /\ message' \in {"none", "pending", "refused", "failed", "sent"} /\ heard' \in BOOLEAN
  <2>1. CASE Write
      BY <2>1 DEF Write, IInv, Typed
  <2>2. CASE Post
      BY <2>2 DEF Post, IInv, Typed
  <2>3. CASE Fail
      BY <2>3 DEF Fail, IInv, Typed
  <2>4. CASE TakeAdded
      BY <2>4 DEF TakeAdded, IInv, Typed
  <2>5. CASE Check
      BY <2>5 DEF Check, IInv, Typed
  <2>6. CASE Retry
      BY <2>6 DEF Retry, IInv, Typed
  <2> QED BY <2>1, <2>2, <2>3, <2>4, <2>5, <2>6 DEF Message
<1>3. Typed'
    BY <1>1, <1>2 DEF IInv, Typed
<1>4. World' /\ Work' /\ Sure'
    BY <1>1 DEF IInv, World, Work, Sure, Caught
<1>5. Tried'
    BY <1>1, TriedStep
<1>6. Size(members) \in Nat
    BY SizeIs DEF IInv, Typed
<1>7. Awaited'
  <2>1. CASE Write
      BY <1>1, <2>1 DEF Write, IInv, Awaited
  <2>2. CASE Post
      BY <1>1, <2>2 DEF Post, IInv, Awaited, Awaits
  <2>3. CASE Fail
      BY <1>1, <2>3 DEF Fail, IInv, Awaited, Awaits
  <2>4. CASE TakeAdded
      BY <1>1, <2>4 DEF TakeAdded, IInv, Awaited, Awaits
  <2>5. CASE Check
      BY <1>1, <1>6, <2>5, BoundsAssumption DEF Check, IInv, Awaited, Awaits, BigEnough
  <2>6. CASE Retry
      BY <1>1, <2>6 DEF Retry, IInv, Awaited
  <2> QED BY <2>1, <2>2, <2>3, <2>4, <2>5, <2>6 DEF Message
<1> QED BY <1>3, <1>4, <1>5, <1>7 DEF IInv

-----------------------------------------------------------------------------
(* The theorems *)

LEMMA NextStep == IInv /\ [Next]_vars => IInv'
<1> SUFFICES ASSUME IInv, [Next]_vars PROVE IInv'
    OBVIOUS
<1>1. CASE Change
    BY <1>1, ChangeStep
<1>2. CASE Drop
    BY <1>2, DropStep
<1>3. CASE Connect
    BY <1>3, ConnectStep
<1>4. CASE Frames
    BY <1>4, OnConnectedStep, OnAddedStep, OnRemovedStep, OnRoleStep DEF Frames
<1>5. CASE Commands
  <2>1. ASSUME NEW u \in People, Remove(u) \/ \E r \in Roles \ {"none"} : SetRole(u, r)
        PROVE  IInv'
      BY <2>1, RemoveStep, SetRoleStep
  <2>2. ASSUME NEW phones \in SUBSET Phones, Add(phones)
        PROVE  IInv'
      BY <2>2, AddStep
  <2>3. ASSUME NEW p \in Phones, Each(p)
        PROVE  IInv'
      BY <2>3, EachStep
  <2> QED BY <1>5, <2>1, <2>2, <2>3, LookStep, RemoveWritesStep, RoleWritesStep, BatchStep DEF Commands
<1>6. CASE Message
    BY <1>6, MessageStep
<1>7. ASSUME NEW t \in Tasks, Requests(t)
      PROVE  IInv'
  <2>1. CASE Fetch(t, "list", "writeList") \/ Fetch(t, "refresh", "writeMembers")
      BY <2>1, FetchStep
  <2>2. CASE Refused(t, "list") \/ Refused(t, "refresh")
      BY <2>2, RefusedStep
  <2>3. CASE WriteGroup(t)
      BY <2>3, WriteGroupStep
  <2>4. CASE WriteMembers(t)
      BY <2>4, WriteMembersStep
  <2> QED BY <1>7, <2>1, <2>2, <2>3, <2>4 DEF Requests
<1>8. CASE UNCHANGED vars
  <2>1. UNCHANGED <<members, up, frames, list, count, myRole, tasks, told, added, loop, message, sure, heard, faults>>
      BY <1>8 DEF vars
  <2> QED BY <2>1 DEF IInv, Typed, World, Work, Sure, Caught, Tried, Awaited, Awaits
<1> QED BY <1>1, <1>2, <1>3, <1>4, <1>5, <1>6, <1>7, <1>8 DEF Next

LEMMA Invariant == Spec => []IInv
<1> QED BY InitInvariant, NextStep, PTL DEF Spec

\* Frames older than a refresh are applied to it again, lists that were asked for before a change
\* are written after it, and commands write what their own frame writes as well: whatever the
\* event loop (sync.rs) and the handlers do side by side, once everything is handled the stored
\* list, role and count of which nothing was missed are the server's.
THEOREM MembersAgree == Spec => []MembersConverge
<1> QED BY Invariant, MembersConvergeFollows, PTL

\* No message that was refused because the group was too small is left behind in a group that is
\* big enough: an addition that is on its way to retry_too_small (bridge/mod.rs) accounts for it,
\* as a frame, a refresh, an event or the retry itself.
THEOREM RefusedIsRetried == Spec => []TooSmallIsRetried
<1> QED BY Invariant, TooSmallFollows, PTL

\* What is done besides a batch leaves the numbers in hand.
LEMMA NumbersKept ==
    ASSUME IInv, [Next]_vars, ~Batch, \A p \in Phones : ~Each(p), tasks["chat"].phones # {}
    PROVE  tasks'["chat"].phones # {}
<1>1. /\ tasks \in [Tasks -> Task] /\ "chat" \in Tasks /\ "engine" \in Tasks \ {"chat"}
      /\ tasks["chat"] \in Task /\ tasks["chat"].pc \in {"batch", "each"}
  <2>1. Basic("chat", tasks["chat"])
      BY TaskIs DEF Ok, Tasks
  <2> QED BY <2>1, TaskIs DEF Basic, Tasks
<1>2. ASSUME tasks' = Stale(tasks)
      PROVE  tasks'["chat"].phones = tasks["chat"].phones
  <2>1. tasks'["chat"] = [tasks["chat"] EXCEPT !.fresh = FALSE]
      BY <1>1, <1>2, StaleIs
  <2> QED BY <1>1, <2>1, FreshTask
<1>3. CASE Change
  <2>1. tasks' = tasks \/ tasks' = Stale(tasks)
      BY <1>3 DEF Change, Enters, Leaves, Becomes, Tell
  <2> QED BY <1>2, <2>1
<1>4. CASE Drop
    BY <1>2, <1>4 DEF Drop
<1>5. CASE Connect \/ Message
    BY <1>5 DEF Connect, Message, Write, Post, Fail, TakeAdded, Check, Retry
<1>6. CASE Frames
  <2>1. PICK k : tasks' = [Stale(tasks) EXCEPT !["engine"] = k]
      BY <1>6 DEF Frames, OnConnected, OnAdded, OnRemoved, OnRole, Handle
  <2>2. tasks'["chat"] = [tasks["chat"] EXCEPT !.fresh = FALSE]
      BY <1>1, <2>1, StaleIs
  <2> QED BY <1>1, <2>2, FreshTask
<1>7. CASE Commands
    BY <1>1, <1>7 DEF Commands, Look, RemoveWrites, RoleWrites, Remove, SetRole, Add, Command
<1>8. ASSUME NEW t \in Tasks, Requests(t)
      PROVE  tasks'["chat"] = tasks["chat"]
  <2>1. t # "chat"
      BY <1>1, <1>8 DEF Requests, Fetch, Refused, WriteGroup, WriteMembers
  <2>2. \E k : tasks' = [tasks EXCEPT ![t] = k]
      BY <1>8 DEF Requests, Fetch, Refused, WriteGroup, WriteMembers
  <2> QED BY <1>1, <2>1, <2>2
<1>9. CASE UNCHANGED vars
    BY <1>9 DEF vars
<1> QED BY <1>3, <1>4, <1>5, <1>6, <1>7, <1>8, <1>9 DEF Next

Reported == /\ faults' = 0
            /\ tasks["chat"].phones # {} /\ tasks'["chat"].phones = {}
            => /\ \A p \in Others : told'[p] # "refused"
               /\ \A p \in tasks["chat"].phones : told'[p] # "nothing"

LEMMA NumbersReported == IInv /\ [Next]_vars => [Reported]_vars
<1> SUFFICES ASSUME IInv, [Next]_vars, faults' = 0,
                    tasks["chat"].phones # {}, tasks'["chat"].phones = {}
             PROVE  /\ \A p \in Others : told'[p] # "refused"
                    /\ \A p \in tasks["chat"].phones : told'[p] # "nothing"
    BY DEF Reported
<1> DEFINE c == tasks["chat"]
<1>1. \A p \in Others : told'[p] # "refused"
    BY NextStep DEF IInv, Tried
<1>2. ASSUME NEW p \in c.phones PROVE told'[p] # "nothing"
  <2>1. faults' # faults + 1
      BY DEF IInv, Typed
  <2>2. c \in Task /\ tasks \in [Tasks -> Task] /\ "chat" \in Tasks
      BY TaskIs DEF Tasks
  <2>5. p \in Phones
      BY <1>2, <2>2 DEF Task
  <2> HIDE DEF c
  <2>3. CASE Batch
    <3>1. \/ AddAll(c.phones, Chat(Finished(c)))
          \/ Refuse({}, Chat(Trying(c)))
          \/ Refuse(c.phones, Chat(Finished(c)))
        BY <2>1, <2>3 DEF Batch, Finished, Trying, Fault, c
    <3>2. ~Refuse({}, Chat(Trying(c)))
      <4> SUFFICES ASSUME Refuse({}, Chat(Trying(c))) PROVE FALSE
          OBVIOUS
      <4>1. tasks'["chat"] = Trying(c)
          BY <2>2 DEF Refuse, Chat
      <4>2. Trying(c).phones = c.phones
          BY <2>2, PcTask DEF Trying, Steps
      <4> QED BY <4>1, <4>2 DEF c
    <3> QED BY <1>2, <2>5, <3>1, <3>2 DEF AddAll, Refuse
  <2>4. ASSUME NEW q \in Phones, Each(q) PROVE told'[p] # "nothing"
    <3>1. c.pc = "each" /\ (AddAll({q}, Chat(Without(c, q))) \/ Refuse({q}, Chat(Without(c, q))))
        BY <2>4 DEF Each, Finished, Without, c
    <3>2. c.phones = {q}
      <4> SUFFICES ASSUME c.phones # {q} PROVE FALSE
          OBVIOUS
      <4> DEFINE r == c.phones \ {q}
                 n == [c EXCEPT !.phones = r]
      <4>1. Without(c, q) = n
          BY DEF Without
      <4>2. r \in SUBSET Phones /\ r # {}
          BY <1>2, <2>2 DEF Task
      <4> HIDE DEF r
      <4>3. n \in Task /\ n.phones = r
          BY <2>2, <4>2, PhonesTask
      <4> HIDE DEF n
      <4> DEFINE ts == Chat(n)
      <4>4. AddAll({q}, ts) \/ Refuse({q}, ts)
          BY <3>1, <4>1
      <4>5. ts \in [Tasks -> Task] /\ ts["chat"].phones = r
          BY <2>2, <4>3 DEF Chat
      <4> HIDE DEF ts
      <4>6. tasks' = ts \/ tasks' = Stale(ts)
          BY <4>4 DEF AddAll, Refuse, Tell
      <4>7. Stale(ts)["chat"].phones = r
        <5>1. Stale(ts)["chat"] = [ts["chat"] EXCEPT !.fresh = FALSE] /\ ts["chat"] \in Task
            BY <2>2, <4>5, StaleIs
        <5> QED BY <4>5, <5>1, FreshTask
      <4> QED BY <4>2, <4>5, <4>6, <4>7
    <3> QED BY <1>2, <2>5, <3>1, <3>2 DEF AddAll, Refuse
  <2> QED BY <2>3, <2>4, NumbersKept DEF c
<1> QED BY <1>1, <1>2

\* "One bad number must not sink the batch" (add_members_carefully): unless a request failed, no
\* number that Tzibbur can parse is reported as refused, and every number in hand is reported.
THEOREM NumbersAreAdded == Spec => GoodNumbersAreAdded
<1> DEFINE Reports == /\ faults' = 0
                      /\ tasks["chat"].phones # {} /\ tasks'["chat"].phones = {}
                      => /\ \A p \in Others : told'[p] # "refused"
                         /\ \A p \in tasks["chat"].phones : told'[p] # "nothing"
<1>1. IInv /\ [Next]_vars => [Reports]_vars
    BY NumbersReported DEF Reported
<1>2. Spec => [][Reports]_vars
    BY <1>1, Invariant, PTL DEF Spec
<1> QED BY <1>2 DEF GoodNumbersAreAdded

=============================================================================
