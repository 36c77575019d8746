---------------------------- MODULE SocketProofs ----------------------------
(***************************************************************************)
(* Theorems about Socket, for any number of loops and of callers that stop *)
(* the engine, and for any size of the channels.                           *)
(***************************************************************************)
EXTENDS Socket, SequenceTheorems, TLAPS

-----------------------------------------------------------------------------
(* The delays of backoff.rs *)

\* The powers of two up to the limit of the exponent.
LEMMA Powers ==
    ASSUME NEW k \in 0..16
    PROVE  /\ 2 ^ k \in Nat \ {0}
           /\ k # 16 => 2 ^ (k + 1) = 2 * 2 ^ k
<1> DEFINE p(n) == 2 ^ n
<1>1. /\ p(0) = 1 /\ p(1) = 2 /\ p(2) = 4 /\ p(3) = 8 /\ p(4) = 16 /\ p(5) = 32
      /\ p(6) = 64 /\ p(7) = 128 /\ p(8) = 256 /\ p(9) = 512 /\ p(10) = 1024
      /\ p(11) = 2048 /\ p(12) = 4096 /\ p(13) = 8192 /\ p(14) = 16384
      /\ p(15) = 32768 /\ p(16) = 65536
    OBVIOUS
<1> HIDE DEF p
<1>2. k \in {0, 1, 2, 3, 4, 5, 6, 7, 8, 9, 10, 11, 12, 13, 14, 15, 16}
    OBVIOUS
<1>3. p(k) \in Nat \ {0}
    BY <1>1, <1>2
<1>4. k # 16 => p(k + 1) = 2 * p(k)
    BY <1>1, <1>2
<1> QED BY <1>3, <1>4 DEF p

LEMMA BaseIsNat ==
    ASSUME NEW n \in Nat
    PROVE  backoff_base(n) \in Nat /\ backoff_base(n) \div 2 \in Nat
<1> DEFINE k == Smaller(n, 16)
<1>1. k \in 0..16
    BY DEF Smaller
<1> HIDE DEF k
<1>2. 2 ^ k \in Nat
    BY <1>1, Powers
<1> DEFINE p == 2 ^ k
<1> HIDE DEF p
<1>3. Base \in Nat /\ Cap \in Nat /\ p \in Nat
    BY <1>2, BackoffAssumption DEF p
<1>4. Base * p \in Nat
    BY <1>3
<1>5. Smaller(Base * p, Cap) \in Nat
    BY <1>3, <1>4 DEF Smaller
<1>6. backoff_base(n) \in Nat
    BY <1>5 DEF backoff_base, p, k
<1> QED BY <1>6

\* Half of a delay below the cap is all of the one before it.
LEMMA BaseDoubles ==
    ASSUME NEW n \in Nat
    PROVE  \/ backoff_base(n + 1) \div 2 = backoff_base(n) /\ backoff_base(n) > 0
           \/ backoff_base(n + 1) = Cap
<1>1. Base \in Nat \ {0} /\ Cap \in Nat /\ Cap <= Base * 2 ^ 16
    BY BackoffAssumption
<1>2. CASE n >= 16
  <2>1. Smaller(n + 1, 16) = 16
      BY <1>2 DEF Smaller
  <2>2. Smaller(Base * 2 ^ 16, Cap) = Cap
    <3> DEFINE p == Base * 2 ^ 16
    <3>1. p \in Nat
        BY <1>1, Powers
    <3> HIDE DEF p
    <3> QED BY <1>1, <3>1 DEF Smaller, p
  <2> QED BY <2>1, <2>2 DEF backoff_base
<1>3. CASE n < 16
  <2>1. n \in 0..16 /\ n # 16 /\ Smaller(n, 16) = n /\ Smaller(n + 1, 16) = n + 1
      BY <1>3 DEF Smaller
  <2> DEFINE p == 2 ^ n
             q == 2 ^ (n + 1)
  <2>2. p \in Nat \ {0} /\ q = 2 * p
      BY <2>1, Powers
  <2>3. backoff_base(n) = Smaller(Base * p, Cap) /\ backoff_base(n + 1) = Smaller(Base * q, Cap)
      BY <2>1 DEF backoff_base
  <2> HIDE DEF p, q
  <2> DEFINE a == Base * p
  <2>4. a \in Nat \ {0} /\ Base * q = 2 * a
      BY <1>1, <2>2
  <2> HIDE DEF a
  <2>5. backoff_base(n) = Smaller(a, Cap) /\ backoff_base(n + 1) = Smaller(2 * a, Cap)
      BY <2>3, <2>4 DEF a
  <2>6. CASE 2 * a < Cap
    <3>1. backoff_base(n) = a /\ backoff_base(n + 1) = 2 * a
        BY <1>1, <2>4, <2>5, <2>6 DEF Smaller
    <3>2. (2 * a) \div 2 = a
        BY <2>4
    <3> QED BY <2>4, <3>1, <3>2
  <2>7. CASE ~(2 * a < Cap)
      BY <2>5, <2>7 DEF Smaller
  <2> QED BY <2>6, <2>7
<1> QED BY <1>2, <1>3

\* What the jitter draws is not above the lowest of the next attempt, short of half the cap.
Slow(k) == \/ k.delay <= backoff_base(k.attempt) \div 2
           \/ Cap \div 2 <= backoff_base(k.attempt) \div 2

LEMMA JitterIs ==
    ASSUME NEW n \in 0..MaxAttempt, NEW d \in backoff_delay(n)
    PROVE  LET next == Smaller(n + 1, MaxAttempt)
           IN  /\ next \in 0..MaxAttempt /\ d \in Nat /\ d >= backoff_base(n) \div 2
               /\ d <= backoff_base(next) \div 2 \/ Cap \div 2 <= backoff_base(next) \div 2
<1> DEFINE next == Smaller(n + 1, MaxAttempt)
           b == backoff_base(n)
           lo == backoff_base(n) \div 2
<1>1. n \in Nat /\ MaxAttempt \in Nat /\ n <= MaxAttempt /\ next \in 0..MaxAttempt
    BY SizesAssumption DEF Smaller
<1>2. b \in Nat /\ lo \in Nat /\ lo = b \div 2 /\ Cap \in Nat
    BY <1>1, BaseIsNat, BackoffAssumption
<1>3. d \in lo..Larger(b, lo + 1)
    BY DEF backoff_delay
<1> HIDE DEF b, lo
<1>4. d \in Nat /\ d >= lo /\ (b > 0 => d <= b)
    BY <1>2, <1>3 DEF Larger
<1>5. CASE next = MaxAttempt
    BY <1>1, <1>2, <1>4, <1>5, BackoffAssumption DEF lo
<1>6. CASE next # MaxAttempt
  <2>1. next = n + 1
      BY <1>1, <1>6 DEF Smaller
  <2>2. (backoff_base(next) \div 2 = b /\ b > 0) \/ backoff_base(next) = Cap
      BY <1>1, <2>1, BaseDoubles DEF b
  <2>3. backoff_base(next) \div 2 = b /\ b > 0 => d <= backoff_base(next) \div 2
      BY <1>4
  <2>4. backoff_base(next) = Cap => Cap \div 2 <= backoff_base(next) \div 2
      BY <1>2
  <2> QED BY <1>1, <1>4, <2>2, <2>3, <2>4 DEF lo
<1> QED BY <1>5, <1>6

-----------------------------------------------------------------------------
(* Records *)

Pcs == {"ended", "lock", "top", "connect", "open", "up", "backoff"}
EnginePcs == {"select", "ack", "take", "await", "restart", "ended"}
CallerPcs == {"idle", "engine", "socket", "await", "finish", "done"}
Engine == [pc : EnginePcs, stop : BOOLEAN, loop : Loops \cup {NoLoop}]
Caller == [pc : CallerPcs, loop : Loops \cup {NoLoop}]

LEMMA PcLoop ==
    ASSUME NEW k \in Loop, NEW p \in Pcs
    PROVE  LET r == [k EXCEPT !.pc = p]
           IN  /\ r \in Loop /\ r.pc = p /\ r.stop = k.stop
               /\ r.attempt = k.attempt /\ r.delay = k.delay
  BY DEF Loop, Pcs

LEMMA StopLoop ==
    ASSUME NEW k \in Loop, NEW b \in BOOLEAN
    PROVE  LET r == [k EXCEPT !.stop = b]
           IN  /\ r \in Loop /\ r.pc = k.pc /\ r.stop = b
               /\ r.attempt = k.attempt /\ r.delay = k.delay
  BY DEF Loop

LEMMA AttemptLoop ==
    ASSUME NEW k \in Loop, NEW n \in 0..MaxAttempt
    PROVE  LET r == [k EXCEPT !.attempt = n]
           IN  /\ r \in Loop /\ r.pc = k.pc /\ r.stop = k.stop
               /\ r.attempt = n /\ r.delay = k.delay
  BY DEF Loop

LEMMA DelayLoop ==
    ASSUME NEW k \in Loop, NEW d \in Nat
    PROVE  LET r == [k EXCEPT !.delay = d]
           IN  /\ r \in Loop /\ r.pc = k.pc /\ r.stop = k.stop
               /\ r.attempt = k.attempt /\ r.delay = d
  BY DEF Loop

LEMMA EndedIs == Ended \in Loop /\ Ended.pc = "ended" /\ Ended.attempt = 0 /\ Ended.delay = 0
  BY SizesAssumption DEF Ended, Loop

\* The loop after Wait and after Hello.
Waited(k, d) == [k EXCEPT !.pc = "backoff", !.delay = d, !.attempt = Smaller(@ + 1, MaxAttempt)]
Greeted(k) == [k EXCEPT !.pc = "up", !.attempt = 0, !.delay = 0]

LEMMA WaitedIs ==
    ASSUME NEW k \in Loop, NEW d \in backoff_delay(k.attempt)
    PROVE  LET r == Waited(k, d)
           IN  /\ r \in Loop /\ r.pc = "backoff" /\ r.stop = k.stop /\ r.delay = d /\ Slow(r)
               /\ d >= backoff_base(k.attempt) \div 2
<1> DEFINE n == Smaller(k.attempt + 1, MaxAttempt)
           a == [k EXCEPT !.pc = "backoff"]
           b == [a EXCEPT !.delay = d]
           c == [b EXCEPT !.attempt = n]
<1>1. k.attempt \in 0..MaxAttempt
    BY DEF Loop
<1>2. /\ n \in 0..MaxAttempt /\ d \in Nat /\ d >= backoff_base(k.attempt) \div 2
      /\ d <= backoff_base(n) \div 2 \/ Cap \div 2 <= backoff_base(n) \div 2
    BY <1>1, JitterIs
<1>3. Waited(k, d) = [k EXCEPT !.pc = "backoff", !.delay = d, !.attempt = n]
    BY Zenon DEF Waited
<1> HIDE DEF n
<1>4. Waited(k, d) = c
    BY <1>3
<1>5. a \in Loop /\ a.pc = "backoff" /\ a.stop = k.stop
    BY PcLoop DEF Pcs
<1> HIDE DEF a
<1>6. b \in Loop /\ b.pc = "backoff" /\ b.stop = k.stop /\ b.delay = d
    BY <1>2, <1>5, DelayLoop
<1> HIDE DEF b
<1>7. c \in Loop /\ c.pc = "backoff" /\ c.stop = k.stop /\ c.attempt = n /\ c.delay = d
    BY <1>2, <1>6, AttemptLoop
<1> HIDE DEF c
<1>8. Slow(c)
    BY <1>2, <1>7 DEF Slow
<1> QED BY <1>2, <1>4, <1>7, <1>8

LEMMA GreetedIs ==
    ASSUME NEW k \in Loop
    PROVE  LET r == Greeted(k)
           IN  r \in Loop /\ r.pc = "up" /\ r.stop = k.stop /\ r.attempt = 0 /\ r.delay = 0
<1> DEFINE a == [k EXCEPT !.pc = "up"]
           b == [a EXCEPT !.attempt = 0]
           c == [b EXCEPT !.delay = 0]
<1>1. Greeted(k) = c
    BY DEF Greeted
<1>2. a \in Loop /\ a.pc = "up" /\ a.stop = k.stop
    BY PcLoop DEF Pcs
<1> HIDE DEF a
<1>3. b \in Loop /\ b.pc = "up" /\ b.stop = k.stop /\ b.attempt = 0
    BY <1>2, AttemptLoop, SizesAssumption
<1> HIDE DEF b
<1>4. c \in Loop /\ c.pc = "up" /\ c.stop = k.stop /\ c.attempt = 0 /\ c.delay = 0
    BY <1>3, DelayLoop
<1> HIDE DEF c
<1> QED BY <1>1, <1>4

\* The event loop after At.
Placed(e, p, l) == [e EXCEPT !.pc = p, !.loop = l]

LEMMA EngineAt ==
    ASSUME NEW e \in Engine, NEW p \in EnginePcs, NEW l \in Loops \cup {NoLoop}
    PROVE  /\ Placed(e, p, l) \in Engine
           /\ Placed(e, p, l).pc = p /\ Placed(e, p, l).stop = e.stop /\ Placed(e, p, l).loop = l
<1> DEFINE a == [e EXCEPT !.pc = p]
<1>1. Placed(e, p, l) = [a EXCEPT !.loop = l]
    BY DEF Placed
<1>2. a \in Engine /\ a.pc = p /\ a.stop = e.stop
    BY DEF Engine
<1> HIDE DEF a
<1>3. LET r == [a EXCEPT !.loop = l]
      IN  r \in Engine /\ r.pc = p /\ r.stop = e.stop /\ r.loop = l
    BY <1>2 DEF Engine
<1> QED BY <1>1, <1>3

LEMMA EngineStop ==
    ASSUME NEW e \in Engine
    PROVE  LET r == [e EXCEPT !.stop = TRUE]
           IN  r \in Engine /\ r.pc = e.pc /\ r.stop = TRUE /\ r.loop = e.loop
  BY DEF Engine

-----------------------------------------------------------------------------
(* The inductive invariant *)

\* Only the loop with outbound_rx is beyond waiting for it.
Works(l) == loops[l].pc \notin {"ended", "lock"}

LoopsOK == /\ handle \in Loops \cup {NoLoop}
           /\ loops \in [Loops -> Loop]
           /\ rx \in Loops \cup {NoLoop}
           /\ rx # NoLoop <=> \E l \in Loops : Works(l)
           /\ \A l \in Loops : Works(l) => rx = l

ChannelOK == /\ events \in Seq(Event) /\ Len(events) <= Buffer /\ lagged \in BOOLEAN

RestOK == /\ revoked \in BOOLEAN /\ notified \in BOOLEAN /\ task \in BOOLEAN
          /\ state \in States /\ shown \in States /\ unseen \in BOOLEAN
          /\ outbound \in 0..Outbound

TasksOK == engine \in Engine /\ callers \in [Callers -> Caller]

\* A loop that is not over is the handle's, or somebody awaits it.
AwaitedBy(c, l) == callers[c].pc = "await" /\ callers[c].loop = l
Owned == \A l \in Loops : Active(l) =>
             \/ handle = l
             \/ engine.pc = "await" /\ engine.loop = l
             \/ \E c \in Callers : AwaitedBy(c, l)

\* Who came first waits for the event loop; when that has ended, nobody starts a loop, and
\* the one left is taken.
First == /\ task => /\ engine.pc # "ended" /\ ~engine.stop
                    /\ \A c \in Callers : callers[c].pc = "idle"
         /\ ~task => \/ \E c \in Callers : callers[c].pc = "engine"
                     \/ /\ engine.pc = "ended"
                        /\ handle = NoLoop \/ \E c \in Callers : callers[c].pc = "socket"

\* While the socket's state demands an update, nothing connects ...
Down == state = "UpdateRequired" =>
            \A l \in Loops : loops[l].pc \notin {"connect", "open", "up", "backoff"}

\* ... and the event loop has heard of it or will: no event that it hears later undoes it.
Told == state = "UpdateRequired" /\ engine.pc # "ended" =>
            /\ \A i \in 1..Len(events) : events[i] = "connected" =>
                   \E j \in 1..Len(events) : j > i /\ events[j] = "update"
            /\ unseen \/ shown = "UpdateRequired" \/ \E j \in 1..Len(events) : events[j] = "update"

Slowing == \A l \in Loops : Slow(loops[l])

Typed == LoopsOK /\ ChannelOK /\ RestOK /\ TasksOK
IInv == Typed /\ Owned /\ First /\ Down /\ Told /\ Slowing

LEMMA InitHolds == Init => IInv
<1> SUFFICES ASSUME Init PROVE IInv
    OBVIOUS
<1>1. handle \in Loops /\ NoLoop \notin Loops
    BY NamesAssumption DEF Init
<1> DEFINE r(l) == [Ended EXCEPT !.pc = IF l = handle THEN "lock" ELSE "ended"]
<1>2. loops = [l \in Loops |-> r(l)] /\ rx = NoLoop
    BY DEF Init
<1>3. ASSUME NEW l \in Loops
      PROVE  /\ loops[l] \in Loop /\ loops[l].pc \in {"lock", "ended"}
             /\ loops[l].pc = "lock" => l = handle
             /\ loops[l].delay = 0
  <2> DEFINE p == IF l = handle THEN "lock" ELSE "ended"
  <2>1. p \in {"lock", "ended"} /\ p \in Pcs /\ (p = "lock" => l = handle)
      BY DEF Pcs
  <2>2. loops[l] = [Ended EXCEPT !.pc = p]
      BY <1>2
  <2> HIDE DEF p
  <2> QED BY <2>1, <2>2, PcLoop, EndedIs
<1> HIDE DEF r
<1>4. loops \in [Loops -> Loop]
  <2>1. DOMAIN loops = Loops /\ loops = [l \in Loops |-> loops[l]]
      BY <1>2
  <2> QED BY <1>3, <2>1
<1>5. LoopsOK
    BY <1>1, <1>2, <1>3, <1>4 DEF LoopsOK, Works
<1>6. ChannelOK
  <2>1. events = <<>> /\ lagged = FALSE /\ Buffer \in Nat
      BY SizesAssumption DEF Init
  <2>2. <<>> \in Seq(Event) /\ Len(<<>>) = 0
      BY EmptySeq
  <2>3. events \in Seq(Event) /\ Len(events) = 0
      BY <2>1, <2>2
  <2>4. lagged \in BOOLEAN /\ Buffer \in Nat
      BY <2>1
  <2> QED BY <2>3, <2>4 DEF ChannelOK
<1>7. RestOK
  <2>1. /\ revoked = FALSE /\ notified = FALSE /\ task = TRUE /\ unseen = FALSE
        /\ state = "Idle" /\ shown = "Connecting" /\ outbound = 0
      BY DEF Init
  <2>2. 0 \in 0..Outbound
      BY SizesAssumption
  <2> QED BY <2>1, <2>2 DEF RestOK, States
<1>8. TasksOK
    BY DEF Init, TasksOK, Engine, Caller, EnginePcs, CallerPcs
<1>9. Owned
    BY <1>3 DEF Owned, Active
<1>10. First
    BY DEF Init, First
<1>11. Down /\ Told
    BY DEF Init, Down, Told
<1>12. Slowing
  <2>1. ASSUME NEW l \in Loops PROVE Slow(loops[l])
    <3>1. loops[l].delay = 0 /\ loops[l].attempt \in Nat
        BY <1>3, SizesAssumption DEF Loop
    <3> QED BY <3>1, BaseIsNat DEF Slow
  <2> QED BY <2>1 DEF Slowing
<1> QED BY <1>5, <1>6, <1>7, <1>8, <1>9, <1>10, <1>11, <1>12 DEF IInv, Typed

-----------------------------------------------------------------------------
(* Events *)

\* An emitted event is the last one that the event loop hears.
LEMMA EmitIs ==
    ASSUME ChannelOK, NEW ev \in Event, Emit(ev)
    PROVE  /\ ChannelOK'
           /\ engine.pc # "ended" => Len(events') \in Nat \ {0} /\ events'[Len(events')] = ev
<1>1. CASE engine.pc = "ended"
    BY <1>1 DEF Emit, channel, ChannelOK
<1>2. CASE engine.pc # "ended"
  <2> DEFINE q == Append(events, ev)
  <2>1. /\ events \in Seq(Event) /\ Len(events) \in Nat /\ Len(events) <= Buffer
        /\ Buffer \in Nat \ {0}
      BY LenProperties, SizesAssumption DEF ChannelOK
  <2>2. q \in Seq(Event) /\ Len(q) = Len(events) + 1 /\ q[Len(q)] = ev
      BY <2>1, AppendProperties
  <2>3. events' = Newest(q) /\ lagged' \in BOOLEAN
      BY <1>2 DEF Emit, ChannelOK
  <2> HIDE DEF q
  <2>4. CASE Len(q) > Buffer
    <3>1. q # <<>>
        BY <2>1, <2>2, EmptySeq
    <3>2. /\ Tail(q) \in Seq(Event) /\ Len(Tail(q)) = Len(q) - 1
          /\ \A i \in 1..Len(Tail(q)) : Tail(q)[i] = q[i + 1]
        BY <2>2, <3>1, HeadTailProperties
    <3>3. events' = Tail(q)
        BY <2>3, <2>4 DEF Newest
    <3>4. Len(q) = Buffer + 1 /\ Len(Tail(q)) = Buffer
        BY <2>1, <2>2, <2>4, <3>2
    <3>5. Tail(q)[Buffer] = q[Len(q)]
        BY <2>1, <3>2, <3>4
    <3> QED BY <2>1, <2>2, <2>3, <3>2, <3>3, <3>4, <3>5 DEF ChannelOK
  <2>5. CASE ~(Len(q) > Buffer)
      BY <2>1, <2>2, <2>3, <2>5 DEF Newest, ChannelOK
  <2> QED BY <2>4, <2>5
<1> QED BY <1>1, <1>2

\* What an ended event loop, or a socket that wants no update, says about the rest.
LEMMA ToldVoid ==
    ASSUME state' # "UpdateRequired" \/ engine'.pc = "ended"
    PROVE  Told'
  BY DEF Told

LEMMA ToldKept ==
    ASSUME Told, UNCHANGED events,
           state' = "UpdateRequired" => state = "UpdateRequired",
           engine'.pc # "ended" => engine.pc # "ended",
           unseen => unseen' \/ shown' = "UpdateRequired",
           shown = "UpdateRequired" => shown' = "UpdateRequired"
    PROVE  Told'
  BY DEF Told

-----------------------------------------------------------------------------
(* Steps of a loop *)

\* The loop has new locals; it works on, or it is over.
LoopTo(l, r) == /\ loops' = [loops EXCEPT ![l] = r]
                /\ r \in Loop /\ Slow(r)
                /\ \/ r.pc \notin {"ended", "lock"} /\ rx' = rx
                   \/ r.pc = "ended" /\ rx' = NoLoop

LEMMA LoopStep ==
    ASSUME IInv, NEW l \in Loops, Works(l), NEW r, LoopTo(l, r),
           UNCHANGED <<handle, revoked, sync>>,
           ChannelOK', RestOK', Told',
           state' = "UpdateRequired" => r.pc \in {"ended", "top"}
    PROVE  IInv'
<1> USE DEF LoopTo
<1>1. /\ loops \in [Loops -> Loop] /\ rx = l /\ NoLoop \notin Loops
      /\ \A k \in Loops : k # l => loops[k].pc \in {"ended", "lock"}
    BY NamesAssumption DEF IInv, Typed, LoopsOK, Works
<1>2. /\ loops' \in [Loops -> Loop]
      /\ loops'[l] = r /\ \A k \in Loops : k # l => loops'[k] = loops[k]
    BY <1>1
<1>3. LoopsOK'
  <2>1. handle' \in Loops \cup {NoLoop} /\ rx' \in Loops \cup {NoLoop}
      BY <1>1 DEF IInv, Typed, LoopsOK
  <2>2. \A k \in Loops : Works(k)' <=> k = l /\ r.pc # "ended"
      BY <1>1, <1>2 DEF Works
  <2>3. (rx' # NoLoop <=> r.pc # "ended") /\ (r.pc # "ended" => rx' = l)
      BY <1>1
  <2> QED BY <1>2, <2>1, <2>2, <2>3 DEF LoopsOK
<1>4. TasksOK' /\ First'
    BY DEF IInv, Typed, TasksOK, First, sync
<1>5. Owned'
  <2>1. \A k \in Loops : Active(k)' => Active(k)
      BY <1>1, <1>2 DEF Active, Works
  <2> QED BY <2>1 DEF IInv, Owned, AwaitedBy, sync
<1>6. Down'
  <2> SUFFICES ASSUME state' = "UpdateRequired", NEW k \in Loops
               PROVE  loops'[k].pc \notin {"connect", "open", "up", "backoff"}
      BY DEF Down
  <2> QED BY <1>1, <1>2
<1>7. Slowing'
    BY <1>2 DEF IInv, Slowing
<1> QED BY <1>3, <1>4, <1>5, <1>6, <1>7 DEF IInv, Typed

\* What the invariant says of a loop.
LEMMA LoopIs ==
    ASSUME IInv, NEW l \in Loops
    PROVE  /\ loops[l] \in Loop /\ loops[l].pc \in Pcs /\ Slow(loops[l])
           /\ loops[l].delay \in Nat /\ loops[l].attempt \in Nat
  BY SizesAssumption DEF IInv, Typed, LoopsOK, Slowing, Loop, Pcs

LEMMA GoTo ==
    ASSUME IInv, NEW l \in Loops, NEW p \in Pcs, p \notin {"ended", "lock"}, Go(l, p), rx' = rx
    PROVE  \E r : LoopTo(l, r) /\ r.pc = p
<1> DEFINE r == [loops[l] EXCEPT !.pc = p]
<1>1. loops' = [loops EXCEPT ![l] = r]
    BY DEF Go
<1>2. /\ r \in Loop /\ r.pc = p /\ r.attempt = loops[l].attempt /\ r.delay = loops[l].delay
    BY LoopIs, PcLoop
<1> HIDE DEF r
<1>3. Slow(r)
    BY <1>2, LoopIs DEF Slow
<1> QED BY <1>1, <1>2, <1>3 DEF LoopTo

LEMMA ReturnTo ==
    ASSUME NEW l \in Loops, Return(l)
    PROVE  LoopTo(l, Ended) /\ Ended.pc = "ended"
<1>1. Slow(Ended)
    BY EndedIs, BaseIsNat DEF Slow
<1> QED BY <1>1, EndedIs DEF Return, LoopTo

\* backoff_wait.
LEMMA WaitTo ==
    ASSUME IInv, NEW l \in Loops, Wait(l)
    PROVE  /\ \E r : LoopTo(l, r) /\ r.pc = "backoff"
           /\ loops'[l].delay \in Nat
           /\ loops'[l].delay >= backoff_base(loops[l].attempt) \div 2
           /\ state' = "BackingOff" /\ unseen' \in BOOLEAN
<1> DEFINE k == loops[l]
<1>1. PICK d \in backoff_delay(k.attempt) : loops' = [loops EXCEPT ![l] = Waited(k, d)]
    BY DEF Wait, Waited
<1>2. k \in Loop /\ l \in DOMAIN loops /\ rx' = rx
    BY LoopIs DEF IInv, Typed, LoopsOK, Wait
<1> DEFINE r == Waited(k, d)
<1>3. /\ r \in Loop /\ r.pc = "backoff" /\ r.delay = d /\ Slow(r)
      /\ d >= backoff_base(k.attempt) \div 2
    BY <1>2, WaitedIs
<1>4. loops' = [loops EXCEPT ![l] = r]
    BY <1>1
<1> HIDE DEF r
<1>5. LoopTo(l, r)
    BY <1>2, <1>3, <1>4 DEF LoopTo
<1>6. loops'[l] = r
    BY <1>2, <1>4
<1>7. r.delay \in Nat
    BY <1>3 DEF Loop
<1>8. state' = "BackingOff" /\ unseen' \in BOOLEAN
    BY DEF Wait, SetState
<1> QED BY <1>3, <1>5, <1>6, <1>7, <1>8

\* Steps of a loop that leave the channel of events and the state alone.
LEMMA QuietStep ==
    ASSUME IInv, NEW l \in Loops,
           Elapse(l) \/ Opened(l) \/ SendFrame(l)
    PROVE  IInv'
<1>1. state' = state /\ unseen' = unseen /\ UNCHANGED <<handle, revoked, sync, channel, notified>>
    BY DEF Elapse, Opened, SendFrame
<1>2. loops[l].pc \in {"connect", "open", "up", "backoff"} /\ Works(l) /\ state # "UpdateRequired"
    BY DEF IInv, Down, Works, Elapse, Opened, SendFrame
<1>3. outbound' \in 0..Outbound
    BY SizesAssumption DEF IInv, Typed, RestOK, Elapse, Opened, SendFrame
<1>4. ChannelOK' /\ RestOK' /\ Told'
    BY <1>1, <1>2, <1>3, ToldVoid DEF IInv, Typed, ChannelOK, RestOK, channel, sync
<1>5. CASE Elapse(l) \/ Opened(l)
  <2>1. PICK p \in {"top", "open"} : Go(l, p) /\ rx' = rx
      BY <1>5 DEF Elapse, Opened
  <2>2. PICK r : LoopTo(l, r) /\ r.pc = p
      BY <2>1, GoTo DEF Pcs
  <2> QED BY <1>1, <1>2, <1>4, <2>2, LoopStep
<1>6. CASE SendFrame(l)
  <2>1. UNCHANGED connection
      BY <1>6 DEF SendFrame
  <2> QED BY <1>1, <1>4, <2>1 DEF IInv, Typed, LoopsOK, Works, Owned, Active, AwaitedBy, First,
                                  Down, Slowing, TasksOK, connection, sync
<1> QED BY <1>5, <1>6

LEMMA BeginStep ==
    ASSUME IInv, NEW l \in Loops, Begin(l)
    PROVE  IInv'
<1>1. /\ Works(l) /\ state' = "Connecting" /\ unseen' \in BOOLEAN
      /\ UNCHANGED <<handle, revoked, sync, channel, outbound, notified>>
    BY DEF Begin, Works, SetState
<1>2. PICK r : LoopTo(l, r) /\ r.pc = "connect"
    BY GoTo DEF Begin, Pcs
<1>3. ChannelOK' /\ RestOK' /\ Told'
    BY <1>1, ToldVoid DEF IInv, Typed, ChannelOK, RestOK, States, channel, sync
<1> QED BY <1>1, <1>2, <1>3, LoopStep

\* A loop that ends sets Idle, unless an update is required.
LEMMA SetIdleIs ==
    ASSUME RestOK, SetIdle
    PROVE  /\ state' \in States /\ unseen' \in BOOLEAN /\ (unseen => unseen')
           /\ state' = "UpdateRequired" => state = "UpdateRequired" /\ unseen' = unseen
  BY DEF RestOK, SetIdle, SetState, States

LEMMA StoppedStep ==
    ASSUME IInv, NEW l \in Loops, Stopped(l)
    PROVE  IInv'
<1>1. /\ Works(l) /\ Return(l) /\ SetIdle
      /\ UNCHANGED <<revoked, handle, outbound, notified, sync>>
      /\ loops[l].pc \in {"open", "up"} => Emit("other")
      /\ loops[l].pc \notin {"open", "up"} => UNCHANGED channel
    BY DEF Stopped, Works, End
<1>2. LoopTo(l, Ended) /\ Ended.pc = "ended"
    BY <1>1, ReturnTo
<1>3. ChannelOK'
    BY <1>1, EmitIs DEF IInv, Typed, ChannelOK, channel, Event
<1>4. RestOK' /\ (state' = "UpdateRequired" => state = "UpdateRequired" /\ unseen' = unseen)
    BY <1>1, SetIdleIs DEF IInv, Typed, RestOK, sync
<1>5. Told'
  <2>1. CASE state' = "UpdateRequired"
    <3>1. UNCHANGED channel
        BY <1>1, <1>4, <2>1 DEF IInv, Down
    <3> QED BY <1>1, <1>4, <2>1, <3>1, ToldKept DEF IInv, sync, channel
  <2>2. CASE state' # "UpdateRequired"
      BY <2>2, ToldVoid
  <2> QED BY <2>1, <2>2
<1> QED BY <1>1, <1>2, <1>3, <1>4, <1>5, LoopStep

\* The connection or the attempt ends: the loop waits for another attempt, or is over.
LEMMA EndsStep ==
    ASSUME IInv, NEW l \in Loops, Revoked(l) \/ Refused(l) \/ Dropped(l)
    PROVE  IInv'
<1>1. /\ loops[l].pc \in {"connect", "open", "up"} /\ Works(l) /\ Emit("other")
      /\ UNCHANGED <<revoked, handle, outbound, sync>> /\ notified' \in {notified, TRUE}
      /\ state # "UpdateRequired"
    BY DEF Revoked, Refused, Dropped, Works, IInv, Down
<1>2. ChannelOK'
    BY <1>1, EmitIs DEF IInv, Typed, Event
<1>3. CASE End(l)
  <2>1. LoopTo(l, Ended) /\ Ended.pc = "ended"
      BY <1>3, ReturnTo DEF End
  <2>2. RestOK' /\ state' # "UpdateRequired"
      BY <1>1, <1>3, SetIdleIs DEF End, IInv, Typed, RestOK, sync
  <2> QED BY <1>1, <1>2, <2>1, <2>2, ToldVoid, LoopStep
<1>4. CASE Wait(l)
  <2>1. PICK r : LoopTo(l, r) /\ r.pc = "backoff"
      BY <1>4, WaitTo
  <2>2. state' = "BackingOff" /\ unseen' \in BOOLEAN
      BY <1>4, WaitTo
  <2>3. RestOK'
      BY <1>1, <2>2 DEF IInv, Typed, RestOK, States, sync
  <2> QED BY <1>1, <1>2, <2>1, <2>2, <2>3, ToldVoid, LoopStep
<1> QED BY <1>3, <1>4 DEF Revoked, Refused, Dropped

\* The event of the update is the last one, and no connection is left that could emit another.
LEMMA OutdatedStep ==
    ASSUME IInv, NEW l \in Loops, Outdated(l)
    PROVE  IInv'
<1>1. /\ loops[l].pc \in {"open", "up"} /\ Works(l) /\ Emit("update") /\ Return(l)
      /\ state' = "UpdateRequired" /\ unseen' = (unseen \/ state # "UpdateRequired")
      /\ UNCHANGED <<revoked, handle, outbound, notified, sync>>
    BY DEF Outdated, Works, SetState
<1>2. LoopTo(l, Ended) /\ Ended.pc = "ended"
    BY <1>1, ReturnTo
<1>3. /\ ChannelOK'
      /\ engine.pc # "ended" => Len(events') \in Nat \ {0} /\ events'[Len(events')] = "update"
    BY <1>1, EmitIs DEF IInv, Typed, Event
<1>4. RestOK'
    BY <1>1 DEF IInv, Typed, RestOK, States, sync
<1>5. Told'
  <2> SUFFICES ASSUME engine'.pc # "ended"
               PROVE  /\ \A i \in 1..Len(events') : events'[i] = "connected" =>
                             \E j \in 1..Len(events') : j > i /\ events'[j] = "update"
                      /\ \E j \in 1..Len(events') : events'[j] = "update"
      BY DEF Told
  <2> DEFINE n == Len(events')
  <2>1. n \in Nat \ {0} /\ events'[n] = "update"
      BY <1>1, <1>3 DEF sync
  <2> HIDE DEF n
  <2>2. n \in 1..n /\ \A i \in 1..n : events'[i] = "connected" => n > i
      BY <2>1
  <2> QED BY <2>1, <2>2 DEF n
<1> QED BY <1>1, <1>2, <1>3, <1>4, <1>5, LoopStep

LEMMA HelloStep ==
    ASSUME IInv, NEW l \in Loops, Hello(l)
    PROVE  IInv'
<1> DEFINE r == Greeted(loops[l])
<1>1. /\ Works(l) /\ Emit("connected") /\ state' = "Connected" /\ unseen' \in BOOLEAN
      /\ UNCHANGED <<revoked, handle, rx, outbound, notified, sync>>
    BY DEF Hello, Works, SetState
<1>2. loops' = [loops EXCEPT ![l] = r]
    BY DEF Hello, Greeted
<1>3. r \in Loop /\ r.pc = "up" /\ r.attempt = 0 /\ r.delay = 0
    BY LoopIs, GreetedIs
<1> HIDE DEF r
<1>4. LoopTo(l, r)
  <2>1. Slow(r)
      BY <1>3, BaseIsNat DEF Slow
  <2> QED BY <1>1, <1>2, <1>3, <2>1 DEF LoopTo
<1>5. ChannelOK' /\ RestOK' /\ Told'
    BY <1>1, EmitIs, ToldVoid DEF IInv, Typed, Event, RestOK, States, sync
<1> QED BY <1>1, <1>3, <1>4, <1>5, LoopStep

LEMMA MessagesStep ==
    ASSUME IInv, NEW l \in Loops, Messages(l)
    PROVE  IInv'
<1>1. /\ loops[l].pc = "up" /\ Emit("msg")
      /\ UNCHANGED <<revoked, handle, connection, state, unseen, outbound, notified, sync>>
    BY DEF Messages
<1>2. ChannelOK'
    BY <1>1, EmitIs DEF IInv, Typed, Event
<1>3. state' # "UpdateRequired"
    BY <1>1 DEF IInv, Down
<1>4. Down' /\ Told'
    BY <1>3, ToldVoid DEF Down
<1> QED BY <1>1, <1>2, <1>4
        DEF IInv, Typed, LoopsOK, RestOK, TasksOK, Works, Owned, Active, AwaitedBy, First, Slowing,
            connection, sync

\* A loop that waits for outbound_rx takes it.
LEMMA AcquireStep ==
    ASSUME IInv, NEW l \in Loops, Acquire(l)
    PROVE  IInv'
<1> DEFINE r == [loops[l] EXCEPT !.pc = "top"]
<1>1. /\ loops[l].pc = "lock" /\ rx = NoLoop /\ rx' = l /\ loops' = [loops EXCEPT ![l] = r]
      /\ UNCHANGED <<revoked, handle, state, unseen, channel, outbound, notified, sync>>
    BY DEF Acquire, Go
<1>2. /\ r \in Loop /\ r.pc = "top" /\ r.attempt = loops[l].attempt /\ r.delay = loops[l].delay
    BY LoopIs, PcLoop DEF Pcs
<1> HIDE DEF r
<1>3. /\ loops' \in [Loops -> Loop] /\ loops'[l] = r
      /\ \A k \in Loops : k # l => loops'[k] = loops[k] /\ ~Works(k)
    BY <1>1, <1>2 DEF IInv, Typed, LoopsOK
<1>4. LoopsOK'
    BY <1>1, <1>2, <1>3, NamesAssumption DEF IInv, Typed, LoopsOK, Works
<1>5. ChannelOK' /\ RestOK' /\ TasksOK' /\ First' /\ Told'
    BY <1>1, ToldKept DEF IInv, Typed, ChannelOK, RestOK, TasksOK, First, channel, sync
<1>6. Owned'
  <2>1. \A k \in Loops : Active(k)' => Active(k)
      BY <1>1, <1>3 DEF Active
  <2> QED BY <1>1, <2>1 DEF IInv, Owned, AwaitedBy, sync
<1>7. Down' /\ Slowing'
    BY <1>1, <1>2, <1>3 DEF IInv, Down, Slowing, Slow
<1> QED BY <1>4, <1>5, <1>6, <1>7 DEF IInv, Typed

-----------------------------------------------------------------------------
(* Steps of the event loop *)

\* The loops stay as they are.
LEMMA LoopsKept ==
    ASSUME IInv, UNCHANGED <<handle, connection>>
    PROVE  /\ LoopsOK' /\ Slowing' /\ (\A l \in Loops : Active(l)' <=> Active(l))
           /\ (state' = "UpdateRequired" => state = "UpdateRequired") => Down'
  BY DEF IInv, Typed, LoopsOK, Works, Slowing, Active, Down, connection

LEMMA LeaveStep ==
    ASSUME IInv, Leave
    PROVE  IInv'
<1>1. /\ engine' = Placed(engine, "ended", NoLoop) /\ engine.pc = "select"
      /\ engine.stop /\ events' = <<>> /\ lagged' = FALSE
      /\ UNCHANGED <<revoked, handle, connection, state, unseen, outbound, notified, task, shown, callers>>
    BY DEF Leave, At, Placed, Selecting
<1>2. engine \in Engine
    BY DEF IInv, Typed, TasksOK
<1>3. engine' \in Engine /\ engine'.pc = "ended"
    BY <1>1, <1>2, EngineAt DEF EnginePcs
<1>4. LoopsOK' /\ Slowing' /\ Down' /\ Told'
    BY <1>1, <1>3, LoopsKept, ToldVoid
<1>5. ChannelOK'
  <2>1. <<>> \in Seq(Event) /\ Len(<<>>) = 0 /\ Buffer \in Nat
      BY EmptySeq, SizesAssumption
  <2>2. events' \in Seq(Event) /\ Len(events') = 0
      BY <1>1, <2>1
  <2>3. lagged' \in BOOLEAN /\ Buffer \in Nat
      BY <1>1, <2>1
  <2> QED BY <2>2, <2>3 DEF ChannelOK
<1>6. RestOK' /\ TasksOK'
    BY <1>1, <1>3 DEF IInv, Typed, RestOK, TasksOK
<1>7. Owned'
    BY <1>1, LoopsKept DEF IInv, Owned, AwaitedBy
<1>8. First'
    BY <1>1, <1>3 DEF IInv, First
<1> QED BY <1>4, <1>5, <1>6, <1>7, <1>8 DEF IInv, Typed

LEMMA SeeStateStep ==
    ASSUME IInv, SeeState
    PROVE  IInv'
<1>1. /\ unseen' = FALSE /\ shown' = state
      /\ UNCHANGED <<revoked, handle, connection, state, channel, outbound, notified, task, engine, callers>>
    BY DEF SeeState
<1>2. LoopsOK' /\ Slowing' /\ Down' /\ Owned'
    BY <1>1, LoopsKept DEF IInv, Owned, AwaitedBy
<1>3. ChannelOK' /\ RestOK' /\ TasksOK' /\ First'
    BY <1>1 DEF IInv, Typed, ChannelOK, RestOK, TasksOK, First, channel
<1>4. Told'
    BY <1>1 DEF IInv, Told, channel
<1> QED BY <1>2, <1>3, <1>4 DEF IInv, Typed

\* The event loop goes from one place to another, none of which is a wait for a loop.
LEMMA EngineMoves ==
    ASSUME IInv, NEW p \in EnginePcs \ {"ended"}, NEW l \in Loops \cup {NoLoop},
           engine' = Placed(engine, p, l), engine.pc # "ended",
           UNCHANGED <<task, callers>>
    PROVE  TasksOK' /\ First' /\ engine'.pc = p /\ engine'.loop = l
<1>1. engine' \in Engine /\ engine'.pc = p /\ engine'.stop = engine.stop /\ engine'.loop = l
    BY EngineAt DEF IInv, Typed, TasksOK
<1> QED BY <1>1 DEF IInv, Typed, TasksOK, First

LEMMA HandleEventStep ==
    ASSUME IInv, HandleEvent
    PROVE  IInv'
<1>1. /\ engine.pc = "select" /\ events # <<>> /\ events' = Tail(events)
      /\ shown' = CASE Head(events) = "connected" -> "Connected"
                    [] Head(events) = "update" -> "UpdateRequired"
                    [] OTHER -> shown
      /\ UNCHANGED <<revoked, handle, connection, state, unseen, lagged, outbound, notified, task, callers>>
    BY DEF HandleEvent, Selecting
<1>2. /\ events \in Seq(Event) /\ Len(events) \in Nat \ {0} /\ Len(events) <= Buffer /\ Buffer \in Nat
      /\ Tail(events) \in Seq(Event) /\ Len(Tail(events)) = Len(events) - 1
      /\ \A i \in 1..Len(Tail(events)) : Tail(events)[i] = events[i + 1]
      /\ Head(events) = events[1]
    BY <1>1, LenProperties, EmptySeq, HeadTailProperties, SizesAssumption DEF IInv, Typed, ChannelOK
<1>3. ChannelOK'
    BY <1>1, <1>2 DEF IInv, Typed, ChannelOK
<1>4. shown' \in States
    BY <1>1 DEF IInv, Typed, RestOK, States
<1>5. RestOK'
    BY <1>1, <1>4 DEF IInv, Typed, RestOK
<1>6. TasksOK' /\ First' /\ engine'.pc \in {"select", "ack"}
  <2>1. CASE Head(events) = "msg"
      BY <1>1, <2>1, EngineMoves DEF HandleEvent, At, Placed, EnginePcs
  <2>2. CASE Head(events) # "msg"
      BY <1>1, <2>2 DEF HandleEvent, IInv, Typed, TasksOK, First
  <2> QED BY <2>1, <2>2
<1>7. LoopsOK' /\ Slowing' /\ Down' /\ Owned'
    BY <1>1, <1>6, LoopsKept DEF IInv, Owned, AwaitedBy
<1>8. Told'
  <2> DEFINE n == Len(events')
  <2>1. /\ n = Len(events) - 1 /\ n \in Nat /\ \A i \in 1..n : events'[i] = events[i + 1]
        /\ Head(events) = events[1]
      BY <1>1, <1>2
  <2> HIDE DEF n
  <2> SUFFICES ASSUME state' = "UpdateRequired"
               PROVE  /\ \A i \in 1..n : events'[i] = "connected" =>
                             \E j \in 1..n : j > i /\ events'[j] = "update"
                      /\ unseen' \/ shown' = "UpdateRequired" \/ \E j \in 1..n : events'[j] = "update"
      BY DEF Told, n
  <2>2. /\ \A i \in 1..n + 1 : events[i] = "connected" =>
               \E j \in 1..n + 1 : j > i /\ events[j] = "update"
        /\ unseen \/ shown = "UpdateRequired" \/ \E j \in 1..n + 1 : events[j] = "update"
      BY <1>1, <1>2, <2>1 DEF IInv, Told
  <2>3. \A j \in 1..n + 1 : j = 1 \/ (j - 1 \in 1..n /\ events'[j - 1] = events[j])
      BY <2>1
  <2>4. ASSUME NEW i \in 1..n, events'[i] = "connected"
        PROVE  \E j \in 1..n : j > i /\ events'[j] = "update"
    <3>1. i + 1 \in 1..n + 1 /\ events[i + 1] = "connected"
        BY <2>1, <2>4
    <3>2. PICK j \in 1..n + 1 : j > i + 1 /\ events[j] = "update"
        BY <2>2, <3>1
    <3>3. j - 1 \in 1..n /\ j - 1 > i /\ events'[j - 1] = "update"
        BY <2>1, <2>3, <3>2
    <3> QED BY <3>3
  <2>5. CASE Head(events) = "connected"
    <3>1. PICK j \in 1..n + 1 : j > 1 /\ events[j] = "update"
        BY <2>1, <2>2, <2>5
    <3>2. j - 1 \in 1..n /\ events'[j - 1] = "update"
        BY <2>1, <2>3, <3>1
    <3> QED BY <2>4, <3>2
  <2>6. CASE Head(events) = "update"
      BY <1>1, <2>4, <2>6
  <2>7. CASE Head(events) \notin {"connected", "update"}
    <3>1. shown' = shown /\ unseen' = unseen
        BY <1>1, <2>7
    <3>2. ASSUME NEW j \in 1..n + 1, events[j] = "update"
          PROVE  \E k \in 1..n : events'[k] = "update"
        BY <2>1, <2>3, <2>7, <3>2
    <3> QED BY <2>2, <2>4, <3>1, <3>2
  <2> QED BY <2>5, <2>6, <2>7
<1> QED BY <1>3, <1>5, <1>6, <1>7, <1>8 DEF IInv, Typed

LEMMA AckStep ==
    ASSUME IInv, Ack
    PROVE  IInv'
<1>1. /\ engine.pc = "ack" /\ engine' = Placed(engine, "select", NoLoop)
      /\ outbound < Outbound /\ outbound' = outbound + 1
      /\ UNCHANGED <<revoked, handle, connection, state, unseen, channel, notified, task, shown, callers>>
    BY DEF Ack, At, Placed
<1>2. TasksOK' /\ First' /\ engine'.pc = "select"
    BY <1>1, EngineMoves DEF EnginePcs
<1>3. RestOK' /\ ChannelOK' /\ Told'
    BY <1>1, SizesAssumption, ToldKept DEF IInv, Typed, RestOK, ChannelOK, channel
<1>4. LoopsOK' /\ Slowing' /\ Down' /\ Owned'
    BY <1>1, <1>2, LoopsKept DEF IInv, Owned, AwaitedBy
<1> QED BY <1>2, <1>3, <1>4 DEF IInv, Typed

LEMMA HandleLaggedStep ==
    ASSUME IInv, HandleLagged
    PROVE  IInv'
<1>1. /\ engine.pc = "select" /\ lagged' = FALSE
      /\ UNCHANGED <<revoked, handle, connection, state, unseen, events, outbound, notified, task,
                     shown, callers>>
    BY DEF HandleLagged, Selecting
<1>2. TasksOK' /\ First' /\ engine'.pc \in {"select", "take"}
  <2>1. CASE handle = NoLoop
      BY <1>1, <2>1 DEF HandleLagged, IInv, Typed, TasksOK, First
  <2>2. CASE handle # NoLoop
      BY <1>1, <2>2, EngineMoves DEF HandleLagged, At, Placed, EnginePcs
  <2> QED BY <2>1, <2>2
<1>3. RestOK' /\ ChannelOK' /\ Told'
    BY <1>1, <1>2, ToldKept DEF IInv, Typed, RestOK, ChannelOK
<1>4. LoopsOK' /\ Slowing' /\ Down' /\ Owned'
    BY <1>1, <1>2, LoopsKept DEF IInv, Owned, AwaitedBy
<1> QED BY <1>2, <1>3, <1>4 DEF IInv, Typed

\* The task is taken and told to stop; where its loop is does not change.
LEMMA TakeIs ==
    ASSUME IInv, Take
    PROVE  /\ handle' = NoLoop /\ loops' \in [Loops -> Loop]
           /\ \A l \in Loops : /\ loops'[l].pc = loops[l].pc /\ loops'[l].delay = loops[l].delay
                               /\ loops'[l].attempt = loops[l].attempt
<1>1. loops \in [Loops -> Loop] /\ handle \in Loops \cup {NoLoop} /\ handle' = NoLoop
    BY DEF IInv, Typed, LoopsOK, Take
<1>2. CASE handle = NoLoop
    BY <1>1, <1>2 DEF Take
<1>3. CASE handle # NoLoop
  <2> DEFINE b == Active(handle)
             r == [loops[handle] EXCEPT !.stop = b]
  <2>1. loops' = [loops EXCEPT ![handle] = r] /\ handle \in Loops
      BY <1>1, <1>3 DEF Take
  <2>2. b \in BOOLEAN
      BY DEF Active
  <2> HIDE DEF b
  <2>3. /\ r \in Loop /\ r.pc = loops[handle].pc /\ r.delay = loops[handle].delay
        /\ r.attempt = loops[handle].attempt
      BY <1>1, <2>1, <2>2, StopLoop
  <2> HIDE DEF r
  <2> QED BY <1>1, <2>1, <2>3
<1> QED BY <1>2, <1>3

LEMMA TakeKeeps ==
    ASSUME IInv, Take, UNCHANGED <<rx, state>>
    PROVE  /\ LoopsOK' /\ Slowing' /\ Down' /\ handle' = NoLoop
           /\ \A l \in Loops : Active(l)' <=> Active(l)
  BY TakeIs DEF IInv, Typed, LoopsOK, Works, Slowing, Slow, Down, Active

LEMMA StopFirstStep ==
    ASSUME IInv, StopFirst
    PROVE  IInv'
<1>1. /\ engine.pc = "take" /\ Take /\ engine' = Placed(engine, "await", handle)
      /\ UNCHANGED <<revoked, rx, state, unseen, channel, outbound, notified, task, shown, callers>>
    BY DEF StopFirst, At, Placed
<1>2. handle \in Loops \cup {NoLoop}
    BY DEF IInv, Typed, LoopsOK
<1>3. TasksOK' /\ First' /\ engine'.pc = "await" /\ engine'.loop = handle
    BY <1>1, <1>2, EngineMoves DEF EnginePcs
<1>4. RestOK' /\ ChannelOK' /\ Told'
    BY <1>1, ToldKept DEF IInv, Typed, RestOK, ChannelOK, channel
<1>5. LoopsOK' /\ Slowing' /\ Down'
    BY <1>1, TakeKeeps
<1>6. Owned'
    BY <1>1, <1>3, TakeKeeps DEF IInv, Owned, AwaitedBy
<1> QED BY <1>3, <1>4, <1>5, <1>6 DEF IInv, Typed

LEMMA ReconnectingStep ==
    ASSUME IInv, Reconnecting
    PROVE  IInv'
<1>1. /\ engine.pc = "await" /\ Over(engine.loop) /\ SetIdle
      /\ engine' = Placed(engine, "restart", NoLoop)
      /\ UNCHANGED <<revoked, handle, connection, channel, outbound, notified, task, shown, callers>>
    BY DEF Reconnecting, At, Placed
<1>2. TasksOK' /\ First' /\ engine'.pc = "restart"
    BY <1>1, NamesAssumption, EngineMoves DEF EnginePcs
<1>3. /\ state' \in States /\ unseen' \in BOOLEAN /\ (unseen => unseen')
      /\ state' = "UpdateRequired" => state = "UpdateRequired"
    BY <1>1, SetIdleIs DEF IInv, Typed
<1>4. RestOK' /\ ChannelOK' /\ Told'
    BY <1>1, <1>3, ToldKept DEF IInv, Typed, RestOK, ChannelOK, channel
<1>5. LoopsOK' /\ Slowing' /\ Down'
    BY <1>1, <1>3, LoopsKept
<1>6. Owned'
    BY <1>1, LoopsKept DEF IInv, Owned, AwaitedBy, Over
<1> QED BY <1>2, <1>4, <1>5, <1>6 DEF IInv, Typed

LEMMA RestartStep ==
    ASSUME IInv, Restart
    PROVE  IInv'
<1>1. /\ engine.pc = "restart" /\ Start /\ engine' = Placed(engine, "select", NoLoop)
      /\ UNCHANGED <<revoked, rx, state, unseen, channel, outbound, notified, task, shown, callers>>
    BY DEF Restart, At, Placed
<1>2. TasksOK' /\ First' /\ engine'.pc = "select"
  <2>1. /\ engine' \in Engine /\ engine'.pc = "select" /\ engine'.stop = engine.stop
      BY <1>1, EngineAt DEF IInv, Typed, TasksOK, EnginePcs
  <2> QED BY <1>1, <2>1 DEF IInv, Typed, TasksOK, First
<1>3. RestOK' /\ ChannelOK' /\ Told'
    BY <1>1, <1>2, ToldKept DEF IInv, Typed, RestOK, ChannelOK, channel
<1>4. CASE UNCHANGED <<handle, loops>>
  <2>1. UNCHANGED connection
      BY <1>1, <1>4 DEF connection
  <2> QED BY <1>1, <1>2, <1>3, <1>4, <2>1, LoopsKept DEF IInv, Typed, Owned, AwaitedBy
<1>5. CASE ~UNCHANGED <<handle, loops>>
  <2> DEFINE h == CHOOSE l \in Loops : Spare(l)
             r == [Ended EXCEPT !.pc = "lock"]
  <2>1. /\ handle = NoLoop /\ state # "UpdateRequired" /\ \E l \in Loops : Spare(l)
        /\ handle' = h /\ loops' = [loops EXCEPT ![handle'] = [Ended EXCEPT !.pc = "lock"]]
      BY <1>1, <1>5 DEF Start
  <2>2. h \in Loops /\ Spare(h)
      BY <2>1
  <2> HIDE DEF h
  <2>3. r \in Loop /\ r.pc = "lock" /\ r.delay = 0 /\ r.attempt = 0
      BY EndedIs, PcLoop DEF Pcs
  <2>4. loops' = [loops EXCEPT ![h] = r]
      BY <2>1
  <2> HIDE DEF r
  <2>5. /\ loops' \in [Loops -> Loop] /\ loops'[h] = r
        /\ \A l \in Loops : l # h => loops'[l] = loops[l]
        /\ loops[h].pc = "ended"
      BY <2>2, <2>3, <2>4 DEF IInv, Typed, LoopsOK, Spare
  <2>6. LoopsOK'
      BY <1>1, <2>1, <2>2, <2>3, <2>5 DEF IInv, Typed, LoopsOK, Works
  <2>7. Owned'
      BY <1>1, <2>1, <2>2, <2>5, NamesAssumption DEF IInv, Owned, Active, AwaitedBy
  <2>8. Slowing'
    <3>1. Slow(r)
        BY <2>3, BaseIsNat DEF Slow
    <3> QED BY <2>5, <3>1 DEF IInv, Slowing
  <2>9. Down'
      BY <1>1, <2>1 DEF Down
  <2> QED BY <1>2, <1>3, <2>6, <2>7, <2>8, <2>9 DEF IInv, Typed
<1> QED BY <1>4, <1>5

-----------------------------------------------------------------------------
(* Steps of those who stop *)

LEMMA MoveIs ==
    ASSUME IInv, NEW c \in Callers, NEW p \in CallerPcs, NEW l \in Loops \cup {NoLoop}, Move(c, p, l)
    PROVE  /\ callers' \in [Callers -> Caller]
           /\ callers'[c].pc = p /\ callers'[c].loop = l
           /\ \A d \in Callers : d # c => callers'[d] = callers[d]
  BY DEF IInv, Typed, TasksOK, Move, Caller

LEMMA StopStep ==
    ASSUME IInv, NEW c \in Callers, Stop(c)
    PROVE  IInv'
<1>1. /\ callers[c].pc = "idle" /\ task' = FALSE
      /\ UNCHANGED <<revoked, handle, connection, state, unseen, channel, outbound, notified, shown>>
    BY DEF Stop
<1>2. /\ engine' \in Engine /\ engine'.pc = engine.pc /\ engine'.loop = engine.loop
      /\ \/ task /\ Move(c, "engine", NoLoop)
         \/ ~task /\ Move(c, "socket", NoLoop)
    BY EngineStop DEF Stop, IInv, Typed, TasksOK
<1>3. /\ callers' \in [Callers -> Caller]
      /\ callers'[c].pc = (IF task THEN "engine" ELSE "socket") /\ callers'[c].loop = NoLoop
      /\ \A d \in Callers : d # c => callers'[d] = callers[d]
    BY <1>2, MoveIs DEF CallerPcs
<1>4. TasksOK'
    BY <1>2, <1>3 DEF TasksOK
<1>5. First'
    BY <1>1, <1>2, <1>3 DEF IInv, First
<1>6. RestOK' /\ ChannelOK' /\ Told'
    BY <1>1, <1>2, ToldKept DEF IInv, Typed, RestOK, ChannelOK, channel
<1>7. LoopsOK' /\ Slowing' /\ Down'
    BY <1>1, LoopsKept
<1>8. Owned'
    BY <1>1, <1>2, <1>3, LoopsKept DEF IInv, Owned, AwaitedBy
<1> QED BY <1>4, <1>5, <1>6, <1>7, <1>8 DEF IInv, Typed

LEMMA AwaitEngineStep ==
    ASSUME IInv, NEW c \in Callers, AwaitEngine(c)
    PROVE  IInv'
<1>1. /\ callers[c].pc = "engine" /\ engine.pc = "ended" /\ Move(c, "socket", NoLoop)
      /\ UNCHANGED <<revoked, handle, connection, state, unseen, channel, outbound, notified, task,
                     engine, shown>>
    BY DEF AwaitEngine
<1>2. /\ callers' \in [Callers -> Caller] /\ callers'[c].pc = "socket"
      /\ \A d \in Callers : d # c => callers'[d] = callers[d]
    BY <1>1, MoveIs DEF CallerPcs
<1>3. TasksOK' /\ First'
    BY <1>1, <1>2 DEF IInv, Typed, TasksOK, First
<1>4. RestOK' /\ ChannelOK' /\ Told'
    BY <1>1, ToldKept DEF IInv, Typed, RestOK, ChannelOK, channel
<1>5. LoopsOK' /\ Slowing' /\ Down' /\ Owned'
    BY <1>1, <1>2, LoopsKept DEF IInv, Owned, AwaitedBy
<1> QED BY <1>3, <1>4, <1>5 DEF IInv, Typed

LEMMA StopSocketStep ==
    ASSUME IInv, NEW c \in Callers, StopSocket(c)
    PROVE  IInv'
<1>1. /\ callers[c].pc = "socket" /\ Take /\ Move(c, "await", handle)
      /\ UNCHANGED <<revoked, rx, state, unseen, channel, outbound, notified, task, engine, shown>>
    BY DEF StopSocket
<1>2. /\ callers' \in [Callers -> Caller] /\ callers'[c].pc = "await" /\ callers'[c].loop = handle
      /\ \A d \in Callers : d # c => callers'[d] = callers[d]
  <2>1. handle \in Loops \cup {NoLoop}
      BY DEF IInv, Typed, LoopsOK
  <2> QED BY <1>1, <2>1, MoveIs DEF CallerPcs
<1>3. LoopsOK' /\ Slowing' /\ Down' /\ handle' = NoLoop
    BY <1>1, TakeKeeps
<1>4. TasksOK' /\ First'
    BY <1>1, <1>2, <1>3 DEF IInv, Typed, TasksOK, First
<1>5. RestOK' /\ ChannelOK' /\ Told'
    BY <1>1, ToldKept DEF IInv, Typed, RestOK, ChannelOK, channel
<1>6. Owned'
    BY <1>1, <1>2, TakeKeeps DEF IInv, Owned, AwaitedBy
<1> QED BY <1>3, <1>4, <1>5, <1>6 DEF IInv, Typed

\* What a caller awaited is over.
LEMMA AwaitSocketStep ==
    ASSUME IInv, NEW c \in Callers, AwaitSocket(c)
    PROVE  IInv'
<1>1. /\ callers[c].pc = "await" /\ Over(callers[c].loop) /\ SetIdle /\ Move(c, "finish", NoLoop)
      /\ UNCHANGED <<revoked, handle, connection, channel, outbound, notified, task, engine, shown>>
    BY DEF AwaitSocket
<1>2. /\ callers' \in [Callers -> Caller] /\ callers'[c].pc = "finish"
      /\ \A d \in Callers : d # c => callers'[d] = callers[d]
    BY <1>1, MoveIs DEF CallerPcs
<1>3. /\ state' \in States /\ unseen' \in BOOLEAN /\ (unseen => unseen')
      /\ state' = "UpdateRequired" => state = "UpdateRequired"
    BY <1>1, SetIdleIs DEF IInv, Typed
<1>4. TasksOK' /\ First'
    BY <1>1, <1>2 DEF IInv, Typed, TasksOK, First
<1>5. RestOK' /\ ChannelOK' /\ Told'
    BY <1>1, <1>3, ToldKept DEF IInv, Typed, RestOK, ChannelOK, channel
<1>6. LoopsOK' /\ Slowing' /\ Down'
    BY <1>1, <1>3, LoopsKept
<1>7. Owned'
    BY <1>1, <1>2, LoopsKept DEF IInv, Owned, AwaitedBy, Over
<1> QED BY <1>4, <1>5, <1>6, <1>7 DEF IInv, Typed

LEMMA FinishStep ==
    ASSUME IInv, NEW c \in Callers, Finish(c)
    PROVE  IInv'
<1>1. /\ callers[c].pc = "finish" /\ Move(c, "done", NoLoop)
      /\ shown' = IF shown = "UpdateRequired" THEN shown ELSE "Idle"
      /\ UNCHANGED <<revoked, handle, connection, state, unseen, channel, outbound, notified, task,
                     engine>>
    BY DEF Finish
<1>2. /\ callers' \in [Callers -> Caller] /\ callers'[c].pc = "done"
      /\ \A d \in Callers : d # c => callers'[d] = callers[d]
    BY <1>1, MoveIs DEF CallerPcs
<1>3. TasksOK' /\ First'
    BY <1>1, <1>2 DEF IInv, Typed, TasksOK, First
<1>4. RestOK' /\ ChannelOK'
    BY <1>1 DEF IInv, Typed, RestOK, States, ChannelOK, channel
<1>5. Told'
    BY <1>1, ToldKept DEF IInv, channel
<1>6. LoopsOK' /\ Slowing' /\ Down' /\ Owned'
    BY <1>1, <1>2, LoopsKept DEF IInv, Owned, AwaitedBy
<1> QED BY <1>3, <1>4, <1>5, <1>6 DEF IInv, Typed

\* The server ends the session, or nothing happens.
LEMMA RevokeStep ==
    ASSUME IInv, Revoke \/ UNCHANGED vars
    PROVE  IInv'
<1>1. /\ revoked' \in BOOLEAN
      /\ UNCHANGED <<handle, connection, state, unseen, channel, outbound, notified, sync>>
    BY DEF Revoke, vars, connection, channel, sync, IInv, Typed, RestOK
<1>2. LoopsOK' /\ Slowing' /\ Down' /\ Owned'
    BY <1>1, LoopsKept DEF IInv, Owned, AwaitedBy, sync
<1>3. RestOK' /\ ChannelOK' /\ TasksOK' /\ First'
    BY <1>1 DEF IInv, Typed, RestOK, ChannelOK, TasksOK, First, channel, sync
<1>4. Told'
    BY <1>1, ToldKept DEF IInv, channel, sync
<1> QED BY <1>2, <1>3, <1>4 DEF IInv, Typed

LEMMA NextKeeps == IInv /\ [Next]_vars => IInv'
<1> SUFFICES ASSUME IInv, [Next]_vars PROVE IInv'
    OBVIOUS
<1>1. CASE Revoke \/ UNCHANGED vars
    BY <1>1, RevokeStep
<1>2. CASE \E l \in Loops : Runs(l)
    BY <1>2, AcquireStep, BeginStep, QuietStep, EndsStep, StoppedStep DEF Runs, GivesUp
<1>3. CASE \E l \in Loops : Hello(l) \/ Outdated(l) \/ Dropped(l) \/ Messages(l) \/ SendFrame(l)
    BY <1>3, HelloStep, OutdatedStep, EndsStep, MessagesStep, QuietStep
<1>4. CASE Select \/ Ack
    BY <1>4, LeaveStep, SeeStateStep, HandleEventStep, HandleLaggedStep, AckStep DEF Select
<1>5. CASE Reconnect
    BY <1>5, StopFirstStep, ReconnectingStep, RestartStep DEF Reconnect
<1>6. CASE \E c \in Callers : Stop(c) \/ Stops(c)
    BY <1>6, StopStep, AwaitEngineStep, StopSocketStep, AwaitSocketStep, FinishStep DEF Stops
<1> QED BY <1>1, <1>2, <1>3, <1>4, <1>5, <1>6 DEF Next

LEMMA Invariant == Spec => []IInv
  BY InitHolds, NextKeeps, PTL DEF Spec

-----------------------------------------------------------------------------
(* Theorems *)

\* SyncEngine::stop and TzibburSocket::stop: once all who began to stop the engine have
\* returned, neither the event loop nor a connection is left, however many there were and
\* whatever the event loop was restarting, for any size of the channels.
THEOREM NothingIsLeftBehind == Spec => []QuietAfterStop
<1>1. IInv => QuietAfterStop
  <2> SUFFICES ASSUME IInv PROVE QuietAfterStop
      OBVIOUS
  <2>1. TypeOK
      BY DEF IInv, Typed, LoopsOK, ChannelOK, RestOK, TasksOK, TypeOK, Works, Engine, EnginePcs,
             Caller, CallerPcs
  <2>2. ASSUME Begun # {}, \A c \in Begun : callers[c].pc = "done"
        PROVE  engine.pc = "ended" /\ handle = NoLoop /\ \A l \in Loops : ~Active(l)
    <3>1. \A c \in Callers : callers[c].pc \in {"idle", "done"}
        BY <2>2 DEF Begun
    <3>2. ~task
        BY <2>2 DEF IInv, First, Begun
    <3>3. engine.pc = "ended" /\ handle = NoLoop
        BY <3>1, <3>2 DEF IInv, First
    <3>4. \A l \in Loops : ~Active(l)
        BY <3>1, <3>3, NamesAssumption DEF IInv, Owned, AwaitedBy
    <3> QED BY <3>3, <3>4
  <2> QED BY <2>1, <2>2 DEF QuietAfterStop
<1> QED BY <1>1, Invariant, PTL

\* The socket's watch and its events: an event loop that has nothing left to look at shows that
\* an update is required, whichever it saw first and whatever the channel lost, for any
\* capacity of the channel.
THEOREM UpdatesAreShown == Spec => []UpdateIsShown
<1>1. IInv => UpdateIsShown
  <2> SUFFICES ASSUME IInv, engine.pc = "select", ~unseen, events = <<>>, state = "UpdateRequired"
               PROVE  shown = "UpdateRequired"
      BY DEF UpdateIsShown, Selecting
  <2>1. Len(events) = 0
      BY EmptySeq
  <2> QED BY <2>1 DEF IInv, Told
<1> QED BY <1>1, Invariant, PTL

\* A loop that begins to wait does so in backoff_wait, or another one was started in its place.
LEMMA OnlyWaits ==
    ASSUME IInv, [Next]_vars, NEW l \in Loops, loops[l].pc # "backoff", loops'[l].pc = "backoff"
    PROVE  Wait(l)
<1> DEFINE Now == Wait(l)
<1>0. loops \in [Loops -> Loop]
    BY DEF IInv, Typed, LoopsOK
<1>1. \A k \in Loops : (\E r : loops' = [loops EXCEPT ![k] = r] /\ r.pc # "backoff") => FALSE
    BY <1>0
<1>2. CASE UNCHANGED loops
    BY <1>2
<1>3. ASSUME NEW k \in Loops, Wait(k) PROVE Now
  <2>1. CASE k = l
      BY <1>3, <2>1
  <2>2. CASE k # l
    <3>1. PICK r : loops' = [loops EXCEPT ![k] = r]
        BY <1>3, WaitTo DEF LoopTo
    <3> QED BY <1>0, <2>2, <3>1
  <2> QED BY <2>1, <2>2
<1>4. ASSUME NEW k \in Loops, Return(k) PROVE Now
    BY <1>1, <1>4, EndedIs DEF Return
<1>5. ASSUME NEW k \in Loops, NEW p \in Pcs \ {"backoff"}, Go(k, p) PROVE Now
  <2> DEFINE r == [loops[k] EXCEPT !.pc = p]
  <2>1. loops' = [loops EXCEPT ![k] = r]
      BY <1>5 DEF Go
  <2>2. r.pc = p
      BY LoopIs, PcLoop
  <2> HIDE DEF r
  <2> QED BY <1>1, <2>1, <2>2
<1>6. ASSUME NEW k \in Loops, Hello(k) PROVE Now
  <2>1. loops' = [loops EXCEPT ![k] = Greeted(loops[k])]
      BY <1>6 DEF Hello, Greeted
  <2>2. Greeted(loops[k]).pc = "up"
      BY LoopIs, GreetedIs
  <2> QED BY <1>1, <2>1, <2>2
<1>7. ASSUME Take PROVE FALSE
    BY <1>7, TakeIs
<1>8. ASSUME Start PROVE FALSE
  <2>1. CASE UNCHANGED loops
      BY <2>1
  <2>2. CASE ~UNCHANGED loops
    <3>1. /\ \E k \in Loops : Spare(k)
          /\ handle' = CHOOSE k \in Loops : Spare(k)
          /\ loops' = [loops EXCEPT ![handle'] = [Ended EXCEPT !.pc = "lock"]]
        BY <1>8, <2>2 DEF Start
    <3>2. handle' \in Loops
        BY <3>1
    <3>3. [Ended EXCEPT !.pc = "lock"].pc = "lock"
        BY EndedIs, PcLoop DEF Pcs
    <3> QED BY <1>1, <3>1, <3>2, <3>3
  <2> QED BY <2>1, <2>2
<1> HIDE DEF Now
<1>9. CASE \E k \in Loops : Runs(k)
  <2>1. PICK k \in Loops : Runs(k)
      BY <1>9
  <2>2. CASE Acquire(k) \/ Begin(k) \/ Elapse(k) \/ Opened(k)
      BY <1>5, <2>2 DEF Acquire, Begin, Elapse, Opened, Pcs, Now
  <2>3. CASE Refused(k) \/ Stopped(k) \/ Revoked(k)
    <3>1. Return(k) \/ Wait(k)
        BY <2>3 DEF Refused, Stopped, Revoked, End
    <3>2. Now
        BY <1>3, <1>4, <3>1
    <3> QED BY <3>2 DEF Now
  <2> QED BY <2>1, <2>2, <2>3 DEF Runs, GivesUp, Now
<1>10. CASE \E k \in Loops : Hello(k) \/ Outdated(k) \/ Dropped(k) \/ Messages(k) \/ SendFrame(k)
  <2>1. PICK k \in Loops : Hello(k) \/ Outdated(k) \/ Dropped(k) \/ Messages(k) \/ SendFrame(k)
      BY <1>10
  <2>2. CASE Hello(k)
      BY <1>6, <2>2 DEF Now
  <2>3. CASE Outdated(k) \/ Dropped(k)
    <3>1. Return(k) \/ Wait(k)
        BY <2>3 DEF Outdated, Dropped, End
    <3>2. Now
        BY <1>3, <1>4, <3>1
    <3> QED BY <3>2 DEF Now
  <2>4. CASE Messages(k) \/ SendFrame(k)
      BY <1>2, <2>4 DEF Messages, SendFrame, connection
  <2> QED BY <2>1, <2>2, <2>3, <2>4 DEF Now
<1>11. CASE Select \/ Ack \/ Reconnect
  <2>1. CASE Select \/ Ack \/ Reconnecting
      BY <1>2, <2>1 DEF Select, Leave, SeeState, HandleEvent, HandleLagged, Ack, Reconnecting, connection
  <2>2. CASE StopFirst \/ Restart
      BY <1>7, <1>8, <2>2 DEF StopFirst, Restart
  <2> QED BY <1>11, <2>1, <2>2 DEF Reconnect
<1>12. CASE \E c \in Callers : Stop(c) \/ Stops(c)
  <2>1. PICK c \in Callers : Stop(c) \/ Stops(c)
      BY <1>12
  <2>2. CASE StopSocket(c)
      BY <1>7, <2>2 DEF StopSocket
  <2>3. CASE Stop(c) \/ AwaitEngine(c) \/ AwaitSocket(c) \/ Finish(c)
      BY <1>2, <2>3 DEF Stop, AwaitEngine, AwaitSocket, Finish, connection
  <2> QED BY <2>1, <2>2, <2>3 DEF Stops
<1>13. CASE Revoke \/ UNCHANGED vars
    BY <1>2, <1>13 DEF Revoke, vars, connection
<1> QED BY <1>9, <1>10, <1>11, <1>12, <1>13 DEF Next, Now

\* backoff.rs and backoff_wait: until a hello no delay is shorter than the one before it or than
\* half of the cap, whatever the jitter draws, for any base, any cap and any number of attempts.
THEOREM DelaysNeverShrink == Spec => DelaysGrow
<1> DEFINE Grows == \A l \in Loops : loops[l].pc # "backoff" /\ loops'[l].pc = "backoff" =>
                        loops'[l].delay >= Smaller(loops[l].delay, Cap \div 2)
<1>1. IInv /\ [Next]_vars => [Grows]_vars
  <2> SUFFICES ASSUME IInv, [Next]_vars, NEW l \in Loops, loops[l].pc # "backoff",
                      loops'[l].pc = "backoff"
               PROVE  loops'[l].delay >= Smaller(loops[l].delay, Cap \div 2)
      OBVIOUS
  <2>1. Wait(l)
      BY OnlyWaits
  <2> DEFINE h == backoff_base(loops[l].attempt) \div 2
             d == loops[l].delay
             e == loops'[l].delay
  <2>2. e \in Nat /\ e >= h
      BY <2>1, WaitTo
  <2>3. h \in Nat /\ Cap \div 2 \in Nat
      BY LoopIs, BaseIsNat, BackoffAssumption
  <2>4. d \in Nat /\ (d <= h \/ Cap \div 2 <= h)
      BY LoopIs DEF Slow
  <2> HIDE DEF h, d, e
  <2>5. e >= Smaller(d, Cap \div 2)
      BY <2>2, <2>3, <2>4 DEF Smaller
  <2> QED BY <2>5 DEF d, e
<1>2. Spec => [][Grows]_vars
    BY <1>1, Invariant, PTL DEF Spec
<1> QED BY <1>2 DEF DelaysGrow

-----------------------------------------------------------------------------
(* UpdateRequired lasts *)

\* With one caller beside the run loop: a second one could stop the socket while the engine
\* restarts it.
OneOther == \A a, b \in Others : a = b

\* The run loop hears of a session that is over, and no connection opens after that.
Noted == notified => revoked /\ \A l \in Loops : loops[l].pc \notin {"open", "up"}

\* Who stops the socket beside an event loop that is there came second, so one of the two is
\* the run loop.
Second == /\ callers[Session].pc # "idle" => notified
          /\ engine.pc # "ended" /\ (\E c \in Callers : callers[c].pc \notin {"idle", "engine"})
                 => notified

\* Only the registered loop was not told to stop, and as long as the session lasts it is the
\* only one.
Alone == /\ \A l \in Loops : Active(l) /\ ~loops[l].stop => handle = l
         /\ ~notified /\ handle \in Loops => \A l \in Loops : Active(l) => l = handle

\* A loop that is not over was told to stop, and does not begin another attempt.
Firm == state = "UpdateRequired" => \A l \in Loops : Active(l) => loops[l].stop

Sticky == Noted /\ Second /\ Alone /\ Firm

LEMMA StickyInit == Init => Sticky
<1> SUFFICES ASSUME Init PROVE Sticky
    OBVIOUS
<1>1. Noted /\ Second /\ Firm
    BY DEF Init, Noted, Second, Firm, Callers
<1>2. ASSUME NEW l \in Loops, l # handle PROVE ~Active(l)
  <2>1. loops[l] = [Ended EXCEPT !.pc = "ended"]
      BY <1>2 DEF Init
  <2> QED BY <2>1, EndedIs, PcLoop DEF Pcs, Active
<1> QED BY <1>1, <1>2 DEF Sticky, Alone

\* A step that starts no loop.
Fewer == \A l \in Loops : Active(l)' => Active(l) /\ loops'[l].stop = loops[l].stop

LEMMA SecondKept ==
    ASSUME Second, UNCHANGED callers, notified => notified', engine'.pc # "ended" => engine.pc # "ended"
    PROVE  Second'
  BY DEF Second

LEMMA AloneKept ==
    ASSUME Alone, Fewer, UNCHANGED handle, notified => notified'
    PROVE  Alone' /\ (Firm /\ (state' = "UpdateRequired" => state = "UpdateRequired") => Firm')
  BY DEF Alone, Firm, Fewer

LEMMA SameLoops ==
    ASSUME Noted, UNCHANGED <<connection, notified>>, revoked => revoked'
    PROVE  Fewer /\ Noted'
  BY DEF Noted, Fewer, Active, connection

\* Steps of the loops: no other loop than l changes, and l keeps its signal or is over.
LEMMA LoopFewer ==
    ASSUME IInv, NEW l \in Loops, NEW r, loops' = [loops EXCEPT ![l] = r],
           r.pc = "ended" \/ (Active(l) /\ r.stop = loops[l].stop)
    PROVE  /\ Fewer /\ loops'[l] = r
           /\ \A k \in Loops : k # l => loops'[k] = loops[k]
<1>1. loops'[l] = r /\ \A k \in Loops : k # l => loops'[k] = loops[k]
    BY DEF IInv, Typed, LoopsOK
<1>2. ASSUME NEW k \in Loops, loops'[k].pc # "ended"
      PROVE  loops[k].pc # "ended" /\ loops'[k].stop = loops[k].stop
    BY <1>1, <1>2 DEF Active
<1> QED BY <1>1, <1>2 DEF Fewer, Active

LEMMA GoFewer ==
    ASSUME IInv, NEW l \in Loops, Active(l), NEW p \in Pcs, Go(l, p)
    PROVE  Fewer /\ loops'[l].pc = p /\ \A k \in Loops : k # l => loops'[k] = loops[k]
<1> DEFINE r == [loops[l] EXCEPT !.pc = p]
<1>1. loops' = [loops EXCEPT ![l] = r]
    BY DEF Go
<1>2. r.pc = p /\ r.stop = loops[l].stop
    BY LoopIs, PcLoop
<1> HIDE DEF r
<1> QED BY <1>1, <1>2, LoopFewer

LEMMA ReturnFewer ==
    ASSUME IInv, NEW l \in Loops, Return(l)
    PROVE  Fewer /\ loops'[l].pc = "ended" /\ \A k \in Loops : k # l => loops'[k] = loops[k]
<1>1. loops' = [loops EXCEPT ![l] = Ended]
    BY DEF Return
<1> QED BY <1>1, EndedIs, LoopFewer

LEMMA WaitFewer ==
    ASSUME IInv, NEW l \in Loops, Active(l), Wait(l)
    PROVE  Fewer /\ loops'[l].pc = "backoff" /\ \A k \in Loops : k # l => loops'[k] = loops[k]
<1>1. PICK d \in backoff_delay(loops[l].attempt) :
          loops' = [loops EXCEPT ![l] = Waited(loops[l], d)]
    BY DEF Wait, Waited
<1> DEFINE r == Waited(loops[l], d)
<1>2. loops' = [loops EXCEPT ![l] = r]
    BY <1>1
<1>3. r.pc = "backoff" /\ r.stop = loops[l].stop
    BY LoopIs, WaitedIs
<1> HIDE DEF r
<1> QED BY <1>2, <1>3, LoopFewer

LEMMA HelloFewer ==
    ASSUME IInv, NEW l \in Loops, Hello(l)
    PROVE  Fewer
<1> DEFINE r == Greeted(loops[l])
<1>1. loops' = [loops EXCEPT ![l] = r] /\ Active(l)
    BY DEF Hello, Greeted, Active
<1>2. r.stop = loops[l].stop
    BY LoopIs, GreetedIs
<1> HIDE DEF r
<1> QED BY <1>1, <1>2, LoopFewer

\* A step of a loop leaves the callers and the engine alone.
LEMMA StickyLoop ==
    ASSUME Sticky, Fewer, Noted', Firm', UNCHANGED <<handle, sync>>, notified => notified'
    PROVE  Sticky'
<1>1. Second'
    BY SecondKept DEF Sticky, sync
<1>2. Alone'
    BY AloneKept DEF Sticky
<1> QED BY <1>1, <1>2 DEF Sticky

LEMMA StickyGoes ==
    ASSUME IInv, Sticky, NEW l \in Loops, Acquire(l) \/ Begin(l) \/ Elapse(l) \/ Opened(l)
    PROVE  Sticky'
<1>1. /\ Active(l) /\ UNCHANGED <<revoked, handle, notified, sync>>
      /\ state' = "UpdateRequired" => state = "UpdateRequired"
    BY DEF Acquire, Begin, Elapse, Opened, Active, SetState
<1>2. PICK p \in {"top", "connect", "open"} : Go(l, p) /\ (p = "open" => ~revoked)
    BY DEF Acquire, Begin, Elapse, Opened
<1>3. Fewer /\ loops'[l].pc = p /\ \A k \in Loops : k # l => loops'[k] = loops[k]
    BY <1>1, <1>2, GoFewer DEF Pcs
<1>4. Noted'
    BY <1>1, <1>2, <1>3 DEF Sticky, Noted
<1>5. Firm'
    BY <1>1, <1>3, AloneKept DEF Sticky
<1> QED BY <1>1, <1>3, <1>4, <1>5, StickyLoop

\* The loop that learns of the end of the session was the only one connected.
LEMMA StickyEnds ==
    ASSUME IInv, Sticky, NEW l \in Loops, Stopped(l) \/ Revoked(l) \/ Refused(l) \/ Dropped(l)
    PROVE  Sticky'
<1>1. /\ Works(l) /\ Active(l) /\ UNCHANGED <<revoked, handle, sync>>
      /\ notified' = notified \/ (notified' = TRUE /\ revoked)
    BY DEF Stopped, Revoked, Refused, Dropped, Works, Active
<1>2. End(l) \/ Wait(l)
    BY DEF Stopped, Revoked, Refused, Dropped
<1>3. /\ Fewer /\ loops'[l].pc \in {"ended", "backoff"}
      /\ \A k \in Loops : k # l => loops'[k] = loops[k]
    BY <1>1, <1>2, ReturnFewer, WaitFewer DEF End
<1>4. \A k \in Loops : k # l => loops[k].pc \in {"ended", "lock"}
    BY <1>1 DEF IInv, Typed, LoopsOK, Works
<1>5. Noted'
    BY <1>1, <1>3, <1>4 DEF Sticky, Noted
<1>6. state' = "UpdateRequired" => state = "UpdateRequired"
    BY <1>2, SetIdleIs DEF End, Wait, SetState, IInv, Typed
<1>7. Firm'
    BY <1>1, <1>3, <1>6, AloneKept DEF Sticky
<1> QED BY <1>1, <1>3, <1>5, <1>7, StickyLoop

\* A connection that is open is the registered one, or it was told to stop; the others were.
LEMMA StickyOutdated ==
    ASSUME IInv, Sticky, NEW l \in Loops, Outdated(l)
    PROVE  Sticky'
<1>1. /\ loops[l].pc \in {"open", "up"} /\ Return(l) /\ state' = "UpdateRequired"
      /\ UNCHANGED <<revoked, handle, notified, sync>>
    BY DEF Outdated, SetState
<1>2. Fewer /\ loops'[l].pc = "ended" /\ \A k \in Loops : k # l => loops'[k] = loops[k]
    BY <1>1, ReturnFewer
<1>3. Noted'
    BY <1>1, <1>2 DEF Sticky, Noted
<1>4. ~notified
    BY <1>1 DEF Sticky, Noted
<1>5. ASSUME NEW k \in Loops, k # l, Active(k) PROVE loops[k].stop
  <2>1. Active(l)
      BY <1>1 DEF Active
  <2>2. SUFFICES ASSUME ~loops[k].stop PROVE FALSE
      OBVIOUS
  <2>3. handle = k
      BY <1>5, <2>2 DEF Sticky, Alone
  <2> QED BY <1>4, <1>5, <2>1, <2>3 DEF Sticky, Alone
<1>6. Firm'
    BY <1>2, <1>5 DEF Firm, Active
<1> QED BY <1>1, <1>2, <1>3, <1>6, StickyLoop

LEMMA StickyHello ==
    ASSUME IInv, Sticky, NEW l \in Loops, Hello(l) \/ Messages(l) \/ SendFrame(l)
    PROVE  Sticky'
<1>1. CASE Hello(l)
  <2>1. /\ loops[l].pc = "open" /\ state' = "Connected"
        /\ UNCHANGED <<revoked, handle, notified, sync>>
      BY <1>1 DEF Hello, SetState
  <2>2. Noted' /\ Firm'
      BY <2>1 DEF Sticky, Noted, Firm
  <2> QED BY <1>1, <2>1, <2>2, HelloFewer, StickyLoop
<1>2. CASE Messages(l) \/ SendFrame(l)
  <2>1. UNCHANGED <<revoked, handle, connection, state, notified, sync>>
      BY <1>2 DEF Messages, SendFrame
  <2>2. Fewer /\ Noted'
      BY <2>1, SameLoops DEF Sticky
  <2>3. Firm'
      BY <2>1, <2>2, AloneKept DEF Sticky
  <2> QED BY <2>1, <2>2, <2>3, StickyLoop
<1> QED BY <1>1, <1>2

\* A step that leaves the loops and what is registered alone.
LEMMA StickyCalm ==
    ASSUME IInv, Sticky, Second', UNCHANGED <<handle, connection, notified>>, revoked => revoked',
           state' = "UpdateRequired" => state = "UpdateRequired"
    PROVE  Sticky'
<1>1. Fewer /\ Noted'
    BY SameLoops DEF Sticky
<1>2. Alone' /\ Firm'
    BY <1>1, AloneKept DEF Sticky
<1> QED BY <1>1, <1>2 DEF Sticky

LEMMA StickySelect ==
    ASSUME IInv, Sticky, Select \/ Ack \/ Reconnecting \/ Revoke \/ UNCHANGED vars
    PROVE  Sticky'
<1>1. /\ UNCHANGED <<handle, connection, notified, callers>> /\ (revoked => revoked')
      /\ engine'.pc # "ended" => engine.pc # "ended"
    BY DEF Select, Leave, SeeState, HandleEvent, HandleLagged, Ack, Reconnecting, Revoke, vars,
           Selecting, connection, sync
<1>2. state' = "UpdateRequired" => state = "UpdateRequired"
    BY SetIdleIs DEF Select, Leave, SeeState, HandleEvent, HandleLagged, Ack, Reconnecting, Revoke,
                     vars, IInv, Typed
<1>3. Second'
    BY <1>1, SecondKept DEF Sticky
<1> QED BY <1>1, <1>2, <1>3, StickyCalm

\* The registered loop is told to stop: now all were.
LEMMA TakeStops ==
    ASSUME IInv, Sticky, Take, UNCHANGED <<rx, state, revoked, notified>>
    PROVE  Noted' /\ Alone' /\ Firm'
<1>1. /\ handle' = NoLoop /\ NoLoop \notin Loops /\ handle \in Loops \cup {NoLoop}
      /\ \A l \in Loops : loops'[l].pc = loops[l].pc
    BY TakeIs, NamesAssumption DEF IInv, Typed, LoopsOK
<1>2. ASSUME NEW l \in Loops, Active(l) PROVE loops'[l].stop
  <2>1. CASE l = handle
    <3> DEFINE b == Active(handle)
               r == [loops[handle] EXCEPT !.stop = b]
    <3>1. loops' = [loops EXCEPT ![handle] = r]
        BY <1>1, <2>1 DEF Take
    <3>2. b \in BOOLEAN /\ b
        BY <1>2, <2>1 DEF Active
    <3> HIDE DEF b
    <3>3. r.stop = b
        BY <2>1, <3>2, LoopIs, StopLoop
    <3> HIDE DEF r
    <3>4. loops'[l] = r
        BY <2>1, <3>1 DEF IInv, Typed, LoopsOK
    <3> QED BY <3>2, <3>3, <3>4
  <2>2. CASE l # handle
    <3>1. loops'[l] = loops[l]
        BY <2>2 DEF Take, IInv, Typed, LoopsOK
    <3>2. loops[l].stop
        BY <1>2, <2>2 DEF Sticky, Alone
    <3> QED BY <3>1, <3>2
  <2> QED BY <2>1, <2>2
<1>3. Noted'
    BY <1>1 DEF Sticky, Noted
<1>4. Alone' /\ Firm'
    BY <1>1, <1>2 DEF Alone, Firm, Active
<1> QED BY <1>3, <1>4

LEMMA StickyTake ==
    ASSUME IInv, Sticky, StopFirst \/ \E c \in Callers : StopSocket(c)
    PROVE  Sticky'
<1>1. Take /\ UNCHANGED <<rx, state, revoked, notified>>
    BY DEF StopFirst, StopSocket
<1>2. Noted' /\ Alone' /\ Firm'
    BY <1>1, TakeStops
<1>3. CASE StopFirst
  <2>1. UNCHANGED callers /\ engine.pc # "ended" /\ notified' = notified
      BY <1>3 DEF StopFirst
  <2>2. Second'
      BY <2>1, SecondKept DEF Sticky
  <2> QED BY <1>2, <2>2 DEF Sticky
<1>4. ASSUME NEW c \in Callers, StopSocket(c) PROVE Sticky'
  <2>1. /\ callers[c].pc = "socket" /\ UNCHANGED <<engine, notified>>
        /\ Move(c, "await", handle)
      BY <1>4 DEF StopSocket
  <2>2. handle \in Loops \cup {NoLoop}
      BY DEF IInv, Typed, LoopsOK
  <2>3. \A d \in Callers : d # c => callers'[d] = callers[d]
      BY <2>1, <2>2, MoveIs DEF CallerPcs
  <2>4. Second'
      BY <2>1, <2>3 DEF Sticky, Second, Callers
  <2> QED BY <1>2, <2>4 DEF Sticky
<1> QED BY <1>3, <1>4

\* The event loop starts a loop when none is registered: then nobody else has stopped one, or
\* the session is over.
LEMMA StickyRestart ==
    ASSUME IInv, Sticky, Restart
    PROVE  Sticky'
<1>1. /\ engine.pc = "restart" /\ Start
      /\ UNCHANGED <<revoked, rx, state, notified, callers>>
    BY DEF Restart
<1>2. Second'
    BY <1>1, SecondKept DEF Sticky
<1>3. CASE UNCHANGED <<handle, loops>>
    BY <1>1, <1>2, <1>3, StickyCalm DEF connection
<1>4. CASE ~UNCHANGED <<handle, loops>>
  <2> DEFINE r == [Ended EXCEPT !.pc = "lock"]
  <2>1. /\ handle = NoLoop /\ state # "UpdateRequired" /\ \E l \in Loops : Spare(l)
        /\ handle' = CHOOSE l \in Loops : Spare(l)
        /\ loops' = [loops EXCEPT ![handle'] = r]
      BY <1>1, <1>4 DEF Start
  <2>2. handle' \in Loops /\ NoLoop \notin Loops
      BY <2>1, NamesAssumption
  <2>3. r.pc = "lock"
      BY EndedIs, PcLoop DEF Pcs
  <2> HIDE DEF r
  <2>4. loops'[handle'] = r /\ \A l \in Loops : l # handle' => loops'[l] = loops[l]
      BY <2>1, <2>2 DEF IInv, Typed, LoopsOK
  <2>5. Noted'
      BY <1>1, <2>3, <2>4 DEF Sticky, Noted
  <2>6. Firm'
      BY <1>1, <2>1 DEF Firm
  <2>7. ASSUME NEW l \in Loops, l # handle', Active(l)' PROVE notified /\ loops'[l].stop
    <3>1. Active(l) /\ loops'[l] = loops[l]
        BY <2>4, <2>7 DEF Active
    <3>2. \E c \in Callers : AwaitedBy(c, l)
        BY <1>1, <2>1, <2>2, <3>1 DEF IInv, Owned
    <3>3. notified
        BY <1>1, <3>2 DEF AwaitedBy, Sticky, Second
    <3>4. loops[l].stop
        BY <2>1, <2>2, <3>1 DEF Sticky, Alone
    <3> QED BY <3>1, <3>3, <3>4
  <2>8. Alone'
      BY <1>1, <2>7 DEF Alone
  <2> QED BY <1>2, <2>5, <2>6, <2>8 DEF Sticky
<1> QED BY <1>3, <1>4

\* Who begins to stop the socket beside another caller: one of the two is the run loop.
LEMMA StickyStop ==
    ASSUME IInv, Sticky, OneOther, NEW c \in Callers, Stop(c)
    PROVE  Sticky'
<1>1. /\ callers[c].pc = "idle" /\ (c = Session => notified)
      /\ UNCHANGED <<revoked, handle, connection, state, notified>>
      /\ \/ task /\ Move(c, "engine", NoLoop)
         \/ ~task /\ Move(c, "socket", NoLoop)
    BY DEF Stop
<1>2. engine'.pc = engine.pc
    BY EngineStop DEF Stop, IInv, Typed, TasksOK
<1>3. /\ callers'[c].pc = (IF task THEN "engine" ELSE "socket")
      /\ \A d \in Callers : d # c => callers'[d] = callers[d]
    BY <1>1, MoveIs DEF CallerPcs
<1>4. ASSUME engine.pc # "ended", ~task PROVE notified
  <2>1. PICK d \in Callers : callers[d].pc = "engine"
      BY <1>4 DEF IInv, First
  <2>2. c = Session \/ d = Session
      BY <1>1, <2>1 DEF OneOther, Callers
  <2> QED BY <1>1, <2>1, <2>2 DEF Sticky, Second
<1>5. Second'
  <2>1. Session \in Callers
      BY DEF Callers
  <2>2. callers'[Session].pc # "idle" => notified'
      BY <1>1, <1>3, <2>1 DEF Sticky, Second
  <2>3. ASSUME engine'.pc # "ended", NEW d \in Callers, callers'[d].pc \notin {"idle", "engine"}
        PROVE  notified'
    <3>1. CASE d = c
        BY <1>1, <1>2, <1>3, <1>4, <2>3, <3>1
    <3>2. CASE d # c
        BY <1>1, <1>2, <1>3, <2>3, <3>2 DEF Sticky, Second
    <3> QED BY <3>1, <3>2
  <2> QED BY <2>2, <2>3 DEF Second
<1> QED BY <1>1, <1>5, StickyCalm

LEMMA StickyAwaits ==
    ASSUME IInv, Sticky, NEW c \in Callers, AwaitEngine(c) \/ AwaitSocket(c) \/ Finish(c)
    PROVE  Sticky'
<1>1. UNCHANGED <<revoked, handle, connection, notified, engine>>
    BY DEF AwaitEngine, AwaitSocket, Finish
<1>2. state' = "UpdateRequired" => state = "UpdateRequired"
    BY SetIdleIs DEF AwaitEngine, AwaitSocket, Finish, IInv, Typed
<1>3. PICK p \in {"socket", "finish", "done"} :
          /\ Move(c, p, NoLoop)
          /\ callers[c].pc # "idle"
          /\ engine.pc = "ended" \/ callers[c].pc \notin {"idle", "engine"}
    BY DEF AwaitEngine, AwaitSocket, Finish
<1>4. \A d \in Callers : d # c => callers'[d] = callers[d]
    BY <1>3, MoveIs DEF CallerPcs
<1>5. Second'
    BY <1>1, <1>3, <1>4 DEF Sticky, Second, Callers
<1> QED BY <1>1, <1>2, <1>5, StickyCalm

LEMMA StickyNext == IInv /\ Sticky /\ OneOther /\ [Next]_vars => Sticky'
<1> SUFFICES ASSUME IInv, Sticky, OneOther, [Next]_vars PROVE Sticky'
    OBVIOUS
<1>1. CASE \E l \in Loops : Runs(l)
    BY <1>1, StickyGoes, StickyEnds DEF Runs, GivesUp
<1>2. CASE \E l \in Loops : Hello(l) \/ Outdated(l) \/ Dropped(l) \/ Messages(l) \/ SendFrame(l)
    BY <1>2, StickyHello, StickyOutdated, StickyEnds
<1>3. CASE Select \/ Ack \/ Revoke \/ UNCHANGED vars
    BY <1>3, StickySelect
<1>4. CASE Reconnect
    BY <1>4, StickyTake, StickySelect, StickyRestart DEF Reconnect
<1>5. CASE \E c \in Callers : Stop(c) \/ Stops(c)
    BY <1>5, StickyStop, StickyTake, StickyAwaits DEF Stops
<1> QED BY <1>1, <1>2, <1>3, <1>4, <1>5 DEF Next

\* "UpdateRequired is preserved": after the server has demanded a newer client the socket's state
\* stays that, whatever the event loop restarts and the run loop and one other caller stop, for
\* any number of loops and any size of the channels.
THEOREM UpdateLasts == ASSUME OneOther PROVE Spec => UpdateSticks
<1> DEFINE Sticks == state = "UpdateRequired" => state' = "UpdateRequired"
<1>1. IInv /\ Sticky /\ [Next]_vars => [Sticks]_vars
  <2> SUFFICES ASSUME IInv, Sticky, [Next]_vars, state = "UpdateRequired"
               PROVE  state' = "UpdateRequired"
      OBVIOUS
  <2>1. \A l \in Loops : loops[l].pc \notin {"connect", "open", "up", "backoff"}
      BY DEF IInv, Down
  <2>2. SetIdle => state' = state
      BY DEF SetIdle
  <2>3. CASE \E l \in Loops : Runs(l)
    <3>1. PICK l \in Loops : Runs(l)
        BY <2>3
    <3>2. ~Begin(l)
        BY DEF Begin, Sticky, Firm, Active
    <3>3. Acquire(l) \/ Stopped(l)
        BY <2>1, <3>1, <3>2 DEF Runs, GivesUp, Elapse, Opened, Refused, Revoked
    <3> QED BY <2>2, <3>3 DEF Acquire, Stopped, End
  <2>4. CASE \E l \in Loops : Hello(l) \/ Outdated(l) \/ Dropped(l) \/ Messages(l) \/ SendFrame(l)
      BY <2>1, <2>4 DEF Hello, Outdated, Dropped, Messages, SendFrame
  <2>5. CASE Select \/ Ack \/ Reconnect \/ Revoke \/ UNCHANGED vars
      BY <2>2, <2>5 DEF Select, Leave, SeeState, HandleEvent, HandleLagged, Ack, Reconnect, StopFirst,
                        Reconnecting, Restart, Revoke, vars
  <2>6. CASE \E c \in Callers : Stop(c) \/ Stops(c)
      BY <2>2, <2>6 DEF Stop, Stops, AwaitEngine, StopSocket, AwaitSocket, Finish
  <2> QED BY <2>3, <2>4, <2>5, <2>6 DEF Next
<1>2. Init => IInv /\ Sticky
    BY InitHolds, StickyInit
<1>3. IInv /\ Sticky /\ [Next]_vars => (IInv /\ Sticky)'
    BY NextKeeps, StickyNext
<1>4. Spec => [][Sticks]_vars
    BY <1>1, <1>2, <1>3, PTL DEF Spec
<1> QED BY <1>4 DEF UpdateSticks
=============================================================================
