------------------------------- MODULE Socket -------------------------------
(***************************************************************************)
(* The life of a connection (ws.rs) and of the engine on top of it         *)
(* (sync.rs): start, stop and reconnect, the close codes, the backoff, and *)
(* the end of both when the session is revoked (bridge/mod.rs).  Several   *)
(* callers stop at the same time, while the event loop may be              *)
(* reconnecting because it fell behind the channel of events.              *)
(*                                                                         *)
(* What the frames say is left to module Delivery: a frame that makes the  *)
(* event loop acknowledge something is "msg".                              *)
(***************************************************************************)
EXTENDS Naturals, Sequences, FiniteSets

CONSTANTS Loops,       \* names for spawned connection loops; an ended one is used again
          NoLoop,
          Session,     \* the run loop's stop() after SessionInvalidated
          Others,      \* other callers of SyncEngine::stop, as Registry::remove
          Buffer,      \* capacity of the event channel (256)
          Outbound,    \* capacity of the outbound channel (64)
          Base,        \* BACKOFF_BASE (2000 ms)
          Cap,         \* BACKOFF_CAP (300000 ms)
          MaxAttempt   \* bound: attempts are counted up to here, where the delay has reached the cap

Callers == Others \cup {Session}

ASSUME NamesAssumption == NoLoop \notin Loops /\ Loops # {} /\ Session \notin Others
ASSUME SizesAssumption == Buffer \in Nat \ {0} /\ Outbound \in Nat \ {0} /\ MaxAttempt \in Nat

VARIABLES revoked,    \* the server has ended the session
          handle,     \* TzibburSocket::task
          loops,      \* loops[l]: where run_loop is, its stop signal, attempt and last delay
          rx,         \* the loop that has outbound_rx
          state,      \* the socket's SyncState
          unseen,     \* ... has changed since the event loop looked
          events,     \* the event loop's receiver
          lagged,     \* ... has lost some
          outbound,   \* frames queued in the outbound channel
          notified,   \* notify_session_invalidated was called
          task,       \* SyncEngine::task is Some
          engine,     \* the event loop: where it is, its stop signal, the loop it awaits
          shown,      \* the engine's SyncState
          callers     \* callers[c]: where stop() is, and the loop it awaits

connection == <<loops, rx>>
channel == <<events, lagged>>
sync == <<task, engine, shown, callers>>
vars == <<revoked, handle, loops, rx, state, unseen, events, lagged, outbound,
          notified, task, engine, shown, callers>>

-----------------------------------------------------------------------------

States == {"Idle", "Connecting", "Connected", "BackingOff", "UpdateRequired"}
Event == {"connected", "msg", "update", "other"}

Loop == [pc : {"ended", "lock", "top", "connect", "open", "up", "backoff"},
         stop : BOOLEAN, attempt : 0..MaxAttempt, delay : Nat]
Ended == [pc |-> "ended", stop |-> FALSE, attempt |-> 0, delay |-> 0]

TypeOK ==
    /\ revoked \in BOOLEAN
    /\ handle \in Loops \cup {NoLoop}
    /\ loops \in [Loops -> Loop]
    /\ rx \in Loops \cup {NoLoop}
    /\ rx # NoLoop <=> \E l \in Loops : loops[l].pc \notin {"ended", "lock"}
    /\ \A l \in Loops : loops[l].pc \notin {"ended", "lock"} => rx = l
    /\ state \in States /\ shown \in States
    /\ unseen \in BOOLEAN /\ lagged \in BOOLEAN /\ notified \in BOOLEAN /\ task \in BOOLEAN
    /\ events \in Seq(Event) /\ Len(events) <= Buffer
    /\ outbound \in 0..Outbound
    /\ engine \in [pc : {"select", "ack", "take", "await", "restart", "ended"}, stop : BOOLEAN,
                   loop : Loops \cup {NoLoop}]
    /\ callers \in [Callers -> [pc : {"idle", "engine", "socket", "await", "finish", "done"},
                                loop : Loops \cup {NoLoop}]]

Active(l) == loops[l].pc # "ended"
Over(l) == l \notin {k \in Loops : Active(k)}

\* set_state, and what stop() and the end of a loop write.
SetState(s) == state' = s /\ unseen' = (unseen \/ state # s)
SetIdle == IF state = "UpdateRequired" THEN UNCHANGED <<state, unseen>> ELSE SetState("Idle")

\* emit: the oldest events are overwritten.
Newest(q) == IF Len(q) > Buffer THEN Tail(q) ELSE q
Emit(ev) == IF engine.pc = "ended" THEN UNCHANGED channel
            ELSE /\ events' = Newest(Append(events, ev))
                 /\ lagged' = (lagged \/ Len(events) = Buffer)

-----------------------------------------------------------------------------
(* backoff.rs *)

Smaller(a, b) == IF a < b THEN a ELSE b
Larger(a, b) == IF a < b THEN b ELSE a

backoff_base(n) == Smaller(Base * 2 ^ Smaller(n, 16), Cap)

\* The jitter draws any of these.
backoff_delay(n) ==
    LET lo == backoff_base(n) \div 2
    IN  lo..Larger(backoff_base(n), lo + 1)

ASSUME BackoffAssumption ==
    /\ Base \in Nat \ {0} /\ Cap \in Nat
    /\ Cap <= Base * 2 ^ 16
    /\ backoff_base(MaxAttempt) = Cap

-----------------------------------------------------------------------------
(* TzibburSocket: start, stop, reconnect *)

\* Nobody runs it, awaits it or holds its handle.
Spare(l) == /\ loops[l].pc = "ended"
            /\ handle # l /\ engine.loop # l /\ \A c \in Callers : callers[c].loop # l

Start ==
    IF handle = NoLoop /\ state # "UpdateRequired"
    THEN /\ \E l \in Loops : Spare(l)
         /\ handle' = CHOOSE l \in Loops : Spare(l)
         /\ loops' = [loops EXCEPT ![handle'] = [Ended EXCEPT !.pc = "lock"]]
    ELSE UNCHANGED <<handle, loops>>

\* Mutant of Take: the task is not told.
TakeQuietly == handle' = NoLoop /\ UNCHANGED loops

\* stop() takes the task and signals it.
Take ==
    /\ handle' = NoLoop
    /\ loops' = IF handle = NoLoop THEN loops ELSE [loops EXCEPT ![handle].stop = Active(handle)]

-----------------------------------------------------------------------------
(* run_loop *)

Go(l, pc) == loops' = [loops EXCEPT ![l].pc = pc]

\* The loop returns, its guard of outbound_rx is dropped.
Return(l) == loops' = [loops EXCEPT ![l] = Ended] /\ rx' = NoLoop
End(l) == Return(l) /\ SetIdle

\* backoff_wait; the wait that a 429 or a 4029 asks for makes it longer still, and is left out.
Wait(l) ==
    /\ \E d \in backoff_delay(loops[l].attempt) :
          loops' = [loops EXCEPT ![l].pc = "backoff", ![l].delay = d,
                                 ![l].attempt = Smaller(@ + 1, MaxAttempt)]
    /\ SetState("BackingOff")
    /\ UNCHANGED rx

Acquire(l) ==
    /\ loops[l].pc = "lock"
    /\ rx = NoLoop
    /\ rx' = l
    /\ Go(l, "top")
    /\ UNCHANGED <<revoked, handle, state, unseen, channel, outbound, notified, sync>>

\* Wherever the loop waits, a stop is noticed.
Stopped(l) ==
    /\ loops[l].stop
    /\ loops[l].pc \in {"top", "connect", "open", "up", "backoff"}
    /\ End(l)
    /\ IF loops[l].pc \in {"open", "up"} THEN Emit("other") ELSE UNCHANGED channel
    /\ UNCHANGED <<revoked, handle, outbound, notified, sync>>

Begin(l) ==
    /\ loops[l].pc = "top"
    /\ ~loops[l].stop
    /\ Go(l, "connect")
    /\ SetState("Connecting")
    /\ UNCHANGED <<revoked, handle, rx, channel, outbound, notified, sync>>

Elapse(l) ==
    /\ loops[l].pc = "backoff"
    /\ Go(l, "top")
    /\ UNCHANGED <<revoked, handle, rx, state, unseen, channel, outbound, notified, sync>>

\* Mutant of Opened: a connection that opens clears the count.
OpenedResets(l) ==
    /\ loops[l].pc = "connect"
    /\ ~revoked
    /\ loops' = [loops EXCEPT ![l].pc = "open", ![l].attempt = 0]
    /\ UNCHANGED <<revoked, handle, rx, state, unseen, channel, outbound, notified, sync>>

Opened(l) ==
    /\ loops[l].pc = "connect"
    /\ ~revoked
    /\ Go(l, "open")
    /\ UNCHANGED <<revoked, handle, rx, state, unseen, channel, outbound, notified, sync>>

\* Mutant of Revoked: an error like any other.
RevokedRetries(l) ==
    /\ loops[l].pc \in {"connect", "open", "up"}
    /\ revoked
    /\ Emit("other")
    /\ IF loops[l].stop THEN End(l) ELSE Wait(l)
    /\ UNCHANGED <<revoked, handle, outbound, notified, sync>>

\* 401 or 403 at the handshake, or close code 4001.
Revoked(l) ==
    /\ loops[l].pc \in {"connect", "open", "up"}
    /\ revoked
    /\ Emit("other")
    /\ notified' = TRUE
    /\ End(l)
    /\ UNCHANGED <<revoked, handle, outbound, sync>>

\* The handshake fails: 429 with Retry-After, or anything else.
Refused(l) ==
    /\ loops[l].pc = "connect"
    /\ Emit("other")
    /\ Wait(l)
    /\ UNCHANGED <<revoked, handle, outbound, notified, sync>>

\* The connection ends: an error, push_failed, a close code; 4029 asks for a wait.
Dropped(l) ==
    /\ loops[l].pc \in {"open", "up"}
    /\ Emit("other")
    /\ \/ loops[l].stop /\ End(l)
       \/ ~loops[l].stop /\ Wait(l)
    /\ UNCHANGED <<revoked, handle, outbound, notified, sync>>

\* hello of a newer protocol, or an error frame: the server demands a newer client.
Outdated(l) ==
    /\ loops[l].pc \in {"open", "up"}
    /\ Emit("update")
    /\ SetState("UpdateRequired")
    /\ Return(l)
    /\ UNCHANGED <<revoked, handle, outbound, notified, sync>>

\* hello, or the first messages in its place.
Hello(l) ==
    /\ loops[l].pc = "open"
    /\ loops' = [loops EXCEPT ![l].pc = "up", ![l].attempt = 0, ![l].delay = 0]
    /\ SetState("Connected")
    /\ Emit("connected")
    /\ UNCHANGED <<revoked, handle, rx, outbound, notified, sync>>

Messages(l) ==
    /\ loops[l].pc = "up"
    /\ Emit("msg")
    /\ UNCHANGED <<revoked, handle, connection, state, unseen, outbound, notified, sync>>

SendFrame(l) ==
    /\ loops[l].pc \in {"open", "up"}
    /\ outbound > 0
    /\ outbound' = outbound - 1
    /\ UNCHANGED <<revoked, handle, connection, state, unseen, channel, notified, sync>>

-----------------------------------------------------------------------------
(* SyncEngine::event_loop *)

Selecting == engine.pc = "select"
At(pc, l) == engine' = [engine EXCEPT !.pc = pc, !.loop = l]

Leave ==
    /\ Selecting
    /\ engine.stop
    /\ At("ended", NoLoop)
    /\ events' = <<>> /\ lagged' = FALSE
    /\ UNCHANGED <<revoked, handle, connection, state, unseen, outbound, notified, task, shown,
                   callers>>

SeeState ==
    /\ Selecting
    /\ unseen
    /\ unseen' = FALSE
    /\ shown' = state
    /\ UNCHANGED <<revoked, handle, connection, state, channel, outbound, notified, task, engine,
                   callers>>

\* Mutant of HandleEvent: Disconnected is left to the watch.
HandleEventWatched ==
    /\ Selecting
    /\ ~lagged
    /\ events # <<>>
    /\ events' = Tail(events)
    /\ shown' = IF Head(events) = "connected" THEN "Connected" ELSE shown
    /\ IF Head(events) = "msg" THEN At("ack", NoLoop) ELSE UNCHANGED engine
    /\ UNCHANGED <<revoked, handle, connection, state, unseen, lagged, outbound, notified, task,
                   callers>>

HandleEvent ==
    /\ Selecting
    /\ ~lagged
    /\ events # <<>>
    /\ events' = Tail(events)
    /\ shown' = CASE Head(events) = "connected" -> "Connected"
                  [] Head(events) = "update" -> "UpdateRequired"
                  [] OTHER -> shown
    /\ IF Head(events) = "msg" THEN At("ack", NoLoop) ELSE UNCHANGED engine
    /\ UNCHANGED <<revoked, handle, connection, state, unseen, lagged, outbound, notified, task,
                   callers>>

\* The ack of a stored batch waits for room.
Ack ==
    /\ engine.pc = "ack"
    /\ outbound < Outbound
    /\ outbound' = outbound + 1
    /\ At("select", NoLoop)
    /\ UNCHANGED <<revoked, handle, connection, state, unseen, channel, notified, task, shown,
                   callers>>

\* RecvError::Lagged: reconnect, if it is running.
HandleLagged ==
    /\ Selecting
    /\ lagged
    /\ lagged' = FALSE
    /\ IF handle = NoLoop THEN UNCHANGED engine ELSE At("take", NoLoop)
    /\ UNCHANGED <<revoked, handle, connection, state, unseen, events, outbound, notified, task,
                   shown, callers>>

\* Its stop(): another one may have taken the task since.
StopFirst ==
    /\ engine.pc = "take"
    /\ Take
    /\ At("await", handle)
    /\ UNCHANGED <<revoked, rx, state, unseen, channel, outbound, notified, task, shown, callers>>

Reconnecting ==
    /\ engine.pc = "await"
    /\ Over(engine.loop)
    /\ SetIdle
    /\ At("restart", NoLoop)
    /\ UNCHANGED <<revoked, handle, connection, channel, outbound, notified, task, shown, callers>>

Restart ==
    /\ engine.pc = "restart"
    /\ Start
    /\ At("select", NoLoop)
    /\ UNCHANGED <<revoked, rx, state, unseen, channel, outbound, notified, task, shown, callers>>

-----------------------------------------------------------------------------
(* SyncEngine::stop *)

Move(c, pc, l) == callers' = [callers EXCEPT ![c] = [pc |-> pc, loop |-> l]]

Stop(c) ==
    /\ callers[c].pc = "idle"
    /\ c = Session => notified
    /\ task' = FALSE
    /\ IF task THEN engine' = [engine EXCEPT !.stop = TRUE] /\ Move(c, "engine", NoLoop)
       ELSE Move(c, "socket", NoLoop) /\ UNCHANGED engine
    /\ UNCHANGED <<revoked, handle, connection, state, unseen, channel, outbound, notified, shown>>

\* Mutant of AwaitEngine: the handle is dropped, not awaited.
DetachEngine(c) ==
    /\ callers[c].pc = "engine"
    /\ Move(c, "socket", NoLoop)
    /\ UNCHANGED <<revoked, handle, connection, state, unseen, channel, outbound, notified, task,
                   engine, shown>>

AwaitEngine(c) ==
    /\ callers[c].pc = "engine"
    /\ engine.pc = "ended"
    /\ Move(c, "socket", NoLoop)
    /\ UNCHANGED <<revoked, handle, connection, state, unseen, channel, outbound, notified, task,
                   engine, shown>>

StopSocket(c) ==
    /\ callers[c].pc = "socket"
    /\ Take
    /\ Move(c, "await", handle)
    /\ UNCHANGED <<revoked, rx, state, unseen, channel, outbound, notified, task, engine, shown>>

\* Mutant of AwaitSocket: Idle whatever the state was.
AwaitSocketIdle(c) ==
    /\ callers[c].pc = "await"
    /\ Over(callers[c].loop)
    /\ SetState("Idle")
    /\ Move(c, "finish", NoLoop)
    /\ UNCHANGED <<revoked, handle, connection, channel, outbound, notified, task, engine, shown>>

AwaitSocket(c) ==
    /\ callers[c].pc = "await"
    /\ Over(callers[c].loop)
    /\ SetIdle
    /\ Move(c, "finish", NoLoop)
    /\ UNCHANGED <<revoked, handle, connection, channel, outbound, notified, task, engine, shown>>

Finish(c) ==
    /\ callers[c].pc = "finish"
    /\ shown' = IF shown = "UpdateRequired" THEN shown ELSE "Idle"
    /\ Move(c, "done", NoLoop)
    /\ UNCHANGED <<revoked, handle, connection, state, unseen, channel, outbound, notified, task,
                   engine>>

-----------------------------------------------------------------------------

\* The server ends the session.
Revoke ==
    /\ revoked' = TRUE
    /\ UNCHANGED <<handle, connection, state, unseen, channel, outbound, notified, sync>>

Init ==
    /\ revoked = FALSE
    /\ handle = CHOOSE l \in Loops : TRUE
    /\ loops = [l \in Loops |-> [Ended EXCEPT !.pc = IF l = handle THEN "lock" ELSE "ended"]]
    /\ rx = NoLoop
    /\ state = "Idle" /\ unseen = FALSE
    /\ events = <<>> /\ lagged = FALSE
    /\ outbound = 0
    /\ notified = FALSE
    /\ task = TRUE
    /\ engine = [pc |-> "select", stop |-> FALSE, loop |-> NoLoop]
    /\ shown = "Connecting"
    /\ callers = [c \in Callers |-> [pc |-> "idle", loop |-> NoLoop]]

GivesUp(l) == Stopped(l) \/ Revoked(l)
Runs(l) == \/ Acquire(l) \/ Begin(l) \/ Elapse(l) \/ Opened(l) \/ Refused(l) \/ GivesUp(l)

Select == Leave \/ SeeState \/ HandleEvent \/ HandleLagged
Reconnect == StopFirst \/ Reconnecting \/ Restart
Stops(c) == AwaitEngine(c) \/ StopSocket(c) \/ AwaitSocket(c) \/ Finish(c)

Next == \/ Revoke
        \/ \E l \in Loops : Runs(l) \/ Hello(l) \/ Outdated(l) \/ Dropped(l) \/ Messages(l) \/ SendFrame(l)
        \/ Select \/ Ack \/ Reconnect
        \/ \E c \in Callers : Stop(c) \/ Stops(c)

Spec == Init /\ [][Next]_vars

(***************************************************************************)
(* Tasks run; a stop, and what makes a loop give up, is noticed in the     *)
(* end, as select! is fair among its ready branches; the run loop receives *)
(* SessionInvalidated; the channel of events does not overflow for ever.   *)
(* Nothing says that a connection ever opens.                              *)
(***************************************************************************)
Fairness ==
    /\ \A l \in Loops : WF_vars(Runs(l)) /\ SF_vars(GivesUp(l))
    /\ SF_vars(Leave) /\ SF_vars(SeeState) /\ SF_vars(HandleEvent) /\ SF_vars(HandleLagged)
    /\ WF_vars(Ack \/ Reconnect)
    /\ WF_vars(Stop(Session))
    /\ \A c \in Callers : WF_vars(Stops(c))
    /\ <>[]~lagged

FairSpec == Spec /\ Fairness

-----------------------------------------------------------------------------
(* Properties *)

\* Once the server has demanded a newer client nothing connects again (that would set
\* Connecting), whatever stops and restarts the socket ("UpdateRequired is preserved").
UpdateSticks == [][state = "UpdateRequired" => state' = "UpdateRequired"]_vars

\* When all who stop the engine have returned, no loop is left behind: neither the event
\* loop nor a connection that it restarted meanwhile.
Begun == {c \in Callers : callers[c].pc # "idle"}
QuietAfterStop ==
    /\ TypeOK
    /\ Begun # {} /\ (\A c \in Begun : callers[c].pc = "done") =>
          engine.pc = "ended" /\ handle = NoLoop /\ \A l \in Loops : ~Active(l)

\* "Reconnect after the normal jittered backoff": whatever the jitter draws, a delay is not
\* shorter than the one before it until half of the cap is reached, and not below that again,
\* unless the server has said hello in between or the loop was started anew.  One that accepts the
\* connection and hangs up is not asked again and again at once.
DelaysGrow ==
    [][\A l \in Loops : loops[l].pc # "backoff" /\ loops'[l].pc = "backoff" =>
           loops'[l].delay >= Smaller(loops[l].delay, Cap \div 2)]_vars

\* stop() returns, except while the event loop waits for room in an outbound channel that
\* nobody empties.
Blocked == engine.pc = "ack" /\ outbound = Outbound
Stopping == {c \in Callers : callers[c].pc \notin {"idle", "done"}}
StopEnds == Stopping # {} ~> Stopping = {} \/ Blocked

\* A revoked session is given up: at last no loop runs, and nothing is left that could start
\* another one.
Settled == (\A l \in Loops : ~Active(l)) /\ ~lagged /\ engine.pc \in {"select", "ack", "ended"}
RevokedGoesQuiet == revoked ~> Settled

\* The engine learns of an update whatever order it sees the event and the state in: when it
\* has nothing left to look at, it shows it.
UpdateIsShown ==
    Selecting /\ ~unseen /\ ~lagged /\ events = <<>> =>
        (state = "UpdateRequired" => shown = "UpdateRequired")
=============================================================================
