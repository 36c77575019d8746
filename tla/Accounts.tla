------------------------------ MODULE Accounts ------------------------------
(***************************************************************************)
(* The Tzibbur accounts of one Telegram user: their rows in Directus       *)
(* (bridge/store.rs), the registry of running runtimes (bridge/mod.rs),    *)
(* connect and disconnect (app.rs), the end of a session, a crash and      *)
(* start_all.  A chat handler and the Mini App may connect at the same     *)
(* time.  Topics, the wiped cache and the active account are left out.     *)
(***************************************************************************)
EXTENDS Naturals, FiniteSets

CONSTANTS Chat,         \* the handlers of the user's chat, one after the other
          Mini,         \* requests of the Mini App, at most one at a time each
          Identities,   \* Tzibbur users somebody signs in as
          Nobody,
          MaxRows,      \* bound: rows ever created
          MaxSessions,  \* bound: sign-ins
          Runtimes,     \* names for runtimes; one that has ended is used again
          NoRuntime,
          MaxFaults,    \* bound: failed calls
          MaxBreaks     \* bound: crashes, and stops that give up after 10 s

Tasks == {Chat} \cup Mini
Ids == 1..MaxRows
Sessions == 1..MaxSessions

ASSUME NamesAssumption == /\ Chat \notin Mini
                          /\ Nobody \notin Identities
                          /\ NoRuntime \notin Runtimes
ASSUME BoundsAssumption == /\ MaxRows \in Nat \ {0} /\ MaxSessions \in Nat
                           /\ MaxFaults \in Nat /\ MaxBreaks \in Nat

VARIABLES rows,       \* rows[i]: the account with id i; who = Nobody if there is none
          created,    \* the ids given out
          registry,   \* registry[i]: the runtime of account i
          runtimes,   \* runtimes[r]: AccountRuntime
          revoked,    \* sessions the server has ended
          issued,     \* sessions issued
          tasks,      \* tasks[t]: where connect or disconnect is, and its locals
          boot,       \* connected accounts start_all has still to start
          crossed,    \* accounts two tasks were at work on at once, since the process started
          raced,      \* ... and accounts two tasks were starting at once
          overdue,    \* accounts whose run loop a stop did not wait for, since then
          faults, breaks

directus == <<rows, created>>
server == <<revoked, issued>>
work == <<tasks, crossed, raced>>
counters == <<overdue, faults, breaks>>
vars == <<rows, created, registry, runtimes, revoked, issued, tasks, boot, crossed, raced,
          overdue, faults, breaks>>

-----------------------------------------------------------------------------

NoRow == [who |-> Nobody, status |-> "disconnected", session |-> 0]
Row == [who : Identities \cup {Nobody}, status : {"connected", "reauth", "disconnected"},
        session : Sessions \cup {0}]

Off == [pc |-> "off", id |-> 0, session |-> 0, stop |-> FALSE, handle |-> FALSE]
Runtime == [pc : {"off", "on", "invalid", "marked"}, id : Ids \cup {0},
            session : Sessions \cup {0}, stop : BOOLEAN, handle : BOOLEAN]

Idle == [pc |-> "idle", who |-> Nobody, session |-> 0, add |-> FALSE, same |-> FALSE,
         row |-> 0, rt |-> NoRuntime]
Task == [pc : {"idle", "lookup", "remove", "stopping", "retire", "find", "write", "start", "insert",
               "get", "wipe", "unregister", "unregistered", "drop"},
         who : Identities \cup {Nobody}, session : Sessions \cup {0}, add : BOOLEAN, same : BOOLEAN,
         row : Ids \cup {0}, rt : Runtimes \cup {NoRuntime}]

TypeOK ==
    /\ rows \in [Ids -> Row]
    /\ \A i \in Ids : /\ rows[i].who # Nobody => i <= created
                      /\ rows[i].session # 0 <=> rows[i].status = "connected"
    /\ created \in 0..MaxRows
    /\ registry \in [Ids -> Runtimes \cup {NoRuntime}]
    /\ runtimes \in [Runtimes -> Runtime]
    /\ revoked \subseteq 1..issued /\ issued \in 0..MaxSessions
    /\ tasks \in [Tasks -> Task]
    /\ boot \subseteq Ids
    /\ crossed \subseteq Ids /\ raced \subseteq Ids /\ overdue \subseteq Ids
    /\ faults \in 0..MaxFaults /\ breaks \in 0..MaxBreaks

Exists(i) == rows[i].who # Nobody
Rank(i) == CASE rows[i].status = "connected" -> 0
             [] rows[i].status = "reauth" -> 1
             [] OTHER -> 2

\* account_for_user: by status, then the newest.
ForUser == {i \in Ids : /\ Exists(i)
                        /\ \A k \in Ids : Exists(k) =>
                              Rank(i) < Rank(k) \/ (Rank(i) = Rank(k) /\ k <= i)}

\* account_for: any connected account may be the active one.
Chosen == {i \in Ids : Exists(i) /\ (rows[i].status = "connected" \/ i \in ForUser)}

Running(r) == runtimes[r].pc # "off"

\* Others are at work on that account.
Meets(t, i) == \E u \in Tasks \ {t} : tasks[u].pc # "idle" /\ tasks[u].row = i

Become(t, task) ==
    /\ tasks' = [tasks EXCEPT ![t] = task]
    /\ crossed' = crossed \cup {i \in Ids : task.row = i /\ Meets(t, i)}
    /\ UNCHANGED raced
Go(t, pc) == tasks' = [tasks EXCEPT ![t].pc = pc] /\ UNCHANGED <<crossed, raced>>
Fault == faults < MaxFaults /\ faults' = faults + 1
Break == breaks < MaxBreaks /\ breaks' = breaks + 1

\* set_account_status: what is not connected keeps no session.
WithStatus(i, status) == [rows EXCEPT ![i].status = status, ![i].session = 0]

-----------------------------------------------------------------------------
(* AccountRuntime *)

\* Cmd::Stop is sent, a runtime that has ended ignores it; the first to stop it takes its handle.
SendStop(r) == runtimes' = [runtimes EXCEPT ![r].stop = Running(r), ![r].handle = FALSE]

\* stop() has awaited the run loop, for 10 s at most, and the sync engine.
Awaited(t) ==
    /\ \/ ~Running(tasks[t].rt) /\ UNCHANGED <<breaks, overdue>>
       \/ /\ Running(tasks[t].rt)
          /\ Break
          /\ overdue' = overdue \cup {tasks[t].row}
    /\ UNCHANGED runtimes

\* A runtime that no registry entry and no task needs.
Spare(r) == /\ ~Running(r)
            /\ \A i \in Ids : registry[i] # r
            /\ \A t \in Tasks : tasks[t].rt # r

\* build, start, insert.
Launch(i, session) ==
    /\ \E r \in Runtimes : Spare(r)
    /\ registry' = [registry EXCEPT ![i] = CHOOSE r \in Runtimes : Spare(r)]
    /\ runtimes' = [runtimes EXCEPT ![registry'[i]] =
                       [pc |-> "on", id |-> i, session |-> session, stop |-> FALSE,
                        handle |-> TRUE]]

TakeStop(r) ==
    /\ runtimes[r].pc = "on"
    /\ runtimes[r].stop
    /\ runtimes' = [runtimes EXCEPT ![r] = Off]
    /\ UNCHANGED <<directus, registry, server, work, boot, counters>>

\* A 401, or the socket's close: Cmd::SessionInvalidated, unless a stop came first.
Expire(r) ==
    /\ runtimes[r].pc = "on"
    /\ ~runtimes[r].stop
    /\ runtimes[r].session \in revoked
    /\ runtimes' = [runtimes EXCEPT ![r].pc = "invalid"]
    /\ UNCHANGED <<directus, registry, server, work, boot, counters>>

\* Mutant of MarkReauth: the user is told, the row is not.
MarkNothing(r) ==
    /\ runtimes[r].pc = "invalid"
    /\ runtimes' = [runtimes EXCEPT ![r].pc = "marked"]
    /\ UNCHANGED <<directus, registry, server, work, boot, counters>>

\* handle_session_invalidated writes the status; an error is ignored.
MarkReauth(r) ==
    /\ runtimes[r].pc = "invalid"
    /\ \/ /\ rows' = IF Exists(runtimes[r].id) THEN WithStatus(runtimes[r].id, "reauth") ELSE rows
          /\ UNCHANGED faults
       \/ Fault /\ UNCHANGED rows
    /\ runtimes' = [runtimes EXCEPT ![r].pc = "marked"]
    /\ UNCHANGED <<created, registry, server, work, boot, overdue, breaks>>

\* ... and stops the engine; the runtime stays in the registry.
EndExpired(r) ==
    /\ runtimes[r].pc = "marked"
    /\ runtimes' = [runtimes EXCEPT ![r] = Off]
    /\ UNCHANGED <<directus, registry, server, work, boot, counters>>

-----------------------------------------------------------------------------
(* App::connect *)

SignIn(t) ==
    /\ tasks[t].pc = "idle"
    /\ boot = {}
    /\ issued < MaxSessions
    /\ issued' = issued + 1
    /\ \E w \in Identities, add \in BOOLEAN :
          /\ t \in Mini => ~add
          /\ Become(t, [Idle EXCEPT !.pc = "lookup", !.who = w, !.add = add, !.session = issued'])
    /\ UNCHANGED <<directus, registry, runtimes, revoked, boot, counters>>

Lookup(t) ==
    /\ tasks[t].pc = "lookup"
    /\ LET replaced == {p \in ForUser : ~tasks[t].add \/ rows[p].who = tasks[t].who}
       IN  IF replaced = {} THEN Go(t, "find")
           ELSE \E p \in replaced :
                   Become(t, [tasks[t] EXCEPT !.pc = "remove", !.row = p,
                                              !.same = (rows[p].who = tasks[t].who)])
    /\ UNCHANGED <<directus, registry, runtimes, server, boot, counters>>

\* Mutant of Unregister: the runtime is forgotten, not stopped.
UnregisterOnly(t, next, after) ==
    /\ registry' = [registry EXCEPT ![tasks[t].row] = NoRuntime]
    /\ Go(t, after)
    /\ UNCHANGED runtimes

\* Registry::remove takes the entry and stops its runtime.
Unregister(t, next, after) ==
    /\ registry' = [registry EXCEPT ![tasks[t].row] = NoRuntime]
    /\ IF registry[tasks[t].row] = NoRuntime THEN Go(t, after) /\ UNCHANGED runtimes
       ELSE /\ SendStop(registry[tasks[t].row])
            /\ IF runtimes[registry[tasks[t].row]].handle
               THEN Become(t, [tasks[t] EXCEPT !.pc = next, !.rt = registry[tasks[t].row]])
               ELSE Go(t, after)

\* The identity of the account that is replaced decides what follows.
Replaced(t) == IF tasks[t].same THEN "find" ELSE "retire"

Remove(t) ==
    /\ tasks[t].pc = "remove"
    /\ Unregister(t, "stopping", Replaced(t))
    /\ UNCHANGED <<directus, server, boot, counters>>

StopAwaited(t) ==
    /\ tasks[t].pc = "stopping"
    /\ Awaited(t)
    /\ Become(t, [tasks[t] EXCEPT !.pc = Replaced(t), !.rt = NoRuntime])
    /\ UNCHANGED <<directus, registry, server, boot, faults>>

\* retire_account_topics, then the status.
Retire(t) ==
    /\ tasks[t].pc = "retire"
    /\ IF Exists(tasks[t].row)
       THEN rows' = WithStatus(tasks[t].row, "disconnected") /\ Go(t, "find")
       ELSE UNCHANGED rows /\ Become(t, Idle)
    /\ UNCHANGED <<created, registry, runtimes, server, boot, counters>>

\* connect_account looks for the user's row of that identity ...
Find(t) ==
    /\ tasks[t].pc = "find"
    /\ LET own == {i \in Ids : rows[i].who = tasks[t].who}
       IN  \E i \in IF own = {} THEN {0} ELSE own :
              Become(t, [tasks[t] EXCEPT !.pc = "write", !.row = i])
    /\ UNCHANGED <<directus, registry, runtimes, server, boot, counters>>

\* ... and writes it, or creates one.
Put(t, i) ==
    rows' = [rows EXCEPT ![i] = [who |-> tasks[t].who, status |-> "connected",
                                 session |-> tasks[t].session]]

\* Another task has created one since.
Doubled(t) == LET own == {i \in Ids : rows[i].who = tasks[t].who}
              IN  IF own = {} THEN {} ELSE own \cup {created + 1}

Write(t) ==
    /\ tasks[t].pc = "write"
    /\ \/ /\ tasks[t].row # 0
          /\ Exists(tasks[t].row)
          /\ Put(t, tasks[t].row)
          /\ Go(t, "start")
          /\ UNCHANGED created
       \/ /\ tasks[t].row # 0
          /\ ~Exists(tasks[t].row)
          /\ Become(t, Idle)
          /\ UNCHANGED directus
       \/ /\ tasks[t].row = 0
          /\ created < MaxRows
          /\ created' = created + 1
          /\ Put(t, created')
          /\ tasks' = [tasks EXCEPT ![t].pc = "start", ![t].row = created']
          /\ crossed' = crossed \cup Doubled(t)
          /\ UNCHANGED raced
    /\ UNCHANGED <<registry, runtimes, server, boot, counters>>

\* start_runtime: one that is registered is returned.
StartGet(t) ==
    /\ tasks[t].pc = "start"
    /\ IF registry[tasks[t].row] # NoRuntime THEN Become(t, Idle)
       ELSE /\ tasks' = [tasks EXCEPT ![t].pc = "insert"]
            /\ raced' = raced \cup {i \in Ids : /\ tasks[t].row = i
                                               /\ \E u \in Tasks \ {t} : tasks[u].pc = "insert"
                                                                        /\ tasks[u].row = i}
            /\ UNCHANGED crossed
    /\ UNCHANGED <<directus, registry, runtimes, server, boot, counters>>

Insert(t) ==
    /\ tasks[t].pc = "insert"
    /\ Launch(tasks[t].row, tasks[t].session)
    /\ Become(t, Idle)
    /\ UNCHANGED <<directus, server, boot, counters>>

-----------------------------------------------------------------------------
(* App::disconnect *)

\* `add` says whether it purges.
Disconnect ==
    /\ tasks[Chat].pc = "idle"
    /\ boot = {}
    /\ \E i \in Chosen, purge \in BOOLEAN :
          Become(Chat, [Idle EXCEPT !.pc = "get", !.row = i, !.add = purge])
    /\ UNCHANGED <<directus, registry, runtimes, server, boot, counters>>

Get ==
    /\ tasks[Chat].pc = "get"
    /\ LET r == registry[tasks[Chat].row]
       IN  IF r = NoRuntime THEN Go(Chat, "drop") /\ UNCHANGED runtimes
           ELSE /\ SendStop(r)
                /\ IF runtimes[r].handle THEN Become(Chat, [tasks[Chat] EXCEPT !.pc = "wipe", !.rt = r])
                   ELSE Go(Chat, "unregister")
    /\ UNCHANGED <<directus, registry, server, boot, counters>>

\* stop_and_wipe.
Wipe ==
    /\ tasks[Chat].pc = "wipe"
    /\ Awaited(Chat)
    /\ Become(Chat, [tasks[Chat] EXCEPT !.pc = "unregister", !.rt = NoRuntime])
    /\ UNCHANGED <<directus, registry, server, boot, faults>>

RemoveWiped ==
    /\ tasks[Chat].pc = "unregister"
    /\ Unregister(Chat, "unregistered", "drop")
    /\ UNCHANGED <<directus, server, boot, counters>>

RemovedWiped ==
    /\ tasks[Chat].pc = "unregistered"
    /\ Awaited(Chat)
    /\ Become(Chat, [tasks[Chat] EXCEPT !.pc = "drop", !.rt = NoRuntime])
    /\ UNCHANGED <<directus, registry, server, boot, faults>>

\* purge_account, or the status.
Dropped == IF tasks[Chat].add THEN [rows EXCEPT ![tasks[Chat].row] = NoRow]
           ELSE IF Exists(tasks[Chat].row) THEN WithStatus(tasks[Chat].row, "disconnected")
           ELSE rows

Drop ==
    /\ tasks[Chat].pc = "drop"
    /\ rows' = Dropped
    /\ Become(Chat, Idle)
    /\ UNCHANGED <<created, registry, runtimes, server, boot, counters>>

-----------------------------------------------------------------------------
(* Failures *)

Revoke ==
    /\ \E s \in 1..issued : revoked' = revoked \cup {s}
    /\ UNCHANGED <<directus, registry, runtimes, issued, work, boot, counters>>

\* A call to Directus fails, done or not: `?` leaves.  The future of a request whose connection
\* is lost is dropped, also while it waits for a stop.
Fail(t) ==
    /\ Fault
    /\ \/ tasks[t].pc \in {"lookup", "retire", "find", "write", "insert", "drop"}
          /\ UNCHANGED <<directus, crossed>>
       \/ t \in Mini /\ tasks[t].pc = "stopping"
          /\ UNCHANGED <<directus, crossed>>
       \/ /\ tasks[t].pc = "retire" /\ Exists(tasks[t].row)
          /\ rows' = WithStatus(tasks[t].row, "disconnected")
          /\ UNCHANGED <<created, crossed>>
       \/ /\ tasks[t].pc = "write" /\ tasks[t].row # 0 /\ Exists(tasks[t].row)
          /\ Put(t, tasks[t].row)
          /\ UNCHANGED <<created, crossed>>
       \/ /\ tasks[t].pc = "write" /\ tasks[t].row = 0 /\ created < MaxRows
          /\ created' = created + 1
          /\ Put(t, created')
          /\ crossed' = crossed \cup Doubled(t)
       \/ /\ t = Chat /\ tasks[Chat].pc = "drop"
          /\ rows' = Dropped
          /\ UNCHANGED <<created, crossed>>
    /\ tasks' = [tasks EXCEPT ![t] = Idle]
    /\ overdue' = IF tasks[t].rt = NoRuntime THEN overdue ELSE overdue \cup {tasks[t].row}
    /\ UNCHANGED <<registry, runtimes, server, boot, raced, breaks>>

\* Accounts of one identity, of which two tasks have created one each.
Twice == {i \in Ids : Exists(i) /\ \E k \in Ids \ {i} : rows[k].who = rows[i].who}

\* Mutant of Crash: start_all takes every account.
CrashBootsAll ==
    /\ Break
    /\ registry' = [i \in Ids |-> NoRuntime]
    /\ runtimes' = [r \in Runtimes |-> Off]
    /\ tasks' = [t \in Tasks |-> Idle]
    /\ crossed' = Twice /\ raced' = {} /\ overdue' = {}
    /\ boot' = {i \in Ids : Exists(i)}
    /\ UNCHANGED <<directus, server, faults>>

\* The process dies and starts again: start_all lists the connected accounts.
Crash ==
    /\ Break
    /\ registry' = [i \in Ids |-> NoRuntime]
    /\ runtimes' = [r \in Runtimes |-> Off]
    /\ tasks' = [t \in Tasks |-> Idle]
    /\ crossed' = Twice /\ raced' = {} /\ overdue' = {}
    /\ boot' = {i \in Ids : Exists(i) /\ rows[i].status = "connected"}
    /\ UNCHANGED <<directus, server, faults>>

\* One after the other, before anything is dispatched; one that fails is skipped.
Boot(i) ==
    /\ i \in boot
    /\ boot' = boot \ {i}
    /\ \/ Launch(i, rows[i].session) /\ UNCHANGED faults
       \/ Fault /\ UNCHANGED <<registry, runtimes>>
    /\ UNCHANGED <<directus, server, work, overdue, breaks>>

-----------------------------------------------------------------------------

Init ==
    /\ rows = [i \in Ids |-> NoRow] /\ created = 0
    /\ registry = [i \in Ids |-> NoRuntime]
    /\ runtimes = [r \in Runtimes |-> Off]
    /\ revoked = {} /\ issued = 0
    /\ tasks = [t \in Tasks |-> Idle]
    /\ boot = {}
    /\ crossed = {} /\ raced = {} /\ overdue = {}
    /\ faults = 0 /\ breaks = 0

Connect(t) == \/ Lookup(t) \/ Remove(t) \/ StopAwaited(t) \/ Retire(t) \/ Find(t) \/ Write(t)
              \/ StartGet(t) \/ Insert(t)
Disconnecting == Get \/ Wipe \/ RemoveWiped \/ RemovedWiped \/ Drop
Ends(r) == TakeStop(r) \/ Expire(r) \/ MarkReauth(r) \/ EndExpired(r)

Next == \/ \E t \in Tasks : SignIn(t) \/ Connect(t) \/ Fail(t)
        \/ Disconnect \/ Disconnecting
        \/ \E r \in Runtimes : Ends(r)
        \/ Revoke
        \/ Crash
        \/ \E i \in Ids : Boot(i)

Spec == Init /\ [][Next]_vars

\* Tasks and runtimes run; a revoked session meets a 401 some day.
Fairness == /\ \A t \in Tasks : WF_vars(Connect(t))
            /\ WF_vars(Disconnecting)
            /\ \A r \in Runtimes : WF_vars(Ends(r))
            /\ \A i \in Ids : WF_vars(Boot(i))

FairSpec == Spec /\ Fairness

-----------------------------------------------------------------------------
(* Properties *)

Busy(i) == \E t \in Tasks : tasks[t].pc # "idle" /\ tasks[t].row = i
Quiet == boot = {} /\ \A t \in Tasks : tasks[t].pc = "idle"

\* No runtime is lost: one that runs is in the registry under its account, or somebody waits
\* for it to stop.  A second one of the same account would forward every message twice.  Only
\* two tasks that start one account at once lose a runtime for good, whatever else they do to the
\* same account at once; what a stop did not wait for is at its end.
NoStray ==
    \A r \in Runtimes : Running(r) =>
        LET i == runtimes[r].id
        IN  \/ registry[i] = r
            \/ \E t \in Tasks : tasks[t].rt = r
            \/ i \in overdue /\ (runtimes[r].stop \/ runtimes[r].pc # "on")
            \/ i \in raced

\* The status of an account agrees with what runs.  What runs without anybody ending it runs on
\* an account that is connected: after a disconnect, a replacement or a purge, whatever failed
\* or crashed, nothing is forwarded.  And an account that is connected is in the registry once
\* nobody is at work, also when the process died between writing the row and starting it.
\* Spared are the accounts on which two tasks were at work at once, or a stop did not wait.
Spared == crossed \cup overdue
StatusIsTrue ==
    /\ TypeOK
    /\ \A r \in Runtimes :
          runtimes[r].pc = "on" /\ ~runtimes[r].stop =>
              rows[runtimes[r].id].status = "connected" \/ runtimes[r].id \in Spared
    /\ Quiet /\ faults = 0 =>
          \A i \in Ids \ Spared : Exists(i) /\ rows[i].status = "connected" => registry[i] # NoRuntime

\* A session that the server ended is reported: the account of a runtime that uses it does
\* not stay "connected", unless the one call that says so fails.
Dead(i) == rows[i].session \in revoked
Uses(i) == /\ registry[i] # NoRuntime
           /\ Running(registry[i])
           /\ runtimes[registry[i]].session = rows[i].session
ExpiredIsReported == \A i \in Ids : Dead(i) /\ Uses(i) ~> ~Dead(i) \/ faults > 0

\* An account shown as connected is forwarded, also after it expired and was connected again
\* (README: "topics are reused after reconnecting").
ConnectedRuns ==
    Quiet => \A i \in Ids : Exists(i) /\ rows[i].status = "connected" =>
                 registry[i] # NoRuntime /\ Running(registry[i])
=============================================================================
