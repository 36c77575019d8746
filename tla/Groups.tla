------------------------------- MODULE Groups -------------------------------
(***************************************************************************)
(* One Tzibbur group and its topic: membership and name at the server, the *)
(* engine's local row (sync.rs, store/sqlite.rs), the conversation in      *)
(* Directus (store.rs) and the Telegram topic (bridge/mod.rs).  The run    *)
(* loop and a handler of the user's chat work on the topic side by side.   *)
(* Names stand for every setting; members, roles, history and what is      *)
(* forwarded are left out.  auto_topics is on.                             *)
(***************************************************************************)
EXTENDS Naturals, Sequences, FiniteSets

CONSTANTS Names,         \* the names of the group, 0 the first of them
          MaxChanges,    \* bound: what others do: a new name, the user added or removed, a message
          MaxLosses,     \* bound: lost sockets, crashes, topics the user deletes
          MaxFaults,     \* bound: calls that fail
          MaxCommands,   \* bound: commands the user gives
          MaxTopics      \* bound: topics ever made

Topics == 1..MaxTopics
Tasks == {"loop", "chat"}

ASSUME BoundsAssumption ==
    /\ 0 \in Names
    /\ MaxChanges \in Nat /\ MaxLosses \in Nat /\ MaxFaults \in Nat
    /\ MaxCommands \in Nat /\ MaxTopics \in Nat \ {0}

VARIABLES group,     \* the server: whether the user is in the group, and its name
          up,        \* the socket is connected
          frames,    \* socket events the engine has not handled
          row,       \* the engine's row of the group
          engine,    \* the group list just fetched, while it is not written yet
          events,    \* SyncEvents the run loop has not handled
          conv,      \* the conversation
          rows,      \* conversations created
          topics,    \* topics[k]: a Telegram topic
          titles,    \* titles[k]: its name
          lock,      \* conv_lock
          tasks,     \* tasks[t]: where the run loop or a handler is, and its locals
          synced,    \* no move, command or error since the last connect
          calm,      \* no loss, command or error since the last removal, which met an idle chat
          spoilt,    \* a call failed half-way, the user deleted a topic, or two tasks crossed
          changes, commands, drops, deletions, faults

counters == <<changes, commands>>
losses == <<drops, deletions, faults>>
telegram == <<conv, rows, topics, titles, lock>>
history == <<synced, calm, spoilt>>
vars == <<group, up, frames, row, engine, events, telegram, tasks, history, losses, counters>>

-----------------------------------------------------------------------------

Frame == [kind : {"connected", "joined", "removed", "updated", "message"}, name : Names]
Event(kind, name) == [kind |-> kind, name |-> name]
SyncEvents == {"caughtUp", "joined", "changed", "deleted", "message"}

Group == [in : BOOLEAN, name : Names]
Row == [known : BOOLEAN, deleted : BOOLEAN, name : Names]
NoConv == [is |-> FALSE, topic |-> 0, name |-> 0, closed |-> FALSE]
Conv == [is : BOOLEAN, topic : Topics \cup {0}, name : Names, closed : BOOLEAN]
NoList == [is |-> FALSE, group |-> [in |-> FALSE, name |-> 0]]

Steps == {"idle", "reconcile", "edit", "name", "reopen", "reopenTopic", "ensure", "lock", "topic",
          "create", "forward", "send", "recreate", "map", "closeTopic", "close",
          "fetched", "patched", "left"}
Rest == [pc |-> "idle", then |-> "idle", conv |-> NoConv, seen |-> NoList.group, made |-> 0]
Task == [pc : Steps, then : {"idle", "reopen", "send", "forward", "unlock", "closeTopic"},
         conv : Conv, seen : Group, made : Topics \cup {0}]

TypeOK ==
    /\ group \in Group /\ up \in BOOLEAN
    /\ \A i \in DOMAIN frames : frames[i] \in Frame
    /\ row \in Row /\ (row.known \/ ~row.deleted)
    /\ \A i \in DOMAIN events : events[i] \in SyncEvents
    /\ conv \in Conv /\ (conv.is <=> rows > 0)
    /\ topics \in [Topics -> {"none", "open", "closed", "gone"}]
    /\ titles \in [Topics -> Names]
    /\ conv.is /\ conv.topic # 0 => topics[conv.topic] # "none"
    /\ lock \in Tasks \cup {"free"}
    /\ \A t \in Tasks : /\ tasks[t] \in Task
                        /\ lock = t <=> tasks[t].pc \in {"topic", "create"}
                                        \/ tasks[t].then = "unlock"
    /\ synced \in BOOLEAN /\ calm \in BOOLEAN /\ spoilt \in BOOLEAN

Become(t, task) == tasks' = [tasks EXCEPT ![t] = task]
Go(t, pc) == tasks' = [tasks EXCEPT ![t].pc = pc]
Emit(e) == events' = Append(events, e)

-----------------------------------------------------------------------------
(* The server *)

Tell(frame) == frames' = IF up THEN Append(frames, frame) ELSE frames

\* Any other name, also one that the group had.
Renamed == \E n \in Names \ {group.name} : group' = [group EXCEPT !.name = n]

Change == changes < MaxChanges /\ changes' = changes + 1 /\ UNCHANGED commands

Rename ==
    /\ Change
    /\ Renamed
    /\ IF group.in THEN Tell(Event("updated", group'.name)) ELSE UNCHANGED frames
    /\ UNCHANGED <<up, row, engine, events, telegram, tasks, history, losses>>

\* The user is added, or removed, or the group is deleted.
Move ==
    /\ Change
    /\ group' = [group EXCEPT !.in = ~@]
    /\ Tell(Event(IF group.in THEN "removed" ELSE "joined", 0))
    /\ synced' = FALSE
    /\ calm' = (group.in /\ up /\ tasks["chat"].pc = "idle")
    /\ UNCHANGED <<up, row, engine, events, telegram, tasks, spoilt, losses>>

Post ==
    /\ Change
    /\ group.in /\ up
    /\ Tell(Event("message", 0))
    /\ UNCHANGED <<group, up, row, engine, events, telegram, tasks, history, losses>>

MayLose == drops + deletions < MaxLosses

\* What the server sent and the socket has not read is lost.
Drop ==
    /\ up /\ MayLose
    /\ drops' = drops + 1
    /\ up' = FALSE
    /\ \E n \in 0..Len(frames) :
          /\ \A i \in n + 1..Len(frames) : frames[i].kind # "connected"
          /\ frames' = SubSeq(frames, 1, n)
    /\ calm' = FALSE
    /\ UNCHANGED <<group, row, engine, events, telegram, tasks, synced, spoilt, deletions, faults,
                   counters>>

Connect ==
    /\ ~up
    /\ up' = TRUE
    /\ frames' = Append(frames, Event("connected", 0))
    /\ UNCHANGED <<group, row, engine, events, telegram, tasks, history, losses, counters>>

\* The user deletes a topic in Telegram.
DeleteTopic(k) ==
    /\ MayLose
    /\ topics[k] \in {"open", "closed"}
    /\ deletions' = deletions + 1
    /\ topics' = [topics EXCEPT ![k] = "gone"]
    /\ spoilt' = TRUE
    /\ UNCHANGED <<group, up, frames, row, engine, events, conv, rows, titles, lock, tasks, synced, calm,
                   drops, faults, counters>>

\* Half of what belongs together is done.
HalfWay == {"name", "reopenTopic", "close"}

\* The process dies, and every call that is under way with it.
Crash ==
    /\ MayLose
    /\ drops' = drops + 1
    /\ faults' = faults + Cardinality({t \in Tasks : tasks[t].pc # "idle"})
    /\ up' = FALSE /\ frames' = <<>> /\ engine' = NoList /\ events' = <<>>
    /\ tasks' = [t \in Tasks |-> Rest]
    /\ lock' = "free"
    /\ synced' = FALSE /\ calm' = FALSE
    /\ spoilt' = (spoilt \/ \E t \in Tasks : tasks[t].pc \in HalfWay)
    /\ UNCHANGED <<group, row, conv, rows, topics, titles, deletions, counters>>

\* A call fails, and has changed nothing.
Fault == faults < MaxFaults /\ faults' = faults + 1 /\ UNCHANGED <<drops, deletions>>

\* ... and the handler is left with the error.
Error == Fault /\ synced' = FALSE /\ calm' = FALSE

-----------------------------------------------------------------------------
(* The engine *)

Seen(name) == [known |-> TRUE, deleted |-> FALSE, name |-> name]

\* mark_group_deleted: a group that is not known stays unknown.
Gone == [row EXCEPT !.deleted = row.known]

\* Mutant of Listed: groups that are absent stay.
ListedOnly(g) == IF g.in THEN Seen(g.name) ELSE row

\* reconcile_groups: what is listed is written, what is absent is marked deleted.
Listed(g) == IF g.in THEN Seen(g.name) ELSE Gone

Handle(kind) ==
    /\ ~engine.is
    /\ frames # <<>> /\ Head(frames).kind = kind
    /\ frames' = Tail(frames)

\* Connected: the list is fetched ...
FetchList ==
    /\ Handle("connected")
    /\ engine' = [is |-> TRUE, group |-> group]
    /\ synced' = /\ tasks["chat"].pc = "idle"
                 /\ \A i \in DOMAIN frames : frames[i].kind \notin {"joined", "removed"}
    /\ UNCHANGED <<group, up, row, events, telegram, tasks, calm, spoilt, losses, counters>>

\* ... and written; CaughtUp is announced also when it could not be fetched.
WriteList ==
    /\ engine.is
    /\ engine' = NoList
    /\ \/ row' = Listed(engine.group) /\ UNCHANGED synced
       \/ synced' = FALSE /\ UNCHANGED row
    /\ Emit("caughtUp")
    /\ UNCHANGED <<group, up, frames, telegram, tasks, calm, spoilt, losses, counters>>

\* We were added: refresh_group, a 404 if we are gone again.
OnJoined ==
    /\ Handle("joined")
    /\ \/ /\ IF group.in THEN row' = Seen(group.name) /\ Emit("joined")
                        ELSE row' = Gone /\ Emit("deleted")
          /\ UNCHANGED <<history, losses>>
       \/ Error /\ UNCHANGED <<row, events, spoilt>>
    /\ UNCHANGED <<group, up, engine, telegram, tasks, counters>>

\* We were removed, or the group was deleted.
OnRemoved ==
    /\ Handle("removed")
    /\ row' = Gone
    /\ Emit("deleted")
    /\ UNCHANGED <<group, up, engine, telegram, tasks, history, losses, counters>>

\* apply_group_updated.
OnUpdated ==
    /\ Handle("updated")
    /\ row' = [row EXCEPT !.name = IF row.known THEN Head(frames).name ELSE @]
    /\ Emit("changed")
    /\ UNCHANGED <<group, up, engine, telegram, tasks, history, losses, counters>>

\* apply_incoming fetches a group it does not know, and announces also what it stored of a group
\* that it could not fetch.
OnMessage ==
    /\ Handle("message")
    /\ \/ /\ IF row.known \/ group.in
             THEN /\ row' = IF row.known THEN row ELSE Seen(group.name)
                  /\ Emit("message")
             ELSE UNCHANGED <<row, events>>
          /\ UNCHANGED <<history, losses>>
       \/ ~row.known /\ Error /\ Emit("message") /\ UNCHANGED <<row, spoilt>>
    /\ UNCHANGED <<group, up, engine, telegram, tasks, counters>>

-----------------------------------------------------------------------------
(* The run loop takes an event *)

\* A task keeps what it has read of the conversation and of the row as long as it uses it.
Start(pc, then) == [Rest EXCEPT !.pc = pc, !.then = then,
                                !.conv = IF pc \in {"reconcile", "ensure"} THEN NoConv ELSE conv,
                                !.seen.name = IF pc \in {"edit", "ensure"} THEN row.name ELSE 0]

\* Mutant of OnDeletedEvent: the note is sent last.
OnDeletedEventNoteLast == IF conv.is /\ ~conv.closed THEN Start("closeTopic", "send") ELSE Rest

\* GroupDeleted: a note, then the topic is closed.
OnDeletedEvent == IF conv.is /\ ~conv.closed THEN Start("send", "closeTopic") ELSE Rest

\* handle_sync_event.
Begun(event) ==
    CASE event = "caughtUp" -> Start("reconcile", "idle")
      [] event = "joined" -> IF row.known THEN Start("ensure", "idle") ELSE Rest
      [] event = "changed" -> IF conv.is /\ row.known /\ conv.name # row.name
                              THEN Start("edit", "send") ELSE Rest
      [] event = "deleted" -> OnDeletedEvent
      [] event = "message" -> IF row.known /\ ~row.deleted THEN Start("ensure", "forward") ELSE Rest

TakeEvent ==
    /\ tasks["loop"].pc = "idle"
    /\ events # <<>>
    /\ events' = Tail(events)
    /\ \/ Become("loop", Begun(Head(events))) /\ UNCHANGED <<history, losses>>
       \/ \* conversation_by_group fails (for the others that is GiveUp)
          Head(events) \in {"changed", "deleted"} /\ Error /\ UNCHANGED <<tasks, spoilt>>
    /\ UNCHANGED <<group, up, frames, row, engine, telegram, counters>>

\* RecvError::Lagged: the oldest events are lost, and reconcile_topics runs.
Lag ==
    /\ tasks["loop"].pc = "idle"
    /\ \E n \in 1..Len(events) : events' = SubSeq(events, n + 1, Len(events))
    /\ Fault /\ calm' = FALSE
    /\ Become("loop", [Rest EXCEPT !.pc = "reconcile"])
    /\ UNCHANGED <<group, up, frames, row, engine, telegram, synced, spoilt, counters>>

-----------------------------------------------------------------------------
(* The user's commands *)

Command ==
    /\ tasks["chat"].pc = "idle"
    /\ commands < MaxCommands
    /\ commands' = commands + 1
    /\ synced' = FALSE /\ calm' = FALSE
    /\ UNCHANGED <<changes, spoilt, losses>>

\* /sync: refresh_now fetches the list ...
Sync ==
    /\ Command
    /\ Become("chat", [Rest EXCEPT !.pc = "fetched", !.seen = group])
    /\ UNCHANGED <<group, up, frames, row, engine, events, telegram>>

\* ... and writes it, then reconcile_topics.
SyncWrites ==
    /\ tasks["chat"].pc = "fetched"
    /\ row' = Listed(tasks["chat"].seen)
    /\ Emit("caughtUp")
    /\ Become("chat", [Rest EXCEPT !.pc = "reconcile"])
    /\ UNCHANGED <<group, up, frames, engine, telegram, history, losses, counters>>

\* rename_group asks the server ...
RenameGroup ==
    /\ Command
    /\ conv.is /\ group.in
    /\ Renamed
    /\ Tell(Event("updated", group'.name))
    /\ Become("chat", [Rest EXCEPT !.pc = "patched", !.conv = conv, !.seen = group'])
    /\ UNCHANGED <<up, row, engine, events, telegram>>

\* ... writes the row, then renames the topic.
RenameWrites ==
    /\ tasks["chat"].pc = "patched"
    /\ row' = [row EXCEPT !.name = IF row.known THEN tasks["chat"].seen.name ELSE @]
    /\ Go("chat", "edit")
    /\ UNCHANGED <<group, up, frames, engine, events, telegram, history, losses, counters>>

\* leave_group, and delete_group for an admin: the server first ...
Leave ==
    /\ Command
    /\ conv.is /\ group.in
    /\ group' = [group EXCEPT !.in = FALSE]
    /\ Tell(Event("removed", 0))
    /\ Become("chat", [Rest EXCEPT !.pc = "left", !.conv = conv])
    /\ UNCHANGED <<up, row, engine, events, telegram>>

\* ... then the row, a note and the topic.
LeaveWrites ==
    /\ tasks["chat"].pc = "left"
    /\ row' = Gone
    /\ Emit("deleted")
    /\ Become("chat", [tasks["chat"] EXCEPT !.pc = "send", !.then = "closeTopic"])
    /\ UNCHANGED <<group, up, frames, engine, telegram, history, losses, counters>>

-----------------------------------------------------------------------------
(* What the run loop and a handler do with the topic, a call at a time *)

outside == <<group, up, frames, row, engine, events, counters>>
unharmed == <<history, losses>>

\* What is due after this step.
Proceed(t) ==
    Become(t, IF tasks[t].then = "idle" THEN Rest
              ELSE [Rest EXCEPT !.pc = tasks[t].then, !.conv = tasks[t].conv])

\* A message has been sent: forward_to lets the lock go.
Sent(t) ==
    IF tasks[t].then = "unlock" THEN lock' = "free" /\ Become(t, Rest)
    ELSE Proceed(t) /\ UNCHANGED lock

\* reconcile_topics, for the one group.
Reconcile(t) ==
    /\ tasks[t].pc = "reconcile"
    /\ Become(t, IF ~row.known \/ row.deleted THEN Rest
                 ELSE IF ~conv.is THEN Start("ensure", "idle")
                 ELSE IF conv.name # row.name THEN Start("edit", "reopen")
                 ELSE Start("reopen", "idle"))
    /\ UNCHANGED <<outside, telegram, unharmed>>

Meanwhile(t, pc) == \E u \in Tasks \ {t} : tasks[u].pc = pc

\* rename_topic: the topic first ...
Edit(t) ==
    /\ tasks[t].pc = "edit"
    /\ titles' = [k \in Topics |->
                      IF k = tasks[t].conv.topic THEN tasks[t].seen.name ELSE titles[k]]
    /\ spoilt' = (spoilt \/ Meanwhile(t, "name"))
    /\ Go(t, "name")
    /\ UNCHANGED <<outside, conv, rows, topics, lock, synced, calm, losses>>

\* ... then the conversation.
SetName(t) ==
    /\ tasks[t].pc = "name"
    /\ conv' = [conv EXCEPT !.name = tasks[t].seen.name]
    /\ Proceed(t)
    /\ UNCHANGED <<outside, rows, topics, titles, lock, unharmed>>

Reopen(t) ==
    /\ tasks[t].pc = "reopen"
    /\ IF tasks[t].conv.closed
       THEN conv' = [conv EXCEPT !.closed = FALSE] /\ Go(t, "reopenTopic")
       ELSE UNCHANGED conv /\ Become(t, Rest)
    /\ UNCHANGED <<outside, rows, topics, titles, lock, unharmed>>

\* A topic that is gone, or that there never was (0), stays so.
Turn(k, from, to) ==
    topics' = [j \in Topics |-> IF j = k /\ topics[j] = from THEN to ELSE topics[j]]

ReopenTopic(t) ==
    /\ tasks[t].pc = "reopenTopic"
    /\ Turn(tasks[t].conv.topic, "closed", "open")
    /\ spoilt' = (spoilt \/ conv.closed \/ Meanwhile(t, "close"))
    /\ Become(t, Rest)
    /\ UNCHANGED <<outside, conv, rows, titles, lock, synced, calm, losses>>

\* ensure_conversation looks ...
Ensure(t) ==
    /\ tasks[t].pc = "ensure"
    /\ IF conv.is THEN Proceed(t) ELSE Go(t, "lock")
    /\ UNCHANGED <<outside, telegram, unharmed>>

\* Mutant of Lock: it does not look again.
LockOnly(t) ==
    /\ tasks[t].pc = "lock"
    /\ lock = "free"
    /\ lock' = t /\ Go(t, "topic")
    /\ UNCHANGED <<outside, conv, rows, topics, titles, unharmed>>

\* ... takes the lock, and looks again.
Lock(t) ==
    /\ tasks[t].pc = "lock"
    /\ lock = "free"
    /\ IF conv.is THEN Proceed(t) /\ UNCHANGED lock ELSE lock' = t /\ Go(t, "topic")
    /\ UNCHANGED <<outside, conv, rows, topics, titles, unharmed>>

\* create_topic, if createForumTopic succeeds.
Make(t, next, name) ==
    LET k == 1 + Cardinality({j \in Topics : topics[j] # "none"})
    IN  /\ k \in Topics
        /\ topics' = [topics EXCEPT ![k] = "open"]
        /\ titles' = [titles EXCEPT ![k] = name]
        /\ Become(t, [tasks[t] EXCEPT !.pc = next, !.made = k])

MakeTopic(t) ==
    /\ tasks[t].pc = "topic"
    /\ Make(t, "create", tasks[t].seen.name)
    /\ UNCHANGED <<outside, conv, rows, lock, unharmed>>

Create(t) ==
    /\ tasks[t].pc = "create"
    /\ conv' = [is |-> TRUE, topic |-> tasks[t].made, name |-> tasks[t].seen.name, closed |-> FALSE]
    /\ rows' = rows + 1
    /\ lock' = "free"
    /\ Proceed(t)
    /\ UNCHANGED <<outside, topics, titles, unharmed>>

\* forward_to reads the conversation again under the lock.
Forward(t) ==
    /\ tasks[t].pc = "forward"
    /\ lock = "free"
    /\ lock' = t
    /\ Become(t, Start("send", "unlock"))
    /\ UNCHANGED <<outside, conv, rows, topics, titles, unharmed>>

\* Mutant of Missing: a topic that is closed is taken for one that is missing.
MissingOrClosed(k) == k # 0 /\ topics[k] # "open"

\* is_missing_thread; what goes to no topic arrives.
Missing(k) == k # 0 /\ topics[k] = "gone"

\* send_to_conv, for a message or a note.
Send(t) ==
    /\ tasks[t].pc = "send"
    /\ IF Missing(tasks[t].conv.topic) THEN Go(t, "recreate") /\ UNCHANGED lock ELSE Sent(t)
    /\ UNCHANGED <<outside, conv, rows, topics, titles, unharmed>>

\* Somebody may have replaced the topic already.
Recreate(t) ==
    /\ tasks[t].pc = "recreate"
    /\ IF conv.topic \in Topics \ {tasks[t].conv.topic} THEN Sent(t) /\ UNCHANGED <<topics, titles>>
       ELSE Make(t, "map", tasks[t].conv.name) /\ UNCHANGED lock
    /\ UNCHANGED <<outside, conv, rows, unharmed>>

\* Mutant of MapTopic: the new topic is not stored.
MapNothing(t) ==
    /\ tasks[t].pc = "map"
    /\ Sent(t)
    /\ UNCHANGED <<outside, conv, rows, topics, titles, unharmed>>

\* set_conversation_topic, which also opens it.
MapTopic(t) ==
    /\ tasks[t].pc = "map"
    /\ conv' = [conv EXCEPT !.topic = tasks[t].made, !.closed = FALSE]
    /\ Sent(t)
    /\ UNCHANGED <<outside, rows, topics, titles, unharmed>>

CloseTopic(t) ==
    /\ tasks[t].pc = "closeTopic"
    /\ Turn(tasks[t].conv.topic, "open", "closed")
    /\ Go(t, "close")
    /\ UNCHANGED <<outside, conv, rows, titles, lock, unharmed>>

Close(t) ==
    /\ tasks[t].pc = "close"
    /\ conv' = [conv EXCEPT !.closed = TRUE]
    /\ Proceed(t)
    /\ UNCHANGED <<outside, rows, topics, titles, lock, unharmed>>

\* `.ok()`, `let _ =` and create_topic's None: the error is dropped and the handler goes on.  The
\* error of a post ends a forwarding, which had nothing more to do, and is dropped for a note.
Ignored(t) ==
    /\ Fault
    /\ \/ /\ tasks[t].pc = "topic"
          /\ Become(t, [tasks[t] EXCEPT !.pc = "create", !.made = 0]) /\ UNCHANGED lock
       \/ /\ tasks[t].pc = "recreate" /\ conv.topic \notin Topics \ {tasks[t].conv.topic}
          /\ Become(t, [tasks[t] EXCEPT !.pc = "map", !.made = 0]) /\ UNCHANGED lock
       \/ tasks[t].pc = "edit" /\ Go(t, "name") /\ UNCHANGED lock
       \/ tasks[t].pc = "closeTopic" /\ Go(t, "close") /\ UNCHANGED lock
       \/ tasks[t].pc = "reopenTopic" /\ Become(t, Rest) /\ UNCHANGED lock
       \/ tasks[t].pc \in {"send", "recreate", "map"} /\ Sent(t)
    /\ spoilt' = (spoilt \/ tasks[t].pc \in {"topic", "edit", "closeTopic", "reopenTopic"})
    /\ UNCHANGED <<outside, conv, rows, topics, titles, synced, calm>>

\* `?`: the handler is left, and its lock with it.  Only reconcile_topics goes on after a rename.
GiveUp(t) ==
    /\ Error
    /\ tasks[t].pc \in {"fetched", "patched", "left", "reconcile", "ensure", "lock", "create",
                        "forward", "name", "reopen", "close"}
    /\ tasks[t].pc \in {"lock", "forward"} => lock = "free"
    /\ IF tasks[t].pc = "name" /\ tasks[t].then = "reopen" THEN Proceed(t) ELSE Become(t, Rest)
    /\ lock' = IF lock = t THEN "free" ELSE lock
    /\ spoilt' = (spoilt \/ tasks[t].pc \in {"name", "close"})
    /\ UNCHANGED <<outside, conv, rows, topics, titles>>

-----------------------------------------------------------------------------

Init ==
    /\ group = [in |-> TRUE, name |-> 0]
    /\ up = FALSE /\ frames = <<>>
    /\ row = [known |-> FALSE, deleted |-> FALSE, name |-> 0]
    /\ engine = NoList /\ events = <<>>
    /\ conv = NoConv /\ rows = 0
    /\ topics = [k \in Topics |-> "none"] /\ titles = [k \in Topics |-> 0]
    /\ lock = "free"
    /\ tasks = [t \in Tasks |-> Rest]
    /\ synced = FALSE /\ calm = FALSE /\ spoilt = FALSE
    /\ changes = 0 /\ commands = 0
    /\ drops = 0 /\ deletions = 0 /\ faults = 0

Server == Rename \/ Move \/ Post \/ Drop
Engine == FetchList \/ WriteList \/ OnJoined \/ OnRemoved \/ OnUpdated \/ OnMessage
Commands == Sync \/ RenameGroup \/ Leave
Writes == SyncWrites \/ RenameWrites \/ LeaveWrites
Topic(t) == \/ Reconcile(t) \/ Edit(t) \/ SetName(t) \/ Reopen(t) \/ ReopenTopic(t)
            \/ Ensure(t) \/ Lock(t) \/ MakeTopic(t) \/ Create(t) \/ Forward(t)
            \/ Send(t) \/ Recreate(t) \/ MapTopic(t) \/ CloseTopic(t) \/ Close(t)
            \/ Ignored(t) \/ GiveUp(t)

Next == \/ Server \/ Connect \/ Engine \/ TakeEvent \/ Lag \/ Commands \/ Writes \/ Crash
        \/ \E t \in Tasks : Topic(t)
        \/ \E k \in Topics : DeleteTopic(k)

Spec == Init /\ [][Next]_vars

-----------------------------------------------------------------------------
(* Properties *)

Quiet == /\ up /\ frames = <<>> /\ events = <<>> /\ ~engine.is
         /\ \A t \in Tasks : tasks[t].pc = "idle"

\* A group has one conversation, whoever meets the group first and however many do at once:
\* with two of them messages would be forwarded twice and replies go to either.
OneConversation == TypeOK /\ rows <= 1

Live == {k \in Topics : topics[k] \in {"open", "closed"}}

\* A topic that is left over - because its conversation could not be stored, because two tasks
\* replaced a missing one at once, or because the process died - is due to a failed call or to a
\* topic that the user deleted, and either leaves one at most, whatever is sent to the group.
OneTopic == Cardinality(Live) <= 1 + deletions + faults

\* The topic looks as its row says, unless it was spoilt.
Shown(state) == spoilt \/ (topics[conv.topic] = state /\ titles[conv.topic] = conv.name)

\* "Group events are never replayed, so re-fetch the list once per connect": whatever was missed,
\* raced or failed before, one connect repairs the row and the conversation, and the topic too if
\* it was not spoilt: no connect looks at the topic itself.
HealedByConnect ==
    synced /\ Quiet =>
        IF group.in THEN /\ row = Seen(group.name)
                         /\ conv.is /\ ~conv.closed /\ conv.name = group.name
                         /\ Shown("open")
        ELSE ~row.known \/ row.deleted

\* The conversation of a group the user was removed from is closed, and its topic too if it was
\* not spoilt, also when the user deleted the topic and the note about the removal made a new one:
\* unless something was lost or failed since the removal, or a command raced with it.
RemovedIsClosed == calm /\ Quiet /\ conv.is => conv.closed /\ Shown("closed")

\* "A deleted topic is recreated on the next message": when a message has been forwarded, the
\* group's topic exists again, whatever failed before and whatever a handler did to the same topic
\* meanwhile, unless the user deleted another one or topics cannot be created.
MessageRestoresTopic ==
    [][/\ deletions' <= 1 /\ faults' = faults
       /\ tasks["loop"].then = "unlock" /\ tasks'["loop"].pc = "idle"
       => conv'.topic = 0 \/ topics'[conv'.topic] # "gone"]_vars

\* "deletion/removal closes the topic".
GoneIsClosed == Quiet /\ ~group.in /\ conv.is => conv.closed
=============================================================================
