------------------------------- MODULE Members ------------------------------
(***************************************************************************)
(* The members of one Tzibbur group: who they are at the server, the list, *)
(* the count and our own role in the engine's store (sync.rs,              *)
(* store/sqlite.rs), the frames, refreshes and commands that write them    *)
(* side by side, adding by phone number, and the message that waits for    *)
(* the group to be big enough (bridge/mod.rs).  The group stays and so do  *)
(* we (Groups has the rest); the notes sent to the topic are left out.     *)
(***************************************************************************)
EXTENDS Integers, Sequences, FiniteSets

CONSTANTS Others,       \* the other users, each with a phone number
          Me,           \* the user of the account
          First,        \* the others who are members at first
          BadPhones,    \* numbers Tzibbur cannot parse
          MinMembers,   \* minMembersToPost
          MaxChanges,   \* bound: changes made by other admins
          MaxFaults,    \* bound: requests that fail, and times the socket is lost
          MaxCommands   \* bound: commands of the user

People == Others \cup {Me}
Phones == Others \cup BadPhones
Tasks == {"engine", "chat"}

ASSUME PeopleAssumption == Me \notin Others /\ First \subseteq Others /\ BadPhones \cap People = {}
ASSUME FiniteAssumption == IsFiniteSet(Others) /\ IsFiniteSet(BadPhones)
ASSUME BoundsAssumption ==
    MinMembers \in Nat /\ MaxChanges \in Nat /\ MaxFaults \in Nat /\ MaxCommands \in Nat

VARIABLES members,   \* the server: everyone's role, or "none"
          up,        \* the socket is connected
          frames,    \* socket events the engine has not handled
          list, count, myRole,   \* the store: member rows, memberCount and myRole of the group
          tasks,     \* what the event loop and the user's handler are doing
          told,      \* what the report of /add says of each number
          added,     \* MemberAdded events the run loop has not handled
          loop,      \* where the run loop is in retry_too_small
          message,   \* a message of the user
          sure,      \* which of the stored values nothing has been missed of
          heard,     \* no event was lost on the message
          changes, drops, faults, commands

store == <<list, count, myRole>>
retry == <<added, loop, message, heard>>
counters == <<changes, drops, faults, commands>>
vars == <<members, up, frames, list, count, myRole, tasks, told, added, loop, message, sure, heard,
          changes, drops, faults, commands>>

-----------------------------------------------------------------------------

Roles == {"none", "member", "admin"}
Frame == [kind : {"connected", "added", "removed", "role"}, who : People, role : Roles]
Event(kind, who, role) == [kind |-> kind, who |-> who, role |-> role]

Steps == {"idle", "list", "writeList", "refresh", "writeMembers", "removed", "role", "batch", "each"}
Idle == [pc |-> "idle", who |-> Me, seen |-> [p \in People |-> "none"], phones |-> {},
         fresh |-> FALSE, exact |-> FALSE]
Task == [pc : Steps, who : People, seen : [People -> Roles], phones : SUBSET Phones,
         fresh : BOOLEAN, exact : BOOLEAN]

TypeOK ==
    /\ members \in [People -> Roles] /\ up \in BOOLEAN
    /\ \A i \in DOMAIN frames : frames[i] \in Frame
    /\ list \in [People -> Roles] /\ count \in Nat /\ myRole \in Roles \ {"none"}
    /\ tasks \in [Tasks -> Task]
    /\ told \in [Phones -> {"nothing", "added", "already", "refused"}]
    /\ added \in Nat /\ loop \in {"idle", "check", "retry"}
    /\ message \in {"none", "pending", "refused", "failed", "sent"}
    /\ sure \in [list : BOOLEAN, count : BOOLEAN, role : BOOLEAN] /\ heard \in BOOLEAN

In(roles) == {p \in People : roles[p] # "none"}
Size(roles) == Cardinality(In(roles))
Stale(ts) == [t \in Tasks |-> [ts[t] EXCEPT !.fresh = FALSE]]
Unsure == [list |-> FALSE, count |-> FALSE, role |-> FALSE]

\* A request fails.
Fault == drops + faults < MaxFaults /\ faults' = faults + 1

-----------------------------------------------------------------------------
(* The server *)

\* Everyone is told over the socket; what happens while it is down is missed.
Tell(fs, ts) ==
    IF up THEN frames' = frames \o fs /\ tasks' = ts /\ UNCHANGED <<sure, heard>>
    ELSE tasks' = Stale(ts) /\ sure' = Unsure /\ heard' = FALSE /\ UNCHANGED frames

\* Somebody is added; the frame may carry the member's details.
Enters(u, ts) ==
    /\ members[u] = "none"
    /\ members' = [members EXCEPT ![u] = "member"]
    /\ \E details \in {"none", "member"} : Tell(<<Event("added", u, details)>>, ts)

Leaves(u, ts) ==
    /\ members[u] # "none" /\ u # Me
    /\ members' = [members EXCEPT ![u] = "none"]
    /\ Tell(<<Event("removed", u, "none")>>, ts)

\* The last admin cannot be demoted.
Becomes(u, r, ts) ==
    /\ members[u] \notin {"none", r}
    /\ members' = [members EXCEPT ![u] = r]
    /\ \E p \in People : members'[p] = "admin"
    /\ Tell(<<Event("role", u, r)>>, ts)

\* Another admin does it.
Change ==
    /\ changes < MaxChanges
    /\ changes' = changes + 1
    /\ \E u \in People : \/ Enters(u, tasks) \/ Leaves(u, tasks)
                         \/ \E r \in Roles \ {"none"} : Becomes(u, r, tasks)
    /\ UNCHANGED <<up, store, told, added, loop, message, drops, faults, commands>>

\* What the server sent and the socket has not read is lost.
Drop ==
    /\ up
    /\ drops + faults < MaxFaults
    /\ drops' = drops + 1
    /\ up' = FALSE
    /\ \E n \in 0..Len(frames) :
          /\ \A i \in n + 1..Len(frames) : frames[i].kind # "connected"
          /\ frames' = SubSeq(frames, 1, n)
    /\ sure' = Unsure /\ heard' = FALSE /\ tasks' = Stale(tasks)
    /\ UNCHANGED <<members, store, told, added, loop, message, changes, faults, commands>>

Connect ==
    /\ ~up
    /\ up' = TRUE
    /\ frames' = Append(frames, Event("connected", Me, "none"))
    /\ UNCHANGED <<members, store, tasks, told, retry, sure, counters>>

-----------------------------------------------------------------------------
(* The engine's event loop *)

Counted(f) == f.kind \in {"added", "removed"}

Handle(kind, ts) ==
    /\ tasks["engine"].pc = "idle"
    /\ frames # <<>> /\ Head(frames).kind = kind
    /\ frames' = Tail(frames)
    /\ tasks' = [Stale(tasks) EXCEPT !["engine"] = ts]

OnConnected ==
    /\ Handle("connected", [Idle EXCEPT !.pc = "list"])
    /\ UNCHANGED <<members, up, store, told, retry, sure, counters>>

\* MemberAdded: the row if the frame has it, the count, then the list is refreshed.
OnAdded ==
    /\ Handle("added", [Idle EXCEPT !.pc = "refresh", !.who = Head(frames).who])
    /\ list' = [list EXCEPT ![Head(frames).who] = IF Head(frames).role = "none" THEN @ ELSE Head(frames).role]
    /\ count' = count + 1
    /\ UNCHANGED <<members, up, myRole, told, retry, sure, counters>>

Less(n) == IF n = 0 THEN 0 ELSE n - 1

\* MemberRemoved: delete_member, and the count.
OnRemoved ==
    /\ Handle("removed", Idle)
    /\ list' = [list EXCEPT ![Head(frames).who] = "none"]
    /\ count' = Less(count)
    /\ UNCHANGED <<members, up, myRole, told, retry, sure, counters>>

\* set_role changes a row that is there.
WithRole(who, role) == [list EXCEPT ![who] = IF @ = "none" THEN @ ELSE role]

\* RoleChanged.
OnRole ==
    /\ Handle("role", Idle)
    /\ list' = WithRole(Head(frames).who, Head(frames).role)
    /\ myRole' = IF Head(frames).who = Me THEN Head(frames).role ELSE myRole
    /\ UNCHANGED <<members, up, count, told, retry, sure, counters>>

-----------------------------------------------------------------------------
(* What the event loop and a handler both do *)

\* A refresh in the event loop ends with MemberAdded.
Ended(t) == added' = IF t = "engine" /\ tasks[t].pc \in {"refresh", "writeMembers"} THEN added + 1 ELSE added

\* Nothing was lost behind the frames that are still unread.
Caught == up /\ ~\E i \in DOMAIN frames : frames[i].kind = "connected"

\* The answer is made at the server ...
Fetch(t, from, to) ==
    /\ tasks[t].pc = from
    /\ tasks' = [tasks EXCEPT ![t] = [@ EXCEPT !.pc = to, !.seen = members, !.fresh = Caught,
                                      !.exact = ~\E i \in DOMAIN frames : Counted(frames[i])]]
    /\ UNCHANGED <<members, up, frames, store, told, retry, sure, counters>>

\* ... or the request fails: the event loop goes on without,
Refused(t, from) ==
    /\ tasks[t].pc = from
    /\ Fault
    /\ tasks' = [tasks EXCEPT ![t] = Idle]
    /\ Ended(t)
    /\ sure' = [sure EXCEPT !.list = @ /\ t # "engine"]
    /\ UNCHANGED <<members, up, frames, store, told, loop, message, heard, changes, drops, commands>>

\* ... or it is written here: upsert_group has our role and the count,
WriteGroup(t) ==
    /\ tasks[t].pc = "writeList"
    /\ count' = Size(tasks[t].seen)
    /\ myRole' = tasks[t].seen[Me]
    /\ sure' = [sure EXCEPT !.role = tasks[t].fresh, !.count = tasks[t].fresh /\ tasks[t].exact]
    /\ tasks' = [tasks EXCEPT ![t] = Idle]
    /\ UNCHANGED <<members, up, frames, list, told, retry, counters>>

\* Mutant of Replaced: the rows of those who are gone stay.
ReplacedUpserts(seen) == [p \in People |-> IF seen[p] = "none" THEN list[p] ELSE seen[p]]

Replaced(seen) == seen

Recounted(seen) == Size(seen)

\* replace_members the list and the count.
WriteMembers(t) ==
    /\ tasks[t].pc = "writeMembers"
    /\ list' = Replaced(tasks[t].seen)
    /\ count' = Recounted(tasks[t].seen)
    /\ sure' = [sure EXCEPT !.list = tasks[t].fresh, !.count = tasks[t].fresh /\ tasks[t].exact]
    /\ tasks' = [tasks EXCEPT ![t] = Idle]
    /\ Ended(t)
    /\ UNCHANGED <<members, up, frames, myRole, told, loop, message, heard, counters>>

-----------------------------------------------------------------------------
(* The user's commands *)

Command ==
    /\ tasks["chat"].pc = "idle"
    /\ commands < MaxCommands
    /\ commands' = commands + 1

Chat(task) == [tasks EXCEPT !["chat"] = task]

\* members_view, /members and require_admin refresh the members, the card asks for the group.
Look ==
    /\ Command
    /\ \E pc \in {"refresh", "list"} : tasks' = Chat([Idle EXCEPT !.pc = pc])
    /\ UNCHANGED <<members, up, frames, store, told, retry, sure, changes, drops, faults>>

\* remove_member: the server, for an admin, ...
Remove(u) ==
    /\ Command
    /\ members[Me] = "admin"
    /\ Leaves(u, Chat([Idle EXCEPT !.pc = "removed", !.who = u, !.fresh = TRUE]))
    /\ UNCHANGED <<up, store, told, added, loop, message, changes, drops, faults>>

\* ... then the row and the count, which the frame counts as well, and the view refreshes.
RemoveWrites ==
    /\ tasks["chat"].pc = "removed"
    /\ list' = [list EXCEPT ![tasks["chat"].who] = "none"]
    /\ count' = Less(count)
    /\ sure' = [sure EXCEPT !.count = FALSE, !.list = @ /\ tasks["chat"].fresh]
    /\ tasks' = Chat([Idle EXCEPT !.pc = "refresh"])
    /\ UNCHANGED <<members, up, frames, myRole, told, retry, counters>>

\* set_member_role: the server ...
SetRole(u, r) ==
    /\ Command
    /\ members[Me] = "admin" /\ u # Me
    /\ Becomes(u, r, Chat([Idle EXCEPT !.pc = "role", !.who = u, !.fresh = TRUE,
                                       !.seen = [members EXCEPT ![u] = r]]))
    /\ UNCHANGED <<up, store, told, added, loop, message, changes, drops, faults>>

\* ... then the row, and the view refreshes.
RoleWrites ==
    /\ tasks["chat"].pc = "role"
    /\ list' = WithRole(tasks["chat"].who, tasks["chat"].seen[tasks["chat"].who])
    /\ sure' = [sure EXCEPT !.list = @ /\ tasks["chat"].fresh]
    /\ tasks' = Chat([Idle EXCEPT !.pc = "refresh"])
    /\ UNCHANGED <<members, up, frames, count, myRole, told, retry, counters>>

\* /add and on_add_phones.
Add(phones) ==
    /\ Command
    /\ phones # {}
    /\ tasks' = Chat([Idle EXCEPT !.pc = "batch", !.phones = phones])
    /\ told' = [p \in Phones |-> "nothing"]
    /\ UNCHANGED <<members, up, frames, store, retry, sure, changes, drops, faults>>

\* The server adds these numbers and says which are members already.
AddAll(phones, ts) ==
    LET new == {p \in phones : members[p] = "none"}
    IN  /\ members' = [p \in People |-> IF p \in new THEN "member" ELSE members[p]]
        /\ told' = [p \in Phones |-> IF p \in new THEN "added"
                                     ELSE IF p \in phones THEN "already" ELSE told[p]]
        /\ \E fs \in {s \in [1..Cardinality(new) -> {Event("added", p, "none") : p \in new}] :
                          {s[i].who : i \in DOMAIN s} = new} : Tell(fs, ts)

\* The requests that were refused are told to the user.
Refuse(phones, ts) ==
    /\ told' = [p \in Phones |-> IF p \in phones THEN "refused" ELSE told[p]]
    /\ tasks' = ts
    /\ UNCHANGED <<members, frames, sure, heard>>

AddOutside == <<up, store, added, loop, message, changes, drops, commands>>

\* Mutant of Batch: one bad number sinks the batch.
BatchSinks ==
    LET chat == tasks["chat"]
        done == Chat([chat EXCEPT !.pc = "refresh", !.phones = {}])
    IN  /\ chat.pc = "batch"
        /\ \/ chat.phones \cap BadPhones = {} /\ AddAll(chat.phones, done) /\ UNCHANGED faults
           \/ chat.phones \cap BadPhones # {} /\ Refuse(chat.phones, done) /\ UNCHANGED faults
           \/ Fault /\ Refuse(chat.phones, done)
        /\ UNCHANGED AddOutside

\* add_members_carefully asks for all at once; a number that is no number refuses them all ...
Batch ==
    LET chat == tasks["chat"]
        done == Chat([chat EXCEPT !.pc = "refresh", !.phones = {}])
    IN  /\ chat.pc = "batch"
        /\ \/ chat.phones \cap BadPhones = {} /\ AddAll(chat.phones, done) /\ UNCHANGED faults
           \/ /\ chat.phones \cap BadPhones # {}
              /\ IF Cardinality(chat.phones) > 1 THEN Refuse({}, Chat([chat EXCEPT !.pc = "each"]))
                 ELSE Refuse(chat.phones, done)
              /\ UNCHANGED faults
           \/ Fault /\ Refuse(chat.phones, done)
        /\ UNCHANGED AddOutside

\* ... and then they are asked for one by one.
Each(p) ==
    LET chat == tasks["chat"]
        next == Chat(IF chat.phones = {p} THEN [chat EXCEPT !.pc = "refresh", !.phones = {}]
                     ELSE [chat EXCEPT !.phones = @ \ {p}])
    IN  /\ chat.pc = "each" /\ p \in chat.phones
        /\ \/ p \notin BadPhones /\ AddAll({p}, next) /\ UNCHANGED faults
           \/ p \in BadPhones /\ Refuse({p}, next) /\ UNCHANGED faults
           \/ Fault /\ Refuse({p}, next)
        /\ UNCHANGED AddOutside

-----------------------------------------------------------------------------
(* The message that needs MinMembers *)

Write ==
    /\ message = "none"
    /\ message' = "pending"
    /\ UNCHANGED <<members, up, frames, store, tasks, told, added, loop, sure, heard, counters>>

\* The server takes it, or answers group-too-small ...
Post ==
    /\ message = "pending"
    /\ message' = IF Size(members) < MinMembers THEN "refused" ELSE "sent"
    /\ UNCHANGED <<members, up, frames, store, tasks, told, added, loop, sure, heard, counters>>

\* ... and the answer arrives.
Fail ==
    /\ message = "refused"
    /\ message' = "failed"
    /\ UNCHANGED <<members, up, frames, store, tasks, told, added, loop, sure, heard, counters>>

\* The run loop takes MemberAdded: a message whose answer is under way is not failed yet.
TakeAdded ==
    /\ loop = "idle" /\ added > 0
    /\ added' = added - 1
    /\ loop' = IF message = "failed" THEN "check" ELSE "idle"
    /\ heard' = (heard /\ message # "refused")
    /\ UNCHANGED <<members, up, frames, store, tasks, told, message, sure, counters>>

\* Mutant of BigEnough: one too many.
BigEnoughOneMore == Size(members) > MinMembers

BigEnough == Size(members) >= MinMembers

\* retry_too_small asks for the group ...
Check ==
    /\ loop = "check"
    /\ \/ loop' = (IF BigEnough THEN "retry" ELSE "idle") /\ UNCHANGED <<faults, heard>>
       \/ Fault /\ loop' = "idle" /\ heard' = FALSE
    /\ UNCHANGED <<members, up, frames, store, tasks, told, added, message, sure, changes, drops, commands>>

\* ... and puts the message back.
Retry ==
    /\ loop = "retry"
    /\ loop' = "idle"
    /\ message' = IF message = "failed" THEN "pending" ELSE message
    /\ heard' = TRUE
    /\ UNCHANGED <<members, up, frames, store, tasks, told, added, sure, counters>>

-----------------------------------------------------------------------------

Init ==
    /\ members = [p \in People |-> IF p = Me THEN "admin" ELSE IF p \in First THEN "member" ELSE "none"]
    /\ up = TRUE /\ frames = <<>>
    /\ list = [p \in People |-> "none"] /\ count = Size(members) /\ myRole = "admin"
    /\ tasks = [t \in Tasks |-> Idle]
    /\ told = [p \in Phones |-> "nothing"]
    /\ added = 0 /\ loop = "idle" /\ message = "none"
    /\ sure = [list |-> FALSE, count |-> TRUE, role |-> TRUE] /\ heard = TRUE
    /\ changes = 0 /\ drops = 0 /\ faults = 0 /\ commands = 0

Frames == OnConnected \/ OnAdded \/ OnRemoved \/ OnRole
Requests(t) == \/ Fetch(t, "list", "writeList") \/ Fetch(t, "refresh", "writeMembers")
               \/ Refused(t, "list") \/ Refused(t, "refresh")
               \/ WriteGroup(t) \/ WriteMembers(t)
Commands == \/ Look \/ RemoveWrites \/ RoleWrites \/ Batch
            \/ \E u \in People : Remove(u) \/ \E r \in Roles \ {"none"} : SetRole(u, r)
            \/ \E phones \in SUBSET Phones : Add(phones)
            \/ \E p \in Phones : Each(p)
Message == Write \/ Post \/ Fail \/ TakeAdded \/ Check \/ Retry

Next == Change \/ Drop \/ Connect \/ Frames \/ Commands \/ Message \/ \E t \in Tasks : Requests(t)

Spec == Init /\ [][Next]_vars

-----------------------------------------------------------------------------
(* Properties *)

Quiet == up /\ frames = <<>> /\ \A t \in Tasks : tasks[t].pc = "idle"

\* Frames that are older than a refresh are applied to it again, and may even take out somebody
\* who is back in; once everything is handled the stored members are the server's all the same.
\* So is our own role, which require_admin and the buttons of the card ask: it follows the frames
\* and the connects.  The count is moved by frames and replaced by lists, and a list that was
\* taken with no frame unread sets it right for good.
MembersConverge ==
    /\ TypeOK
    /\ Quiet /\ sure.list => list = members
    /\ Quiet /\ sure.role => myRole = members[Me]
    /\ Quiet /\ sure.count => count = Size(members)

\* "Add members with /add and this message will be sent automatically": no message refused as
\* group-too-small is left behind in a group that is big enough, except by an event that was
\* lost or was handled before the refusal arrived.
TooSmallIsRetried ==
    heard /\ Quiet /\ added = 0 /\ loop = "idle" /\ message = "failed" => Size(members) < MinMembers

\* "One bad number must not sink the batch": when the report is made every number is in it, and
\* the refused ones are those Tzibbur cannot parse.
GoodNumbersAreAdded ==
    [][/\ faults' = 0
       /\ tasks["chat"].phones # {} /\ tasks'["chat"].phones = {}
       => /\ \A p \in Others : told'[p] # "refused"
          /\ \A p \in tasks["chat"].phones : told'[p] # "nothing"]_vars
=============================================================================
