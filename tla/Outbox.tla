------------------------------- MODULE Outbox -------------------------------
(***************************************************************************)
(* The outbox of one account: the `outbox` table of the local SQLite store *)
(* (store/sqlite.rs), the OutboxDispatcher that drains it through          *)
(* POST /v1/groups/{id}/messages (outbox.rs), the sync engine that may     *)
(* confirm a row from the socket's echo at any moment, and the server,     *)
(* idempotent on clientMessageId.                                          *)
(*                                                                         *)
(* Instants are abstracted to what the SQL compares: a nextAttemptAt that  *)
(* is NULL, still ahead ("later") or reached ("due"); an attempt that is   *)
(* recent ("fresh") or older than IN_FLIGHT_STALE ("stale").  The group,   *)
(* the body and the wake-up signal (it only shortens a wait) are left out. *)
(***************************************************************************)
EXTENDS Naturals

CONSTANTS Ids,             \* clientMessageIds; their order is the order of createdAt
          Commands,        \* those whose body is an in-chat command (#add, #help, ...)
          Loops,           \* dispatcher tasks that may be spawned
          NoLoop,          \* no dispatcher task is registered
          MaxUndecodable,  \* MAX_UNDECODABLE_ATTEMPTS, 5 in the code
          MaxRetries,      \* bound: retries asked for by the user
          MaxFaults        \* bound: crashes, stops and store errors

ASSUME IdsAssumption == Ids \subseteq Nat /\ Commands \subseteq Ids
ASSUME LoopsAssumption == NoLoop \notin Loops
ASSUME BoundsAssumption == MaxUndecodable \in Nat /\ MaxRetries \in Nat /\ MaxFaults \in Nat

VARIABLES rows,       \* rows[i]: the outbox row of i
          messages,   \* own messages present in the `messages` table
          loops,      \* loops[d]: the dispatcher task d and the locals of its step()
          task,       \* the registered task (OutboxDispatcher::task)
          stopping,   \* tasks whose stop signal was sent
          wire,       \* requests on their way to the server
          posted,     \* posted[i]: the seq the server gave message i, 0 if it has none
          lastSeq,    \* the group's newest seq
          told,       \* messages whose sender was last told "rejected"
          retries,    \* retries so far, at most MaxRetries
          faults      \* faults so far, at most MaxFaults

server == <<posted, lastSeq, wire>>
bounds == <<retries, faults>>
vars == <<rows, messages, loops, task, stopping, wire, posted, lastSeq, told, retries, faults>>

-----------------------------------------------------------------------------
(* Types *)

Codes == {"json", "reused", "final", "transient"}
Answers == Codes \cup {"none", "stored", "command"}

Row == [state    : {"ABSENT", "PENDING", "IN_FLIGHT", "CONFIRMED", "DELETED"},
        error    : Codes \cup {"null"},
        next     : {"null", "later", "due"},
        last     : {"null", "fresh", "stale"},
        attempts : 0..MaxUndecodable,
        seq      : Nat]

Loop == [pc     : {"off", "ready", "picked", "posting", "answered", "stored"},
         id     : Ids \cup {0},
         tries  : 0..MaxUndecodable,
         answer : Answers]

NoRow == [state |-> "ABSENT", error |-> "null", next |-> "null", last |-> "null",
          attempts |-> 0, seq |-> 0]
Off == [pc |-> "off", id |-> 0, tries |-> 0, answer |-> "none"]
Ready == [Off EXCEPT !.pc = "ready"]

TypeOK == /\ rows \in [Ids -> Row]
          /\ messages \subseteq Ids
          /\ loops \in [Loops -> Loop]
          /\ \A d \in Loops : loops[d].pc \notin {"off", "ready"} => loops[d].id \in Ids
          /\ task \in Loops \cup {NoLoop}
          /\ stopping \subseteq Loops
          /\ wire \subseteq Loops \X Ids
          /\ posted \in [Ids -> Nat]
          /\ lastSeq \in Nat
          /\ told \subseteq Ids
          /\ retries \in 0..MaxRetries
          /\ faults \in 0..MaxFaults

-----------------------------------------------------------------------------
(* The outbox table *)

Present(i) == rows[i].state \notin {"ABSENT", "DELETED"}
Unconfirmed(i) == Present(i) /\ rows[i].state # "CONFIRMED"

\* OutboxEntity::outgoing_state, with the rows that do not exist.
Status(i) ==
    CASE rows[i].state = "ABSENT"    -> "New"
      [] rows[i].state = "DELETED"   -> "Executed"
      [] rows[i].state = "CONFIRMED" -> "Sent"
      [] OTHER -> IF rows[i].error # "null" /\ rows[i].next = "null"
                  THEN "Failed" ELSE "Pending"

\* Mutant of Bump: the attempt is counted when it starts and again when it ends.
BumpTwice(n) == n + 2

\* Only compared with MaxUndecodable, so attemptCount saturates there.
Bump(n) == IF n < MaxUndecodable THEN n + 1 ELSE n

\* Mutant of Dispatchable: a row left in flight is not taken up again.
DispatchablePending(i) ==
    /\ rows[i].state = "PENDING"
    /\ rows[i].next = "due" \/ (rows[i].next = "null" /\ rows[i].error = "null")

\* The WHERE clause of next_dispatchable.
Dispatchable(i) ==
    \/ /\ rows[i].state = "PENDING"
       /\ \/ rows[i].next = "due"
          \/ rows[i].next = "null" /\ rows[i].error = "null"
    \/ /\ rows[i].state = "IN_FLIGHT"
       /\ rows[i].last \in {"null", "stale"}

\* Mutant of UpdateUnconfirmed: no state != 'CONFIRMED'.
UpdatePresent(i, row) ==
    rows' = IF Present(i) THEN [rows EXCEPT ![i] = row] ELSE rows

\* Every UPDATE but confirm_sent's is guarded by state != 'CONFIRMED'.
UpdateUnconfirmed(i, row) ==
    rows' = IF Unconfirmed(i) THEN [rows EXCEPT ![i] = row] ELSE rows

InFlight(i) == [rows[i] EXCEPT !.state = "IN_FLIGHT", !.last = "fresh"]

MarkInFlight(i) == UpdateUnconfirmed(i, InFlight(i))

\* Mutant of MarkRejected: the rejection wins over an earlier confirmation.
MarkRejectedLate(i, code) ==
    UpdatePresent(i, [rows[i] EXCEPT !.state = "PENDING", !.error = code,
                                     !.next = "null", !.attempts = Bump(@)])

MarkRejected(i, code) ==
    UpdateUnconfirmed(i, [rows[i] EXCEPT !.state = "PENDING", !.error = code,
                                         !.next = "null", !.attempts = Bump(@)])

Reschedule(i, code) ==
    UpdateUnconfirmed(i, [rows[i] EXCEPT !.state = "PENDING", !.error = code,
                                         !.next = "later", !.attempts = Bump(@)])

\* Mutant of Confirmed: last_error is not cleared.
ConfirmedWithError(i) == [rows[i] EXCEPT !.state = "CONFIRMED", !.next = "null",
                                         !.seq = posted[i]]

Confirmed(i) == [rows[i] EXCEPT !.state = "CONFIRMED", !.error = "null",
                                !.next = "null", !.seq = posted[i]]

ConfirmSent(i) == rows' = IF Present(i) THEN [rows EXCEPT ![i] = Confirmed(i)] ELSE rows

\* store_incoming_batch of the single message i: an echo only when i is not stored yet.
StoreBatch(i) ==
    /\ messages' = messages \cup {i}
    /\ rows' = IF i \notin messages /\ Unconfirmed(i)
               THEN [rows EXCEPT ![i] = Confirmed(i)] ELSE rows

\* SqliteStore::repair, run on one row when the database is opened.
Repaired(row) ==
    IF row.seq # 0 /\ row.state # "CONFIRMED"
    THEN [row EXCEPT !.state = "CONFIRMED", !.error = "null", !.next = "null"]
    ELSE IF row.state = "PENDING" /\ row.next = "null" /\ row.error \in {"json", "reused"}
         THEN [row EXCEPT !.next = "due"]
         ELSE row

-----------------------------------------------------------------------------
(* Writing a message, and the user's retry *)

Enqueue(i) ==
    /\ rows[i].state = "ABSENT"
    /\ \A j \in Ids : j < i => rows[j].state # "ABSENT"
    /\ rows' = [rows EXCEPT ![i] = [NoRow EXCEPT !.state = "PENDING"]]
    /\ UNCHANGED <<messages, loops, task, stopping, server, told, bounds>>

Retry(i) ==
    /\ retries < MaxRetries
    /\ Present(i)
    /\ UpdateUnconfirmed(i, [rows[i] EXCEPT !.state = "PENDING", !.error = "null",
                                            !.next = "due"])
    /\ told' = told \ {i}
    /\ retries' = retries + 1
    /\ UNCHANGED <<messages, loops, task, stopping, server, faults>>

-----------------------------------------------------------------------------
(* The dispatcher *)

Fault == faults < MaxFaults /\ faults' = faults + 1

Start(d) ==
    /\ task = NoLoop
    /\ loops[d].pc = "off"
    /\ task' = d
    /\ loops' = [loops EXCEPT ![d] = Ready]
    /\ stopping' = stopping \ {d}
    /\ UNCHANGED <<rows, messages, server, told, bounds>>

\* stop() signals the task and waits for it; start() may be called meanwhile.
Stop ==
    /\ task # NoLoop
    /\ Fault
    /\ stopping' = stopping \cup {task}
    /\ task' = NoLoop
    /\ UNCHANGED <<rows, messages, loops, server, told, retries>>

\* The signal is only looked at between two steps.
Exit(d) ==
    /\ loops[d].pc = "ready"
    /\ d \in stopping
    /\ loops' = [loops EXCEPT ![d] = Off]
    /\ UNCHANGED <<rows, messages, task, stopping, server, told, bounds>>

\* step() reads the oldest dispatchable row: its attempt_count is used after the await.
Pick(d) ==
    /\ loops[d].pc = "ready"
    /\ d \notin stopping
    /\ \E i \in Ids :
          /\ Dispatchable(i)
          /\ \A j \in Ids : Dispatchable(j) => i <= j
          /\ loops' = [loops EXCEPT ![d] = [pc |-> "picked", id |-> i,
                                            tries |-> rows[i].attempts, answer |-> "none"]]
    /\ UNCHANGED <<rows, messages, task, stopping, server, told, bounds>>

Send(d) ==
    /\ loops[d].pc = "picked"
    /\ MarkInFlight(loops[d].id)
    /\ wire' = wire \cup {<<d, loops[d].id>>}
    /\ loops' = [loops EXCEPT ![d].pc = "posting"]
    /\ UNCHANGED <<messages, task, stopping, posted, lastSeq, told, bounds>>

Answered(d, a) == loops' = [loops EXCEPT ![d].pc = "answered", ![d].answer = a]
Done(d) == loops' = [loops EXCEPT ![d] = Ready]

\* Connection error or the 30 s request timeout; the request may still arrive.
Timeout(d) ==
    /\ loops[d].pc = "posting"
    /\ Answered(d, "transient")
    /\ UNCHANGED <<rows, messages, task, stopping, server, told, bounds>>

\* Ok(Stored): the reply goes through the reconciler first ...
StoreReply(d) ==
    /\ loops[d].pc = "answered"
    /\ loops[d].answer = "stored"
    /\ StoreBatch(loops[d].id)
    /\ loops' = [loops EXCEPT ![d].pc = "stored"]
    /\ UNCHANGED <<task, stopping, server, told, bounds>>

\* ... then confirm_sent makes sure.
ConfirmReply(d) ==
    /\ loops[d].pc = "stored"
    /\ ConfirmSent(loops[d].id)
    /\ Done(d)
    /\ UNCHANGED <<messages, task, stopping, server, told, bounds>>

\* Ok(Command): the row is deleted.
HandleCommand(d) ==
    /\ loops[d].pc = "answered"
    /\ loops[d].answer = "command"
    /\ rows' = IF Present(loops[d].id)
               THEN [rows EXCEPT ![loops[d].id] = [NoRow EXCEPT !.state = "DELETED"]] ELSE rows
    /\ Done(d)
    /\ UNCHANGED <<messages, task, stopping, server, told, bounds>>

Reject(d) ==
    /\ MarkRejected(loops[d].id, loops[d].answer)
    /\ told' = told \cup {loops[d].id}

\* Err(Json): tried again a bounded number of times, counted by the row read at Pick.
HandleUndecodable(d) ==
    /\ loops[d].pc = "answered"
    /\ loops[d].answer = "json"
    /\ \/ loops[d].tries >= MaxUndecodable /\ Reject(d)
       \/ /\ loops[d].tries < MaxUndecodable
          /\ Reschedule(loops[d].id, "json")
          /\ UNCHANGED told
    /\ Done(d)
    /\ UNCHANGED <<messages, task, stopping, server, bounds>>

\* Mutant of HandleTransient: a request that was sent counts as delivered.
HandleTransientAsSent(d) ==
    /\ loops[d].pc = "answered"
    /\ loops[d].answer = "transient"
    /\ ConfirmSent(loops[d].id)
    /\ Done(d)
    /\ UNCHANGED <<messages, task, stopping, server, told, bounds>>

HandleTransient(d) ==
    /\ loops[d].pc = "answered"
    /\ loops[d].answer = "transient"
    /\ Reschedule(loops[d].id, "transient")
    /\ Done(d)
    /\ UNCHANGED <<messages, task, stopping, server, told, bounds>>

HandlePermanent(d) ==
    /\ loops[d].pc = "answered"
    /\ loops[d].answer \in {"final", "reused"}
    /\ Reject(d)
    /\ Done(d)
    /\ UNCHANGED <<messages, task, stopping, server, bounds>>

\* A store call of step() fails: step() returns the error and the row stays as it is.
StoreError(d) ==
    /\ loops[d].pc \in {"picked", "answered", "stored"}
    /\ Fault
    /\ Done(d)
    /\ UNCHANGED <<rows, messages, task, stopping, server, told, retries>>

-----------------------------------------------------------------------------
(* The server, the socket's echo, time and crashes *)

\* The answer to a request, unless the connection drops it or its sender gave up.
Reply(d, i, a) ==
    \/ /\ loops[d].pc = "posting"
       /\ loops[d].id = i
       /\ Answered(d, a)
    \/ UNCHANGED loops

\* Idempotent on clientMessageId: a repeated post returns the original message.
ServerStore(d, i) ==
    /\ <<d, i>> \in wire
    /\ i \notin Commands
    /\ wire' = wire \ {<<d, i>>}
    /\ \/ posted[i] # 0 /\ UNCHANGED <<posted, lastSeq>>
       \/ /\ posted[i] = 0
          /\ lastSeq' = lastSeq + 1
          /\ posted' = [posted EXCEPT ![i] = lastSeq + 1]
    /\ \E a \in {"stored", "json"} : Reply(d, i, a)
    /\ UNCHANGED <<rows, messages, task, stopping, told, bounds>>

\* An in-chat command is executed and nothing is stored.
ServerCommand(d, i) ==
    /\ <<d, i>> \in wire
    /\ i \in Commands
    /\ wire' = wire \ {<<d, i>>}
    /\ \E a \in {"command", "json"} : Reply(d, i, a)
    /\ UNCHANGED <<rows, messages, task, stopping, posted, lastSeq, told, bounds>>

\* Revoked session, posting not allowed, ...; a 409 only for an id it has already.
ServerRefuse(d, i) ==
    /\ <<d, i>> \in wire
    /\ wire' = wire \ {<<d, i>>}
    /\ \E a \in {"final"} \cup (IF posted[i] # 0 THEN {"reused"} ELSE {}) : Reply(d, i, a)
    /\ UNCHANGED <<rows, messages, task, stopping, posted, lastSeq, told, bounds>>

\* 429, 5xx, or lost on the way.
ServerFails(d, i) ==
    /\ <<d, i>> \in wire
    /\ wire' = wire \ {<<d, i>>}
    /\ Reply(d, i, "transient")
    /\ UNCHANGED <<rows, messages, task, stopping, posted, lastSeq, told, bounds>>

\* The sync engine stores the batch that carries our own message (socket or REST).
Echo(i) ==
    /\ posted[i] # 0
    /\ StoreBatch(i)
    /\ UNCHANGED <<loops, task, stopping, server, told, bounds>>

TimePasses(i) ==
    /\ \/ /\ rows[i].next = "later"
          /\ rows' = [rows EXCEPT ![i].next = "due"]
       \/ /\ rows[i].state = "IN_FLIGHT"
          /\ rows[i].last = "fresh"
          /\ rows' = [rows EXCEPT ![i].last = "stale"]
    /\ UNCHANGED <<messages, loops, task, stopping, server, told, bounds>>

\* The process dies; what is on the wire stays there.  Opening the database repairs it.
Restart ==
    /\ Fault
    /\ loops' = [d \in Loops |-> Off]
    /\ task' = NoLoop
    /\ stopping' = {}
    /\ rows' = [i \in Ids |-> Repaired(rows[i])]
    /\ UNCHANGED <<messages, server, told, retries>>

-----------------------------------------------------------------------------

Init ==
    /\ rows = [i \in Ids |-> NoRow]
    /\ messages = {}
    /\ loops = [d \in Loops |-> Off]
    /\ task = NoLoop
    /\ stopping = {}
    /\ wire = {}
    /\ posted = [i \in Ids |-> 0]
    /\ lastSeq = 0
    /\ told = {}
    /\ retries = 0
    /\ faults = 0

Step(d) == \/ Exit(d) \/ Pick(d) \/ Send(d) \/ StoreReply(d) \/ ConfirmReply(d)
           \/ HandleCommand(d) \/ HandleUndecodable(d)
           \/ HandleTransient(d) \/ HandlePermanent(d)

Server(d, i) == ServerStore(d, i) \/ ServerCommand(d, i) \/ ServerRefuse(d, i) \/ ServerFails(d, i)

Next == \/ \E i \in Ids : Enqueue(i) \/ Retry(i) \/ Echo(i) \/ TimePasses(i)
        \/ \E d \in Loops : Start(d) \/ Step(d) \/ Timeout(d) \/ StoreError(d)
        \/ \E d \in Loops, i \in Ids : Server(d, i)
        \/ Stop
        \/ Restart

Spec == Init /\ [][Next]_vars

\* A post of i is answered for good: stored, executed, refused, or a reply nobody can read.
Settling(d, i) == /\ ServerStore(d, i) \/ ServerCommand(d, i) \/ ServerRefuse(d, i)
                  /\ loops' # loops

(***************************************************************************)
(* The tasks run, timers fire, the service is restarted after a crash, and *)
(* a message posted again and again is answered some day.                  *)
(***************************************************************************)
Fairness == /\ WF_vars(\E d \in Loops : Start(d))
            /\ \A d \in Loops : WF_vars(Step(d)) /\ WF_vars(Timeout(d))
            /\ \A i \in Ids : /\ WF_vars(TimePasses(i))
                              /\ SF_vars(\E d \in Loops : Settling(d, i))

FairSpec == Spec /\ Fairness

-----------------------------------------------------------------------------
(* Properties *)

Out == INSTANCE OutgoingStatus WITH
          status <- [i \in Ids |-> Status(i)],
          inGroup <- {i \in Ids : posted[i] # 0}

\* The outbox shows every sender the life of a message that OutgoingStatus describes:
\* "Sent" only for a message the group holds, never posted twice, "Sent" for good.
ImplementsStatus == Out!Spec

\* A row is CONFIRMED only when the server holds the message, under the row's seq:
\* echo, reply, late replies of an earlier attempt and repair never confirm anything else.
ConfirmedIsPosted ==
    \A i \in Ids : rows[i].state = "CONFIRMED" => posted[i] # 0 /\ rows[i].seq = posted[i]

\* The strengthening that makes ConfirmedIsPosted inductive.  A seq is recorded exactly on
\* the rows that are CONFIRMED, and it is the server's ...
RowsAgree ==
    \A i \in Ids :
        /\ rows[i].seq # 0 => rows[i].state = "CONFIRMED" /\ rows[i].seq = posted[i]
        /\ rows[i].state = "CONFIRMED" =>
              rows[i].seq # 0 /\ rows[i].error = "null" /\ rows[i].next = "null"

\* ... the server only ever sees messages somebody wrote, and stores no command ...
ServerAgrees ==
    /\ \A i \in Ids : posted[i] # 0 => rows[i].state # "ABSENT" /\ i \notin Commands
    /\ \A r \in wire : rows[r[2]].state # "ABSENT"

\* ... and a task acts on an answer the server really gave for the row it has in hand.
LoopsAgree ==
    \A d \in Loops :
        /\ loops[d].pc \notin {"off", "ready"} => rows[loops[d].id].state # "ABSENT"
        /\ loops[d].pc \in {"off", "ready"} => loops[d].answer = "none"
        /\ loops[d].pc = "stored" => loops[d].answer = "stored"
        /\ loops[d].answer = "stored" => posted[loops[d].id] # 0
        /\ loops[d].answer = "command" => loops[d].id \in Commands

\* What the table, the tasks, the wire and the server know of each message agrees at
\* every moment, whatever was lost, delayed, repeated or interrupted.
Bookkeeping == RowsAgree /\ ServerAgrees /\ LoopsAgree

\* A CONFIRMED row never changes again: a late rejection, a reschedule, a stale
\* re-dispatch, the user's retry and a restart all leave it alone
\* (the `state != 'CONFIRMED'` guards; test confirm_wins_over_late_rejection).
ConfirmedIsFinal ==
    [][\A i \in Ids : rows[i].state = "CONFIRMED" => rows'[i] = rows[i]]_vars

\* When the dispatcher reports a message as rejected, its row is failed
\* (OutboxEvent::Rejected: "row stays Failed until retried by the user").
RejectedIsFailed ==
    [][\A i \in told' \ told : Status(i)' = "Failed"]_vars

\* No row is stranded: whatever is pending, in flight or left in flight by a crash or a
\* store error is some day sent, executed or shown as failed.
EveryRowSettles == \A i \in Ids : Status(i) = "Pending" ~> Status(i) \in {"Sent", "Failed", "Executed"}
=============================================================================
