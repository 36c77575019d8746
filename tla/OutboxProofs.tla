---------------------------- MODULE OutboxProofs ----------------------------
(***************************************************************************)
(* Theorems about Outbox, for any set of messages, any number of           *)
(* dispatcher tasks and any bounds.                                        *)
(***************************************************************************)
EXTENDS Outbox, TLAPS

-----------------------------------------------------------------------------
(* Type correctness *)

\* Every UPDATE of the outbox table yields a well-formed row.
LEMMA RowUpdates ==
    ASSUME NEW r \in Row, NEW c \in Codes, NEW s \in Nat
    PROVE  /\ [r EXCEPT !.state = "IN_FLIGHT", !.last = "fresh"] \in Row
           /\ [r EXCEPT !.state = "PENDING", !.error = c,
                        !.next = "null", !.attempts = Bump(@)] \in Row
           /\ [r EXCEPT !.state = "PENDING", !.error = c,
                        !.next = "later", !.attempts = Bump(@)] \in Row
           /\ [r EXCEPT !.state = "PENDING", !.error = "null", !.next = "due"] \in Row
           /\ [r EXCEPT !.state = "CONFIRMED", !.error = "null",
                        !.next = "null", !.seq = s] \in Row
           /\ [r EXCEPT !.next = "due"] \in Row
           /\ [r EXCEPT !.last = "stale"] \in Row
           /\ Repaired(r) \in Row
<1>1. Bump(r.attempts) \in 0..MaxUndecodable
  <2>1. r.attempts \in 0..MaxUndecodable
      BY DEF Row
  <2> QED BY <2>1, BoundsAssumption DEF Bump
<1>2. [r EXCEPT !.state = "IN_FLIGHT", !.last = "fresh"] \in Row
    BY DEF Row
<1>3. [r EXCEPT !.state = "PENDING", !.error = c,
                !.next = "null", !.attempts = Bump(@)] \in Row
    BY <1>1 DEF Row
<1>4. [r EXCEPT !.state = "PENDING", !.error = c,
                !.next = "later", !.attempts = Bump(@)] \in Row
    BY <1>1 DEF Row
<1>5. [r EXCEPT !.state = "PENDING", !.error = "null", !.next = "due"] \in Row
    BY DEF Row
<1>6. [r EXCEPT !.state = "CONFIRMED", !.error = "null", !.next = "null", !.seq = s] \in Row
    BY DEF Row
<1>7. [r EXCEPT !.next = "due"] \in Row /\ [r EXCEPT !.last = "stale"] \in Row
    BY DEF Row
<1>8. Repaired(r) \in Row
    BY DEF Row, Repaired
<1> QED BY <1>2, <1>3, <1>4, <1>5, <1>6, <1>7, <1>8

LEMMA NewRows ==
    /\ NoRow \in Row
    /\ [NoRow EXCEPT !.state = "PENDING"] \in Row
    /\ [NoRow EXCEPT !.state = "DELETED"] \in Row
  BY BoundsAssumption DEF Row, NoRow

\* A guarded UPDATE keeps the table well formed.
LEMMA UpdateKeepsType ==
    ASSUME TypeOK, NEW i \in Ids, NEW r \in Row, UpdateUnconfirmed(i, r)
    PROVE  rows' \in [Ids -> Row]
  BY DEF TypeOK, UpdateUnconfirmed

RowsTyped == rows \in [Ids -> Row]
LoopsTyped == /\ loops \in [Loops -> Loop]
              /\ \A d \in Loops : loops[d].pc \notin {"off", "ready"} => loops[d].id \in Ids

\* Between two steps a task has no row in hand.
LEMMA IdleLoops ==
    ASSUME TypeOK, NEW d \in Loops, NEW l \in {Off, Ready}, loops' = [loops EXCEPT ![d] = l]
    PROVE  LoopsTyped'
<1>1. Off \in Loop /\ Ready \in Loop
    BY BoundsAssumption DEF Loop, Off, Ready, Answers
<1> QED BY <1>1 DEF TypeOK, LoopsTyped, Off, Ready

LEMMA AnsweredLoops ==
    ASSUME TypeOK, NEW d \in Loops, NEW a \in Answers, loops[d].pc = "posting", Answered(d, a)
    PROVE  LoopsTyped'
<1>1. loops[d] \in Loop
    BY DEF TypeOK
<1>2. [loops[d] EXCEPT !.pc = "answered", !.answer = a] \in Loop
    BY <1>1 DEF Loop
<1>3. loops' = [loops EXCEPT ![d] = [loops[d] EXCEPT !.pc = "answered", !.answer = a]]
    BY DEF Answered, TypeOK
<1>4. loops[d].id \in Ids /\ loops'[d].id = loops[d].id
    BY <1>1, <1>3 DEF TypeOK, Loop
<1>5. \A e \in Loops \ {d} : loops'[e] = loops[e]
    BY <1>3 DEF TypeOK
<1>6. loops' \in [Loops -> Loop]
    BY <1>2, <1>3 DEF TypeOK
<1> QED BY <1>4, <1>5, <1>6 DEF TypeOK, LoopsTyped

LEMMA ReplyLoops ==
    ASSUME TypeOK, NEW d \in Loops, NEW i \in Ids, NEW a \in Answers, Reply(d, i, a)
    PROVE  LoopsTyped'
<1>1. CASE UNCHANGED loops
    BY <1>1 DEF TypeOK, LoopsTyped
<1>2. CASE loops[d].pc = "posting" /\ Answered(d, a)
    BY <1>2, AnsweredLoops
<1> QED BY <1>1, <1>2 DEF Reply

\* A step of a task that keeps its row in hand.
LEMMA MovedLoops ==
    ASSUME TypeOK, NEW d \in Loops, NEW p \in {"posting", "stored"},
           loops[d].pc \notin {"off", "ready"}, loops' = [loops EXCEPT ![d].pc = p]
    PROVE  LoopsTyped'
<1>1. loops[d] \in Loop /\ loops[d].id \in Ids
    BY DEF TypeOK
<1>2. [loops[d] EXCEPT !.pc = p] \in Loop
    BY <1>1 DEF Loop
<1>3. loops' = [loops EXCEPT ![d] = [loops[d] EXCEPT !.pc = p]]
    OBVIOUS
<1>4. loops'[d].id = loops[d].id
    BY <1>1, <1>3 DEF TypeOK, Loop
<1>5. \A e \in Loops \ {d} : loops'[e] = loops[e]
    BY <1>3 DEF TypeOK
<1>6. loops' \in [Loops -> Loop]
    BY <1>2, <1>3 DEF TypeOK
<1> QED BY <1>1, <1>4, <1>5, <1>6 DEF TypeOK, LoopsTyped

LEMMA TypeInit == Init => TypeOK
<1> SUFFICES ASSUME Init PROVE TypeOK
    OBVIOUS
<1>1. NoRow \in Row
    BY NewRows
<1>2. Off \in Loop /\ Off.pc = "off"
    BY BoundsAssumption DEF Loop, Off, Answers
<1>3. rows \in [Ids -> Row] /\ loops \in [Loops -> Loop]
    BY <1>1, <1>2 DEF Init
<1> QED BY <1>2, <1>3, BoundsAssumption DEF Init, TypeOK

\* The parts of TypeOK other than the table and the tasks.
RestTyped == /\ messages \subseteq Ids
             /\ task \in Loops \cup {NoLoop}
             /\ stopping \subseteq Loops
             /\ wire \subseteq Loops \X Ids
             /\ posted \in [Ids -> Nat]
             /\ lastSeq \in Nat
             /\ told \subseteq Ids
             /\ retries \in 0..MaxRetries
             /\ faults \in 0..MaxFaults

LEMMA TypeParts == TypeOK <=> RowsTyped /\ LoopsTyped /\ RestTyped
  BY DEF TypeOK, RowsTyped, LoopsTyped, RestTyped

LEMMA TypeStep == TypeOK /\ [Next]_vars => TypeOK'
<1> SUFFICES ASSUME TypeOK, [Next]_vars
             PROVE  RowsTyped' /\ LoopsTyped' /\ RestTyped'
    BY TypeParts DEF TypeOK, RowsTyped, LoopsTyped, RestTyped
<1> USE DEF bounds, server
<1>1. ASSUME NEW i \in Ids, Enqueue(i) PROVE RowsTyped' /\ LoopsTyped' /\ RestTyped'
  <2>1. RowsTyped'
      BY <1>1, NewRows DEF TypeOK, RowsTyped, Enqueue
  <2>2. LoopsTyped'
      BY <1>1 DEF TypeOK, LoopsTyped, Enqueue
  <2>3. RestTyped'
      BY <1>1 DEF TypeOK, RestTyped, Enqueue
  <2> QED BY <2>1, <2>2, <2>3
<1>2. ASSUME NEW i \in Ids, Retry(i) PROVE RowsTyped' /\ LoopsTyped' /\ RestTyped'
  <2>1. RowsTyped'
    <3>1. rows[i] \in Row /\ "json" \in Codes /\ 0 \in Nat
        BY DEF TypeOK, Codes
    <3>2. [rows[i] EXCEPT !.state = "PENDING", !.error = "null", !.next = "due"] \in Row
        BY <3>1, RowUpdates
    <3> QED BY <1>2, <3>2, UpdateKeepsType DEF RowsTyped, Retry
  <2>2. LoopsTyped'
      BY <1>2 DEF TypeOK, LoopsTyped, Retry
  <2>3. RestTyped'
      BY <1>2, BoundsAssumption DEF TypeOK, RestTyped, Retry 
  <2> QED BY <2>1, <2>2, <2>3
<1>3. ASSUME NEW i \in Ids, Echo(i) PROVE RowsTyped' /\ LoopsTyped' /\ RestTyped'
  <2>1. RowsTyped'
    <3>1. Confirmed(i) \in Row
        BY RowUpdates DEF TypeOK, Confirmed, Codes
    <3> QED BY <1>3, <3>1 DEF TypeOK, RowsTyped, Echo, StoreBatch
  <2>2. LoopsTyped'
      BY <1>3 DEF TypeOK, LoopsTyped, Echo
  <2>3. RestTyped'
      BY <1>3 DEF TypeOK, RestTyped, Echo, StoreBatch
  <2> QED BY <2>1, <2>2, <2>3
<1>4. ASSUME NEW i \in Ids, TimePasses(i) PROVE RowsTyped' /\ LoopsTyped' /\ RestTyped'
  <2>1. RowsTyped'
    <3>1. [rows[i] EXCEPT !.next = "due"] \in Row /\ [rows[i] EXCEPT !.last = "stale"] \in Row
        BY RowUpdates DEF TypeOK, Codes
    <3> QED BY <1>4, <3>1 DEF TypeOK, RowsTyped, TimePasses
  <2>2. LoopsTyped'
      BY <1>4 DEF TypeOK, LoopsTyped, TimePasses
  <2>3. RestTyped'
      BY <1>4 DEF TypeOK, RestTyped, TimePasses
  <2> QED BY <2>1, <2>2, <2>3
<1>5. ASSUME NEW d \in Loops, Start(d) PROVE RowsTyped' /\ LoopsTyped' /\ RestTyped'
  <2>1. RowsTyped'
      BY <1>5 DEF TypeOK, RowsTyped, Start
  <2>2. LoopsTyped'
      BY <1>5, IdleLoops DEF Start
  <2>3. RestTyped'
      BY <1>5 DEF TypeOK, RestTyped, Start
  <2> QED BY <2>1, <2>2, <2>3
<1>6. ASSUME NEW d \in Loops, Exit(d) PROVE RowsTyped' /\ LoopsTyped' /\ RestTyped'
  <2>1. RowsTyped'
      BY <1>6 DEF TypeOK, RowsTyped, Exit
  <2>2. LoopsTyped'
      BY <1>6, IdleLoops DEF Exit
  <2>3. RestTyped'
      BY <1>6 DEF TypeOK, RestTyped, Exit
  <2> QED BY <2>1, <2>2, <2>3
<1>7. ASSUME NEW d \in Loops, Pick(d) PROVE RowsTyped' /\ LoopsTyped' /\ RestTyped'
  <2>1. RowsTyped'
      BY <1>7 DEF TypeOK, RowsTyped, Pick
  <2>2. LoopsTyped'
    <3>1. PICK i \in Ids : loops' = [loops EXCEPT ![d] = [pc |-> "picked", id |-> i,
                                          tries |-> rows[i].attempts, answer |-> "none"]]
        BY <1>7 DEF Pick
    <3>2. rows[i].attempts \in 0..MaxUndecodable
        BY DEF TypeOK, Row
    <3>3. [pc |-> "picked", id |-> i, tries |-> rows[i].attempts, answer |-> "none"] \in Loop
        BY <3>2 DEF Loop, Answers
    <3> QED BY <3>1, <3>3 DEF TypeOK, LoopsTyped
  <2>3. RestTyped'
      BY <1>7 DEF TypeOK, RestTyped, Pick
  <2> QED BY <2>1, <2>2, <2>3
<1>8. ASSUME NEW d \in Loops, Send(d) PROVE RowsTyped' /\ LoopsTyped' /\ RestTyped'
  <2>1. RowsTyped'
    <3>1. loops[d].id \in Ids /\ InFlight(loops[d].id) \in Row
        BY <1>8, RowUpdates DEF TypeOK, Send, InFlight, Codes
    <3> QED BY <1>8, <3>1, UpdateKeepsType DEF RowsTyped, Send, MarkInFlight
  <2>2. LoopsTyped'
      BY <1>8, MovedLoops DEF Send
  <2>3. RestTyped'
      BY <1>8 DEF TypeOK, RestTyped, Send
  <2> QED BY <2>1, <2>2, <2>3
<1>9. ASSUME NEW d \in Loops, Timeout(d) PROVE RowsTyped' /\ LoopsTyped' /\ RestTyped'
  <2>1. RowsTyped'
      BY <1>9 DEF TypeOK, RowsTyped, Timeout
  <2>2. LoopsTyped'
      BY <1>9, AnsweredLoops DEF Timeout, Answers, Codes
  <2>3. RestTyped'
      BY <1>9 DEF TypeOK, RestTyped, Timeout
  <2> QED BY <2>1, <2>2, <2>3
<1>10. ASSUME NEW d \in Loops, StoreReply(d) PROVE RowsTyped' /\ LoopsTyped' /\ RestTyped'
  <2>1. RowsTyped'
    <3>1. loops[d].id \in Ids /\ Confirmed(loops[d].id) \in Row
        BY <1>10, RowUpdates DEF TypeOK, StoreReply, Confirmed, Codes
    <3> QED BY <1>10, <3>1 DEF TypeOK, RowsTyped, StoreReply, StoreBatch
  <2>2. LoopsTyped'
      BY <1>10, MovedLoops DEF StoreReply
  <2>3. RestTyped'
      BY <1>10 DEF TypeOK, RestTyped, StoreReply, StoreBatch
  <2> QED BY <2>1, <2>2, <2>3
<1>11. ASSUME NEW d \in Loops, ConfirmReply(d) PROVE RowsTyped' /\ LoopsTyped' /\ RestTyped'
  <2>1. RowsTyped'
    <3>1. loops[d].id \in Ids /\ Confirmed(loops[d].id) \in Row
        BY <1>11, RowUpdates DEF TypeOK, ConfirmReply, Confirmed, Codes
    <3> QED BY <1>11, <3>1 DEF TypeOK, RowsTyped, ConfirmReply, ConfirmSent
  <2>2. LoopsTyped'
      BY <1>11, IdleLoops DEF ConfirmReply, Done
  <2>3. RestTyped'
      BY <1>11 DEF TypeOK, RestTyped, ConfirmReply
  <2> QED BY <2>1, <2>2, <2>3
<1>12. ASSUME NEW d \in Loops, HandleCommand(d) PROVE RowsTyped' /\ LoopsTyped' /\ RestTyped'
  <2>1. RowsTyped'
      BY <1>12, NewRows DEF TypeOK, RowsTyped, HandleCommand
  <2>2. LoopsTyped'
      BY <1>12, IdleLoops DEF HandleCommand, Done
  <2>3. RestTyped'
      BY <1>12 DEF TypeOK, RestTyped, HandleCommand
  <2> QED BY <2>1, <2>2, <2>3
<1>13. ASSUME NEW d \in Loops, HandleUndecodable(d) PROVE RowsTyped' /\ LoopsTyped' /\ RestTyped'
  <2>1. RowsTyped'
    <3> DEFINE i == loops[d].id
               c == loops[d].answer
    <3>1. i \in Ids /\ rows[i] \in Row /\ c \in Codes
        BY <1>13 DEF TypeOK, HandleUndecodable, Codes
    <3>2. /\ [rows[i] EXCEPT !.state = "PENDING", !.error = c,
                             !.next = "null", !.attempts = Bump(@)] \in Row
          /\ [rows[i] EXCEPT !.state = "PENDING", !.error = c,
                             !.next = "later", !.attempts = Bump(@)] \in Row
        BY <3>1, RowUpdates
    <3> QED BY <1>13, <3>1, <3>2, UpdateKeepsType DEF RowsTyped, HandleUndecodable, Reject, MarkRejected, Reschedule
  <2>2. LoopsTyped'
      BY <1>13, IdleLoops DEF HandleUndecodable, Done
  <2>3. RestTyped'
      BY <1>13 DEF TypeOK, RestTyped, HandleUndecodable, Reject
  <2> QED BY <2>1, <2>2, <2>3
<1>14. ASSUME NEW d \in Loops, HandleTransient(d) PROVE RowsTyped' /\ LoopsTyped' /\ RestTyped'
  <2>1. RowsTyped'
    <3> DEFINE i == loops[d].id
               c == loops[d].answer
    <3>1. i \in Ids /\ rows[i] \in Row /\ c \in Codes
        BY <1>14 DEF TypeOK, HandleTransient, Codes
    <3>2. /\ [rows[i] EXCEPT !.state = "PENDING", !.error = c,
                             !.next = "null", !.attempts = Bump(@)] \in Row
          /\ [rows[i] EXCEPT !.state = "PENDING", !.error = c,
                             !.next = "later", !.attempts = Bump(@)] \in Row
        BY <3>1, RowUpdates
    <3> QED BY <1>14, <3>1, <3>2, UpdateKeepsType DEF RowsTyped, HandleTransient, Reschedule
  <2>2. LoopsTyped'
      BY <1>14, IdleLoops DEF HandleTransient, Done
  <2>3. RestTyped'
      BY <1>14 DEF TypeOK, RestTyped, HandleTransient
  <2> QED BY <2>1, <2>2, <2>3
<1>15. ASSUME NEW d \in Loops, HandlePermanent(d) PROVE RowsTyped' /\ LoopsTyped' /\ RestTyped'
  <2>1. RowsTyped'
    <3> DEFINE i == loops[d].id
               c == loops[d].answer
    <3>1. i \in Ids /\ rows[i] \in Row /\ c \in Codes
        BY <1>15 DEF TypeOK, HandlePermanent, Codes
    <3>2. /\ [rows[i] EXCEPT !.state = "PENDING", !.error = c,
                             !.next = "null", !.attempts = Bump(@)] \in Row
          /\ [rows[i] EXCEPT !.state = "PENDING", !.error = c,
                             !.next = "later", !.attempts = Bump(@)] \in Row
        BY <3>1, RowUpdates
    <3> QED BY <1>15, <3>1, <3>2, UpdateKeepsType DEF RowsTyped, HandlePermanent, Reject, MarkRejected
  <2>2. LoopsTyped'
      BY <1>15, IdleLoops DEF HandlePermanent, Done
  <2>3. RestTyped'
      BY <1>15 DEF TypeOK, RestTyped, HandlePermanent, Reject
  <2> QED BY <2>1, <2>2, <2>3
<1>16. ASSUME NEW d \in Loops, StoreError(d) PROVE RowsTyped' /\ LoopsTyped' /\ RestTyped'
  <2>1. RowsTyped'
      BY <1>16 DEF TypeOK, RowsTyped, StoreError
  <2>2. LoopsTyped'
      BY <1>16, IdleLoops DEF StoreError, Done
  <2>3. RestTyped'
      BY <1>16, BoundsAssumption DEF TypeOK, RestTyped, StoreError, Fault
  <2> QED BY <2>1, <2>2, <2>3
<1>17. ASSUME NEW d \in Loops, NEW i \in Ids, ServerStore(d, i) PROVE RowsTyped' /\ LoopsTyped' /\ RestTyped'
  <2>1. RowsTyped'
      BY <1>17 DEF TypeOK, RowsTyped, ServerStore
  <2>2. LoopsTyped'
      BY <1>17, ReplyLoops DEF ServerStore, Answers, Codes
  <2>3. RestTyped'
      BY <1>17 DEF TypeOK, RestTyped, ServerStore
  <2> QED BY <2>1, <2>2, <2>3
<1>18. ASSUME NEW d \in Loops, NEW i \in Ids, ServerCommand(d, i) PROVE RowsTyped' /\ LoopsTyped' /\ RestTyped'
  <2>1. RowsTyped'
      BY <1>18 DEF TypeOK, RowsTyped, ServerCommand
  <2>2. LoopsTyped'
      BY <1>18, ReplyLoops DEF ServerCommand, Answers, Codes
  <2>3. RestTyped'
      BY <1>18 DEF TypeOK, RestTyped, ServerCommand
  <2> QED BY <2>1, <2>2, <2>3
<1>19. ASSUME NEW d \in Loops, NEW i \in Ids, ServerRefuse(d, i) PROVE RowsTyped' /\ LoopsTyped' /\ RestTyped'
  <2>1. RowsTyped'
      BY <1>19 DEF TypeOK, RowsTyped, ServerRefuse
  <2>2. LoopsTyped'
      BY <1>19, ReplyLoops DEF ServerRefuse, Answers, Codes
  <2>3. RestTyped'
      BY <1>19 DEF TypeOK, RestTyped, ServerRefuse
  <2> QED BY <2>1, <2>2, <2>3
<1>20. ASSUME NEW d \in Loops, NEW i \in Ids, ServerFails(d, i) PROVE RowsTyped' /\ LoopsTyped' /\ RestTyped'
  <2>1. RowsTyped'
      BY <1>20 DEF TypeOK, RowsTyped, ServerFails
  <2>2. LoopsTyped'
      BY <1>20, ReplyLoops DEF ServerFails, Answers, Codes
  <2>3. RestTyped'
      BY <1>20 DEF TypeOK, RestTyped, ServerFails
  <2> QED BY <2>1, <2>2, <2>3
<1>21. CASE Stop
  <2>1. RowsTyped'
      BY <1>21 DEF TypeOK, RowsTyped, Stop
  <2>2. LoopsTyped'
      BY <1>21 DEF TypeOK, LoopsTyped, Stop
  <2>3. RestTyped'
      BY <1>21, BoundsAssumption DEF TypeOK, RestTyped, Stop, Fault
  <2> QED BY <2>1, <2>2, <2>3
<1>22. CASE Restart
  <2>1. RowsTyped'
    <3>1. \A i \in Ids : Repaired(rows[i]) \in Row
        BY RowUpdates DEF TypeOK, Codes
    <3> QED BY <1>22, <3>1 DEF RowsTyped, Restart
  <2>2. LoopsTyped'
    <3>1. Off \in Loop /\ Off.pc = "off"
        BY BoundsAssumption DEF Loop, Off, Answers
    <3> QED BY <1>22, <3>1 DEF LoopsTyped, Restart
  <2>3. RestTyped'
      BY <1>22, BoundsAssumption DEF TypeOK, RestTyped, Restart, Fault
  <2> QED BY <2>1, <2>2, <2>3
<1>23. CASE UNCHANGED vars
    BY <1>23 DEF TypeOK, RowsTyped, LoopsTyped, RestTyped, vars
<1> QED BY <1>1, <1>2, <1>3, <1>4, <1>5, <1>6, <1>7, <1>8, <1>9, <1>10, <1>11, <1>12,
           <1>13, <1>14, <1>15, <1>16, <1>17, <1>18, <1>19, <1>20, <1>21, <1>22, <1>23
        DEF Next, Step, Server

\* The outbox, its tasks and the server keep their types.
THEOREM TypeCorrect == Spec => []TypeOK
  BY TypeInit, TypeStep, PTL DEF Spec

-----------------------------------------------------------------------------
(* The bookkeeping of rows, tasks, wire and server *)

\* A guarded UPDATE that records no seq: what was agreed on stays agreed on.
LEMMA UpdateAgrees ==
    ASSUME TypeOK, RowsAgree, NEW i \in Ids, NEW r \in Row,
           r.state \in {"PENDING", "IN_FLIGHT"}, r.seq = rows[i].seq,
           UpdateUnconfirmed(i, r), UNCHANGED posted
    PROVE  /\ RowsAgree'
           /\ \A j \in Ids : rows[j].state # "ABSENT" => rows'[j].state # "ABSENT"
<1>1. CASE Unconfirmed(i)
  <2>1. rows' = [rows EXCEPT ![i] = r]
      BY <1>1 DEF UpdateUnconfirmed
  <2>2. rows[i].seq = 0
      BY <1>1 DEF RowsAgree, Unconfirmed, TypeOK
  <2> QED BY <2>1, <2>2 DEF RowsAgree, TypeOK
<1>2. CASE ~Unconfirmed(i)
    BY <1>2 DEF UpdateUnconfirmed, RowsAgree
<1> QED BY <1>1, <1>2

\* Confirming a message the server holds.
LEMMA ConfirmAgrees ==
    ASSUME TypeOK, RowsAgree, NEW i \in Ids, posted[i] # 0, UNCHANGED posted,
           rows' \in {rows, [rows EXCEPT ![i] = Confirmed(i)]}
    PROVE  /\ RowsAgree'
           /\ \A j \in Ids : rows[j].state # "ABSENT" => rows'[j].state # "ABSENT"
<1>1. /\ Confirmed(i).state = "CONFIRMED" /\ Confirmed(i).seq = posted[i]
      /\ Confirmed(i).error = "null" /\ Confirmed(i).next = "null"
    BY DEF Confirmed, TypeOK, Row
<1>2. CASE rows' = rows
    BY <1>2 DEF RowsAgree
<1>3. CASE rows' = [rows EXCEPT ![i] = Confirmed(i)]
    BY <1>1, <1>3 DEF RowsAgree, TypeOK
<1> QED BY <1>2, <1>3

LEMMA BookkeepingInit == Init => Bookkeeping
  BY DEF Init, Bookkeeping, RowsAgree, ServerAgrees, LoopsAgree, NoRow, Off

LEMMA BookkeepingStep == TypeOK /\ Bookkeeping /\ [Next]_vars => Bookkeeping'
<1> SUFFICES ASSUME TypeOK, RowsAgree, ServerAgrees, LoopsAgree, [Next]_vars
             PROVE  RowsAgree' /\ ServerAgrees' /\ LoopsAgree'
    BY DEF Bookkeeping
<1> USE DEF bounds, server
<1>1. ASSUME NEW i \in Ids, Enqueue(i) PROVE RowsAgree' /\ ServerAgrees' /\ LoopsAgree'
  <2>1. RowsAgree'
      BY <1>1 DEF TypeOK, RowsAgree, Enqueue, NoRow
  <2>2. ServerAgrees'
      BY <1>1 DEF TypeOK, ServerAgrees, Enqueue, NoRow
  <2>3. LoopsAgree'
      BY <1>1 DEF TypeOK, LoopsAgree, Enqueue, NoRow
  <2> QED BY <2>1, <2>2, <2>3
<1>2. ASSUME NEW i \in Ids, Retry(i) PROVE RowsAgree' /\ ServerAgrees' /\ LoopsAgree'
  <2> DEFINE r == [rows[i] EXCEPT !.state = "PENDING", !.error = "null", !.next = "due"]
  <2>a. rows[i] \in Row /\ "json" \in Codes /\ 0 \in Nat
      BY DEF TypeOK, Codes
  <2>b. r \in Row
      BY <2>a, RowUpdates
  <2>e. r.state = "PENDING" /\ r.seq = rows[i].seq
      BY <2>a DEF Row
  <2>c. /\ RowsAgree'
        /\ \A j \in Ids : rows[j].state # "ABSENT" => rows'[j].state # "ABSENT"
      BY <1>2, <2>b, <2>e, UpdateAgrees DEF Retry
  <2>1. RowsAgree'
      BY <2>c
  <2>2. ServerAgrees'
      BY <1>2, <2>c DEF TypeOK, ServerAgrees, Retry
  <2>3. LoopsAgree'
      BY <1>2, <2>c DEF TypeOK, LoopsAgree, Retry
  <2> QED BY <2>1, <2>2, <2>3
<1>3. ASSUME NEW i \in Ids, Echo(i) PROVE RowsAgree' /\ ServerAgrees' /\ LoopsAgree'
  <2>c. /\ RowsAgree'
        /\ \A j \in Ids : rows[j].state # "ABSENT" => rows'[j].state # "ABSENT"
      BY <1>3, ConfirmAgrees DEF Echo, StoreBatch
  <2>1. RowsAgree'
      BY <2>c
  <2>2. ServerAgrees'
      BY <1>3, <2>c DEF TypeOK, ServerAgrees, Echo
  <2>3. LoopsAgree'
      BY <1>3, <2>c DEF TypeOK, LoopsAgree, Echo
  <2> QED BY <2>1, <2>2, <2>3
<1>4. ASSUME NEW i \in Ids, TimePasses(i) PROVE RowsAgree' /\ ServerAgrees' /\ LoopsAgree'
  <2>1. RowsAgree'
      BY <1>4 DEF TypeOK, RowsAgree, TimePasses, Row
  <2>2. ServerAgrees'
      BY <1>4 DEF TypeOK, ServerAgrees, TimePasses, Row
  <2>3. LoopsAgree'
      BY <1>4 DEF TypeOK, LoopsAgree, TimePasses, Row
  <2> QED BY <2>1, <2>2, <2>3
<1>5. ASSUME NEW d \in Loops, Start(d) PROVE RowsAgree' /\ ServerAgrees' /\ LoopsAgree'
  <2>1. RowsAgree'
      BY <1>5 DEF TypeOK, RowsAgree, Start
  <2>2. ServerAgrees'
      BY <1>5 DEF TypeOK, ServerAgrees, Start
  <2>3. LoopsAgree'
      BY <1>5 DEF TypeOK, LoopsAgree, Start, Ready, Off
  <2> QED BY <2>1, <2>2, <2>3
<1>6. ASSUME NEW d \in Loops, Exit(d) PROVE RowsAgree' /\ ServerAgrees' /\ LoopsAgree'
  <2>1. RowsAgree'
      BY <1>6 DEF TypeOK, RowsAgree, Exit
  <2>2. ServerAgrees'
      BY <1>6 DEF TypeOK, ServerAgrees, Exit
  <2>3. LoopsAgree'
      BY <1>6 DEF TypeOK, LoopsAgree, Exit, Off
  <2> QED BY <2>1, <2>2, <2>3
<1>7. ASSUME NEW d \in Loops, Pick(d) PROVE RowsAgree' /\ ServerAgrees' /\ LoopsAgree'
  <2>1. RowsAgree'
      BY <1>7 DEF TypeOK, RowsAgree, Pick
  <2>2. ServerAgrees'
      BY <1>7 DEF TypeOK, ServerAgrees, Pick
  <2>3. LoopsAgree'
      BY <1>7 DEF TypeOK, LoopsAgree, Pick, Dispatchable
  <2> QED BY <2>1, <2>2, <2>3
<1>8. ASSUME NEW d \in Loops, Send(d) PROVE RowsAgree' /\ ServerAgrees' /\ LoopsAgree'
  <2> DEFINE i == loops[d].id
             r == InFlight(i)
  <2>a. i \in Ids /\ rows[i] \in Row
      BY <1>8 DEF TypeOK, Send
  <2>b. r \in Row
    <3>1. "json" \in Codes /\ 0 \in Nat
        BY DEF Codes
    <3> QED BY <2>a, <3>1, RowUpdates DEF InFlight
  <2>e. r.state = "IN_FLIGHT" /\ r.seq = rows[i].seq
      BY <2>a DEF Row, InFlight
  <2>c. /\ RowsAgree'
        /\ \A j \in Ids : rows[j].state # "ABSENT" => rows'[j].state # "ABSENT"
      BY <1>8, <2>a, <2>b, <2>e, UpdateAgrees DEF Send, MarkInFlight
  <2>d. rows[i].state # "ABSENT"
      BY <1>8 DEF LoopsAgree, Send
  <2>1. RowsAgree'
      BY <2>c
  <2>2. ServerAgrees'
      BY <1>8, <2>a, <2>c, <2>d DEF TypeOK, ServerAgrees, Send
  <2>3. LoopsAgree'
      BY <1>8, <2>c, <2>d DEF TypeOK, LoopsAgree, Send, Loop
  <2> QED BY <2>1, <2>2, <2>3
<1>9. ASSUME NEW d \in Loops, Timeout(d) PROVE RowsAgree' /\ ServerAgrees' /\ LoopsAgree'
  <2>1. RowsAgree'
      BY <1>9 DEF TypeOK, RowsAgree, Timeout
  <2>2. ServerAgrees'
      BY <1>9 DEF TypeOK, ServerAgrees, Timeout
  <2>3. LoopsAgree'
      BY <1>9 DEF TypeOK, LoopsAgree, Timeout, Answered, Loop
  <2> QED BY <2>1, <2>2, <2>3
<1>10. ASSUME NEW d \in Loops, StoreReply(d) PROVE RowsAgree' /\ ServerAgrees' /\ LoopsAgree'
  <2>a. loops[d].id \in Ids /\ posted[loops[d].id] # 0
      BY <1>10 DEF TypeOK, LoopsAgree, StoreReply
  <2>c. /\ RowsAgree'
        /\ \A j \in Ids : rows[j].state # "ABSENT" => rows'[j].state # "ABSENT"
      BY <1>10, <2>a, ConfirmAgrees DEF StoreReply, StoreBatch
  <2>1. RowsAgree'
      BY <2>c
  <2>2. ServerAgrees'
      BY <1>10, <2>c DEF TypeOK, ServerAgrees, StoreReply
  <2>3. LoopsAgree'
      BY <1>10, <2>c DEF TypeOK, LoopsAgree, StoreReply, Loop
  <2> QED BY <2>1, <2>2, <2>3
<1>11. ASSUME NEW d \in Loops, ConfirmReply(d) PROVE RowsAgree' /\ ServerAgrees' /\ LoopsAgree'
  <2>a. loops[d].id \in Ids /\ posted[loops[d].id] # 0
      BY <1>11 DEF TypeOK, LoopsAgree, ConfirmReply
  <2>c. /\ RowsAgree'
        /\ \A j \in Ids : rows[j].state # "ABSENT" => rows'[j].state # "ABSENT"
      BY <1>11, <2>a, ConfirmAgrees DEF ConfirmReply, ConfirmSent
  <2>1. RowsAgree'
      BY <2>c
  <2>2. ServerAgrees'
      BY <1>11, <2>c DEF TypeOK, ServerAgrees, ConfirmReply
  <2>3. LoopsAgree'
      BY <1>11, <2>c DEF TypeOK, LoopsAgree, ConfirmReply, Done, Ready, Off
  <2> QED BY <2>1, <2>2, <2>3
<1>12. ASSUME NEW d \in Loops, HandleCommand(d) PROVE RowsAgree' /\ ServerAgrees' /\ LoopsAgree'
  <2>1. RowsAgree'
      BY <1>12 DEF TypeOK, RowsAgree, HandleCommand, NoRow
  <2>2. ServerAgrees'
      BY <1>12 DEF TypeOK, ServerAgrees, HandleCommand, NoRow
  <2>3. LoopsAgree'
      BY <1>12 DEF TypeOK, LoopsAgree, HandleCommand, NoRow, Done, Ready, Off
  <2> QED BY <2>1, <2>2, <2>3
<1>13. ASSUME NEW d \in Loops, HandleUndecodable(d) PROVE RowsAgree' /\ ServerAgrees' /\ LoopsAgree'
  <2> DEFINE i == loops[d].id
             c == loops[d].answer
             rejected == [rows[i] EXCEPT !.state = "PENDING", !.error = c,
                                         !.next = "null", !.attempts = Bump(@)]
             again == [rows[i] EXCEPT !.state = "PENDING", !.error = c,
                                      !.next = "later", !.attempts = Bump(@)]
  <2>a. i \in Ids /\ rows[i] \in Row /\ c \in Codes
      BY <1>13 DEF TypeOK, HandleUndecodable, Codes
  <2>b. rejected \in Row /\ again \in Row
      BY <2>a, RowUpdates
  <2>e. /\ rejected.state = "PENDING" /\ rejected.seq = rows[i].seq
        /\ again.state = "PENDING" /\ again.seq = rows[i].seq
      BY <2>a DEF Row
  <2>c. /\ RowsAgree'
        /\ \A j \in Ids : rows[j].state # "ABSENT" => rows'[j].state # "ABSENT"
      BY <1>13, <2>a, <2>b, <2>e, UpdateAgrees DEF HandleUndecodable, Reject, MarkRejected, Reschedule
  <2>1. RowsAgree'
      BY <2>c
  <2>2. ServerAgrees'
      BY <1>13, <2>c DEF TypeOK, ServerAgrees, HandleUndecodable
  <2>3. LoopsAgree'
      BY <1>13, <2>c DEF TypeOK, LoopsAgree, HandleUndecodable, Done, Ready, Off
  <2> QED BY <2>1, <2>2, <2>3
<1>14. ASSUME NEW d \in Loops, HandleTransient(d) PROVE RowsAgree' /\ ServerAgrees' /\ LoopsAgree'
  <2> DEFINE i == loops[d].id
             c == loops[d].answer
             rejected == [rows[i] EXCEPT !.state = "PENDING", !.error = c,
                                         !.next = "null", !.attempts = Bump(@)]
             again == [rows[i] EXCEPT !.state = "PENDING", !.error = c,
                                      !.next = "later", !.attempts = Bump(@)]
  <2>a. i \in Ids /\ rows[i] \in Row /\ c \in Codes
      BY <1>14 DEF TypeOK, HandleTransient, Codes
  <2>b. rejected \in Row /\ again \in Row
      BY <2>a, RowUpdates
  <2>e. /\ rejected.state = "PENDING" /\ rejected.seq = rows[i].seq
        /\ again.state = "PENDING" /\ again.seq = rows[i].seq
      BY <2>a DEF Row
  <2>c. /\ RowsAgree'
        /\ \A j \in Ids : rows[j].state # "ABSENT" => rows'[j].state # "ABSENT"
      BY <1>14, <2>a, <2>b, <2>e, UpdateAgrees DEF HandleTransient, Reschedule
  <2>1. RowsAgree'
      BY <2>c
  <2>2. ServerAgrees'
      BY <1>14, <2>c DEF TypeOK, ServerAgrees, HandleTransient
  <2>3. LoopsAgree'
      BY <1>14, <2>c DEF TypeOK, LoopsAgree, HandleTransient, Done, Ready, Off
  <2> QED BY <2>1, <2>2, <2>3
<1>15. ASSUME NEW d \in Loops, HandlePermanent(d) PROVE RowsAgree' /\ ServerAgrees' /\ LoopsAgree'
  <2> DEFINE i == loops[d].id
             c == loops[d].answer
             rejected == [rows[i] EXCEPT !.state = "PENDING", !.error = c,
                                         !.next = "null", !.attempts = Bump(@)]
             again == [rows[i] EXCEPT !.state = "PENDING", !.error = c,
                                      !.next = "later", !.attempts = Bump(@)]
  <2>a. i \in Ids /\ rows[i] \in Row /\ c \in Codes
      BY <1>15 DEF TypeOK, HandlePermanent, Codes
  <2>b. rejected \in Row /\ again \in Row
      BY <2>a, RowUpdates
  <2>e. /\ rejected.state = "PENDING" /\ rejected.seq = rows[i].seq
        /\ again.state = "PENDING" /\ again.seq = rows[i].seq
      BY <2>a DEF Row
  <2>c. /\ RowsAgree'
        /\ \A j \in Ids : rows[j].state # "ABSENT" => rows'[j].state # "ABSENT"
      BY <1>15, <2>a, <2>b, <2>e, UpdateAgrees DEF HandlePermanent, Reject, MarkRejected
  <2>1. RowsAgree'
      BY <2>c
  <2>2. ServerAgrees'
      BY <1>15, <2>c DEF TypeOK, ServerAgrees, HandlePermanent
  <2>3. LoopsAgree'
      BY <1>15, <2>c DEF TypeOK, LoopsAgree, HandlePermanent, Done, Ready, Off
  <2> QED BY <2>1, <2>2, <2>3
<1>16. ASSUME NEW d \in Loops, StoreError(d) PROVE RowsAgree' /\ ServerAgrees' /\ LoopsAgree'
  <2>1. RowsAgree'
      BY <1>16 DEF TypeOK, RowsAgree, StoreError
  <2>2. ServerAgrees'
      BY <1>16 DEF TypeOK, ServerAgrees, StoreError
  <2>3. LoopsAgree'
      BY <1>16 DEF TypeOK, LoopsAgree, StoreError, Done, Ready, Off
  <2> QED BY <2>1, <2>2, <2>3
<1>17. ASSUME NEW d \in Loops, NEW i \in Ids, ServerStore(d, i) PROVE RowsAgree' /\ ServerAgrees' /\ LoopsAgree'
  <2>1. RowsAgree'
      BY <1>17 DEF TypeOK, RowsAgree, ServerStore
  <2>2. ServerAgrees'
      BY <1>17 DEF TypeOK, ServerAgrees, ServerStore
  <2>3. LoopsAgree'
      BY <1>17 DEF TypeOK, LoopsAgree, ServerStore, Reply, Answered, Loop
  <2> QED BY <2>1, <2>2, <2>3
<1>18. ASSUME NEW d \in Loops, NEW i \in Ids, ServerCommand(d, i) PROVE RowsAgree' /\ ServerAgrees' /\ LoopsAgree'
  <2>1. RowsAgree'
      BY <1>18 DEF TypeOK, RowsAgree, ServerCommand
  <2>2. ServerAgrees'
      BY <1>18 DEF TypeOK, ServerAgrees, ServerCommand
  <2>3. LoopsAgree'
      BY <1>18 DEF TypeOK, LoopsAgree, ServerCommand, Reply, Answered, Loop
  <2> QED BY <2>1, <2>2, <2>3
<1>19. ASSUME NEW d \in Loops, NEW i \in Ids, ServerRefuse(d, i) PROVE RowsAgree' /\ ServerAgrees' /\ LoopsAgree'
  <2>1. RowsAgree'
      BY <1>19 DEF TypeOK, RowsAgree, ServerRefuse
  <2>2. ServerAgrees'
      BY <1>19 DEF TypeOK, ServerAgrees, ServerRefuse
  <2>3. LoopsAgree'
      BY <1>19 DEF TypeOK, LoopsAgree, ServerRefuse, Reply, Answered, Loop
  <2> QED BY <2>1, <2>2, <2>3
<1>20. ASSUME NEW d \in Loops, NEW i \in Ids, ServerFails(d, i) PROVE RowsAgree' /\ ServerAgrees' /\ LoopsAgree'
  <2>1. RowsAgree'
      BY <1>20 DEF TypeOK, RowsAgree, ServerFails
  <2>2. ServerAgrees'
      BY <1>20 DEF TypeOK, ServerAgrees, ServerFails
  <2>3. LoopsAgree'
      BY <1>20 DEF TypeOK, LoopsAgree, ServerFails, Reply, Answered, Loop
  <2> QED BY <2>1, <2>2, <2>3
<1>21. CASE Stop
  <2>1. RowsAgree'
      BY <1>21 DEF TypeOK, RowsAgree, Stop
  <2>2. ServerAgrees'
      BY <1>21 DEF TypeOK, ServerAgrees, Stop
  <2>3. LoopsAgree'
      BY <1>21 DEF TypeOK, LoopsAgree, Stop
  <2> QED BY <2>1, <2>2, <2>3
<1>22. CASE Restart
  <2>0. ASSUME NEW i \in Ids
        PROVE  /\ rows'[i].seq = rows[i].seq
               /\ rows'[i].state = "ABSENT" <=> rows[i].state = "ABSENT"
               /\ rows'[i].state = "CONFIRMED" <=> rows[i].state = "CONFIRMED"
               /\ rows[i].state = "CONFIRMED" => rows'[i] = rows[i]
    <3>1. rows'[i] = Repaired(rows[i]) /\ rows[i] \in Row
        BY <1>22 DEF TypeOK, Restart
    <3>2. rows[i].seq # 0 => rows[i].state = "CONFIRMED"
        BY DEF RowsAgree
    <3>3. rows'[i] \in {rows[i], [rows[i] EXCEPT !.next = "due"]}
        BY <3>1, <3>2 DEF Repaired
    <3>4. rows[i].state = "CONFIRMED" => rows'[i] = rows[i]
        BY <3>1, <3>2 DEF Repaired
    <3> QED BY <3>1, <3>3, <3>4 DEF Row
  <2>1. RowsAgree'
      BY <1>22, <2>0 DEF RowsAgree, Restart, server
  <2>2. ServerAgrees'
    <3>1. posted' = posted /\ wire' = wire /\ \A r \in wire : r[2] \in Ids
        BY <1>22 DEF Restart, server, TypeOK
    <3> QED BY <2>0, <3>1 DEF ServerAgrees
  <2>3. LoopsAgree'
      BY <1>22 DEF TypeOK, LoopsAgree, Restart, Off
  <2> QED BY <2>1, <2>2, <2>3
<1>23. CASE UNCHANGED vars
    BY <1>23 DEF RowsAgree, ServerAgrees, LoopsAgree, vars
<1> QED BY <1>1, <1>2, <1>3, <1>4, <1>5, <1>6, <1>7, <1>8, <1>9, <1>10, <1>11, <1>12,
           <1>13, <1>14, <1>15, <1>16, <1>17, <1>18, <1>19, <1>20, <1>21, <1>22, <1>23
        DEF Next, Step, Server

\* Rows, tasks, wire and server agree at every moment.
THEOREM BookkeepingHolds == Spec => []Bookkeeping
  BY TypeCorrect, BookkeepingInit, BookkeepingStep, PTL DEF Spec

\* A row is CONFIRMED only when the server holds the message, under the row's seq.
THEOREM ConfirmedOnlyIfPosted == Spec => []ConfirmedIsPosted
<1>1. Bookkeeping => ConfirmedIsPosted
    BY DEF Bookkeeping, RowsAgree, ConfirmedIsPosted
<1> QED BY <1>1, BookkeepingHolds, PTL

-----------------------------------------------------------------------------
(* A CONFIRMED row is final *)

\* An UPDATE guarded by state != 'CONFIRMED' leaves the CONFIRMED rows alone.
LEMMA UpdateSparesConfirmed ==
    ASSUME TypeOK, NEW i \in Ids, NEW r, UpdateUnconfirmed(i, r),
           NEW j \in Ids, rows[j].state = "CONFIRMED"
    PROVE  rows'[j] = rows[j]
  BY DEF TypeOK, UpdateUnconfirmed, Unconfirmed

\* Confirming a CONFIRMED row once more changes nothing.
LEMMA ConfirmedAgain ==
    ASSUME TypeOK, RowsAgree, NEW i \in Ids, rows[i].state = "CONFIRMED"
    PROVE  Confirmed(i) = rows[i]
<1>1. /\ rows[i] \in Row
      /\ rows[i].seq = posted[i] /\ rows[i].error = "null" /\ rows[i].next = "null"
    BY DEF TypeOK, RowsAgree
<1> QED BY <1>1 DEF Confirmed, Row

LEMMA FinalStep ==
    ASSUME TypeOK, Bookkeeping, [Next]_vars, NEW j \in Ids, rows[j].state = "CONFIRMED"
    PROVE  rows'[j] = rows[j]
<1> USE DEF server, bounds
<1>1. ASSUME NEW i \in Ids, Enqueue(i) PROVE rows'[j] = rows[j]
    BY <1>1 DEF Enqueue, TypeOK
<1>2. ASSUME NEW i \in Ids, Retry(i) PROVE rows'[j] = rows[j]
    BY <1>2, UpdateSparesConfirmed DEF Retry
<1>3. ASSUME NEW i \in Ids, Echo(i) PROVE rows'[j] = rows[j]
    BY <1>3 DEF Echo, StoreBatch, Unconfirmed, TypeOK
<1>4. ASSUME NEW i \in Ids, TimePasses(i) PROVE rows'[j] = rows[j]
    BY <1>4 DEF TimePasses, Bookkeeping, RowsAgree, TypeOK
<1>5. ASSUME NEW d \in Loops, Start(d) PROVE rows'[j] = rows[j]
    BY <1>5 DEF Start
<1>6. ASSUME NEW d \in Loops, Exit(d) PROVE rows'[j] = rows[j]
    BY <1>6 DEF Exit
<1>7. ASSUME NEW d \in Loops, Pick(d) PROVE rows'[j] = rows[j]
    BY <1>7 DEF Pick
<1>8. ASSUME NEW d \in Loops, Timeout(d) PROVE rows'[j] = rows[j]
    BY <1>8 DEF Timeout
<1>9. ASSUME NEW d \in Loops, StoreError(d) PROVE rows'[j] = rows[j]
    BY <1>9 DEF StoreError
<1>10. ASSUME NEW d \in Loops, Send(d) PROVE rows'[j] = rows[j]
  <2>1. loops[d].id \in Ids
      BY <1>10 DEF TypeOK, Send
  <2> QED BY <1>10, <2>1, UpdateSparesConfirmed DEF Send, MarkInFlight
<1>11. ASSUME NEW d \in Loops, StoreReply(d) PROVE rows'[j] = rows[j]
    BY <1>11 DEF StoreReply, StoreBatch, Unconfirmed, TypeOK
<1>12. ASSUME NEW d \in Loops, ConfirmReply(d) PROVE rows'[j] = rows[j]
    BY <1>12, ConfirmedAgain DEF ConfirmReply, ConfirmSent, Bookkeeping, TypeOK
<1>13. ASSUME NEW d \in Loops, HandleCommand(d) PROVE rows'[j] = rows[j]
  <2>1. loops[d].id \in Commands
      BY <1>13 DEF HandleCommand, Bookkeeping, LoopsAgree
  <2>2. j \notin Commands
      BY DEF Bookkeeping, RowsAgree, ServerAgrees
  <2> QED BY <1>13, <2>1, <2>2 DEF HandleCommand, TypeOK
<1>14. ASSUME NEW d \in Loops, HandleUndecodable(d) PROVE rows'[j] = rows[j]
  <2>1. loops[d].id \in Ids
      BY <1>14 DEF TypeOK, HandleUndecodable
  <2> QED BY <1>14, <2>1, UpdateSparesConfirmed DEF HandleUndecodable, Reject, MarkRejected, Reschedule
<1>15. ASSUME NEW d \in Loops, HandleTransient(d) PROVE rows'[j] = rows[j]
  <2>1. loops[d].id \in Ids
      BY <1>15 DEF TypeOK, HandleTransient
  <2> QED BY <1>15, <2>1, UpdateSparesConfirmed DEF HandleTransient, Reschedule
<1>16. ASSUME NEW d \in Loops, HandlePermanent(d) PROVE rows'[j] = rows[j]
  <2>1. loops[d].id \in Ids
      BY <1>16 DEF TypeOK, HandlePermanent
  <2> QED BY <1>16, <2>1, UpdateSparesConfirmed DEF HandlePermanent, Reject, MarkRejected
<1>17. ASSUME NEW d \in Loops, NEW i \in Ids, ServerStore(d, i) PROVE rows'[j] = rows[j]
    BY <1>17 DEF ServerStore
<1>18. ASSUME NEW d \in Loops, NEW i \in Ids, ServerCommand(d, i) PROVE rows'[j] = rows[j]
    BY <1>18 DEF ServerCommand
<1>19. ASSUME NEW d \in Loops, NEW i \in Ids, ServerRefuse(d, i) PROVE rows'[j] = rows[j]
    BY <1>19 DEF ServerRefuse
<1>20. ASSUME NEW d \in Loops, NEW i \in Ids, ServerFails(d, i) PROVE rows'[j] = rows[j]
    BY <1>20 DEF ServerFails
<1>21. CASE Stop
    BY <1>21 DEF Stop
<1>22. CASE Restart
    BY <1>22 DEF Restart, Repaired
<1>23. CASE UNCHANGED vars
    BY <1>23 DEF vars
<1> QED BY <1>1, <1>2, <1>3, <1>4, <1>5, <1>6, <1>7, <1>8, <1>9, <1>10, <1>11, <1>12,
           <1>13, <1>14, <1>15, <1>16, <1>17, <1>18, <1>19, <1>20, <1>21, <1>22, <1>23
        DEF Next, Step, Server

\* Neither a late rejection nor a reschedule, a retry or a restart changes a CONFIRMED row.
THEOREM ConfirmedRowsAreFinal == Spec => ConfirmedIsFinal
<1>1. TypeOK /\ Bookkeeping /\ [Next]_vars =>
         [\A i \in Ids : rows[i].state = "CONFIRMED" => rows'[i] = rows[i]]_vars
    BY FinalStep
<1> QED BY <1>1, TypeCorrect, BookkeepingHolds, PTL DEF Spec, ConfirmedIsFinal

-----------------------------------------------------------------------------
(* The outbox implements OutgoingStatus *)

\* How one row may change what its sender is shown.
Moves(i) ==
    \/ Status(i)' = Status(i)
    \/ Status(i) = "New" /\ Status(i)' = "Pending"
    \/ Status(i) \in {"Pending", "Failed"} /\ Status(i)' = "Sent" /\ posted[i] # 0
    \/ Status(i) = "Pending" /\ Status(i)' = "Failed"
    \/ Status(i) \in {"Pending", "Failed"} /\ Status(i)' = "Executed"
    \/ Status(i) = "Failed" /\ Status(i)' = "Pending"

\* A step that changes one row in such a way is a step of OutgoingStatus.
LEMMA OneRowMoves ==
    ASSUME NEW i \in Ids, \A j \in Ids \ {i} : rows'[j] = rows[j],
           UNCHANGED posted, Moves(i)
    PROVE  [Out!Next]_Out!vars
<1> DEFINE st == [j \in Ids |-> Status(j)]
           held == {j \in Ids : posted[j] # 0}
<1>1. \A j \in Ids \ {i} : Status(j)' = Status(j)
    BY DEF Status
<1>2. st' = [j \in Ids |-> IF j = i THEN Status(i)' ELSE st[j]]
    BY <1>1
<1>3. st' = [st EXCEPT ![i] = Status(i)']
    BY <1>2
<1>4. held' = held
    OBVIOUS
<1>5. st[i] = Status(i)
    OBVIOUS
<1>6. CASE Status(i)' = Status(i)
    BY <1>2, <1>4, <1>6 DEF Out!vars
<1>7. CASE Status(i) = "New" /\ Status(i)' = "Pending"
  <2>1. Out!Enqueue(i)
      BY <1>3, <1>4, <1>5, <1>7 DEF Out!Enqueue, Out!Become
  <2> QED BY <2>1 DEF Out!Next
<1>8. CASE Status(i) \in {"Pending", "Failed"} /\ Status(i)' = "Sent" /\ posted[i] # 0
  <2>1. Out!Confirm(i)
      BY <1>3, <1>4, <1>5, <1>8 DEF Out!Confirm, Out!Become
  <2> QED BY <2>1 DEF Out!Next
<1>9. CASE Status(i) = "Pending" /\ Status(i)' = "Failed"
  <2>1. Out!Fail(i)
      BY <1>3, <1>4, <1>5, <1>9 DEF Out!Fail, Out!Become
  <2> QED BY <2>1 DEF Out!Next
<1>10. CASE Status(i) \in {"Pending", "Failed"} /\ Status(i)' = "Executed"
  <2>1. Out!Execute(i)
      BY <1>3, <1>4, <1>5, <1>10 DEF Out!Execute, Out!Become
  <2> QED BY <2>1 DEF Out!Next
<1>11. CASE Status(i) = "Failed" /\ Status(i)' = "Pending"
  <2>1. \A j \in {i} : st[j] = "Failed"
      BY <1>5, <1>11
  <2>2. st' = [j \in Ids |-> IF j \in {i} THEN "Pending" ELSE st[j]]
      BY <1>2, <1>11
  <2>3. Out!Rearm
      BY <2>1, <2>2, <1>4 DEF Out!Rearm
  <2> QED BY <2>3 DEF Out!Next
<1> QED BY <1>6, <1>7, <1>8, <1>9, <1>10, <1>11 DEF Moves

\* Nothing the sender or the group sees has changed.
LEMMA NothingMoves ==
    ASSUME UNCHANGED <<rows, posted>>
    PROVE  [Out!Next]_Out!vars
<1>1. \A j \in Ids : Status(j)' = Status(j)
    BY DEF Status
<1> QED BY <1>1 DEF Out!vars

\* What an UPDATE guarded by state != 'CONFIRMED' can show.
LEMMA UpdateMoves ==
    ASSUME TypeOK, NEW i \in Ids, NEW r \in Row,
           r.state \in {"PENDING", "IN_FLIGHT"}, UpdateUnconfirmed(i, r), UNCHANGED posted
    PROVE  [Out!Next]_Out!vars
<1>1. CASE Unconfirmed(i)
  <2>1. rows' = [rows EXCEPT ![i] = r]
      BY <1>1 DEF UpdateUnconfirmed
  <2>2. rows'[i] = r /\ \A j \in Ids \ {i} : rows'[j] = rows[j]
      BY <2>1 DEF TypeOK
  <2>3. Status(i) \in {"Pending", "Failed"}
      BY <1>1 DEF Status, Unconfirmed, Present
  <2>4. Status(i)' \in {"Pending", "Failed"}
      BY <2>2 DEF Status
  <2>5. Moves(i)
      BY <2>3, <2>4 DEF Moves
  <2> QED BY <2>2, <2>5, OneRowMoves
<1>2. CASE ~Unconfirmed(i)
    BY <1>2, NothingMoves DEF UpdateUnconfirmed
<1> QED BY <1>1, <1>2

\* Confirming a message the group holds.
LEMMA ConfirmMoves ==
    ASSUME TypeOK, NEW i \in Ids, Present(i), posted[i] # 0, UNCHANGED posted,
           rows' = [rows EXCEPT ![i] = Confirmed(i)]
    PROVE  [Out!Next]_Out!vars
<1>1. rows'[i] = Confirmed(i) /\ \A j \in Ids \ {i} : rows'[j] = rows[j]
    BY DEF TypeOK
<1>2. Confirmed(i).state = "CONFIRMED"
    BY DEF Confirmed, TypeOK, Row
<1>3. Status(i)' = "Sent"
    BY <1>1, <1>2 DEF Status
<1>4. Status(i) \in {"Pending", "Failed", "Sent"}
    BY DEF Status, Present
<1>5. Moves(i)
    BY <1>3, <1>4 DEF Moves
<1> QED BY <1>1, <1>5, OneRowMoves

\* Deleting the row of an executed command.
LEMMA DeletedMoves ==
    ASSUME TypeOK, NEW i \in Ids, Unconfirmed(i), UNCHANGED posted,
           rows' = [rows EXCEPT ![i] = [NoRow EXCEPT !.state = "DELETED"]]
    PROVE  [Out!Next]_Out!vars
<1>1. /\ rows'[i] = [NoRow EXCEPT !.state = "DELETED"]
      /\ \A j \in Ids \ {i} : rows'[j] = rows[j]
    BY DEF TypeOK
<1>2. Status(i) \in {"Pending", "Failed"}
    BY DEF Status, Unconfirmed, Present
<1>3. Status(i)' = "Executed"
    BY <1>1 DEF Status, NoRow
<1>4. Moves(i)
    BY <1>2, <1>3 DEF Moves
<1> QED BY <1>1, <1>4, OneRowMoves

LEMMA StatusInit == Init => Out!Init
  BY DEF Init, Out!Init, Status, NoRow

LEMMA StatusStep == TypeOK /\ Bookkeeping /\ [Next]_vars => [Out!Next]_Out!vars
<1> SUFFICES ASSUME TypeOK, Bookkeeping, [Next]_vars PROVE [Out!Next]_Out!vars
    OBVIOUS
<1> USE DEF server, bounds
<1>1. ASSUME NEW i \in Ids, Enqueue(i) PROVE [Out!Next]_Out!vars
  <2>1. rows'[i] = [NoRow EXCEPT !.state = "PENDING"] /\ \A j \in Ids \ {i} : rows'[j] = rows[j]
      BY <1>1 DEF Enqueue, TypeOK
  <2>2. Status(i) = "New"
      BY <1>1 DEF Enqueue, Status
  <2>3. Status(i)' = "Pending"
      BY <2>1 DEF Status, NoRow
  <2>4. Moves(i)
      BY <2>2, <2>3 DEF Moves
  <2> QED BY <1>1, <2>1, <2>4, OneRowMoves DEF Enqueue
<1>2. ASSUME NEW i \in Ids, Retry(i) PROVE [Out!Next]_Out!vars
  <2> DEFINE r == [rows[i] EXCEPT !.state = "PENDING", !.error = "null", !.next = "due"]
  <2>1. rows[i] \in Row /\ "json" \in Codes /\ 0 \in Nat
      BY DEF TypeOK, Codes
  <2>2. r \in Row
      BY <2>1, RowUpdates
  <2>3. r.state = "PENDING"
      BY <2>1 DEF Row
  <2> QED BY <1>2, <2>2, <2>3, UpdateMoves DEF Retry
<1>3. ASSUME NEW i \in Ids, Echo(i) PROVE [Out!Next]_Out!vars
  <2>1. CASE Unconfirmed(i) /\ rows' = [rows EXCEPT ![i] = Confirmed(i)]
      BY <1>3, <2>1, ConfirmMoves DEF Echo, Unconfirmed
  <2>2. CASE rows' = rows
      BY <1>3, <2>2, NothingMoves DEF Echo
  <2> QED BY <1>3, <2>1, <2>2 DEF Echo, StoreBatch
<1>4. ASSUME NEW i \in Ids, TimePasses(i) PROVE [Out!Next]_Out!vars
  <2>1. /\ Status(i)' = Status(i)
        /\ \A j \in Ids \ {i} : rows'[j] = rows[j]
    <3>1. CASE rows[i].next = "later" /\ rows' = [rows EXCEPT ![i].next = "due"]
        BY <3>1 DEF TypeOK, Row, Status
    <3>2. CASE rows' = [rows EXCEPT ![i].last = "stale"]
        BY <3>2 DEF TypeOK, Row, Status
    <3> QED BY <1>4, <3>1, <3>2 DEF TimePasses
  <2>2. Moves(i)
      BY <2>1 DEF Moves
  <2> QED BY <1>4, <2>1, <2>2, OneRowMoves DEF TimePasses
<1>5. ASSUME NEW d \in Loops, Start(d) PROVE [Out!Next]_Out!vars
    BY <1>5, NothingMoves DEF Start
<1>6. ASSUME NEW d \in Loops, Exit(d) PROVE [Out!Next]_Out!vars
    BY <1>6, NothingMoves DEF Exit
<1>7. ASSUME NEW d \in Loops, Pick(d) PROVE [Out!Next]_Out!vars
    BY <1>7, NothingMoves DEF Pick
<1>8. ASSUME NEW d \in Loops, Timeout(d) PROVE [Out!Next]_Out!vars
    BY <1>8, NothingMoves DEF Timeout
<1>9. ASSUME NEW d \in Loops, StoreError(d) PROVE [Out!Next]_Out!vars
    BY <1>9, NothingMoves DEF StoreError
<1>10. ASSUME NEW d \in Loops, Send(d) PROVE [Out!Next]_Out!vars
  <2> DEFINE i == loops[d].id
  <2>1. i \in Ids /\ rows[i] \in Row
      BY <1>10 DEF TypeOK, Send
  <2>2. InFlight(i) \in Row
    <3>1. "json" \in Codes /\ 0 \in Nat
        BY DEF Codes
    <3> QED BY <2>1, <3>1, RowUpdates DEF InFlight
  <2>3. InFlight(i).state = "IN_FLIGHT"
      BY <2>1 DEF Row, InFlight
  <2> QED BY <1>10, <2>1, <2>2, <2>3, UpdateMoves DEF Send, MarkInFlight
<1>11. ASSUME NEW d \in Loops, StoreReply(d) PROVE [Out!Next]_Out!vars
  <2> DEFINE i == loops[d].id
  <2>1. i \in Ids /\ posted[i] # 0
      BY <1>11 DEF TypeOK, Bookkeeping, LoopsAgree, StoreReply
  <2>2. CASE Unconfirmed(i) /\ rows' = [rows EXCEPT ![i] = Confirmed(i)]
      BY <1>11, <2>1, <2>2, ConfirmMoves DEF StoreReply, Unconfirmed
  <2>3. CASE rows' = rows
      BY <1>11, <2>3, NothingMoves DEF StoreReply
  <2> QED BY <1>11, <2>2, <2>3 DEF StoreReply, StoreBatch
<1>12. ASSUME NEW d \in Loops, ConfirmReply(d) PROVE [Out!Next]_Out!vars
  <2> DEFINE i == loops[d].id
  <2>1. i \in Ids /\ posted[i] # 0
      BY <1>12 DEF TypeOK, Bookkeeping, LoopsAgree, ConfirmReply
  <2>2. CASE Present(i)
      BY <1>12, <2>1, <2>2, ConfirmMoves DEF ConfirmReply, ConfirmSent
  <2>3. CASE ~Present(i)
      BY <1>12, <2>3, NothingMoves DEF ConfirmReply, ConfirmSent
  <2> QED BY <2>2, <2>3
<1>13. ASSUME NEW d \in Loops, HandleCommand(d) PROVE [Out!Next]_Out!vars
  <2> DEFINE i == loops[d].id
  <2>1. i \in Ids /\ i \in Commands
      BY <1>13 DEF TypeOK, Bookkeeping, LoopsAgree, HandleCommand
  <2>2. rows[i].state # "CONFIRMED"
      BY <2>1 DEF Bookkeeping, RowsAgree, ServerAgrees
  <2>3. CASE Present(i)
    <3>1. Unconfirmed(i)
        BY <2>2, <2>3 DEF Unconfirmed
    <3> QED BY <1>13, <2>1, <2>3, <3>1, DeletedMoves DEF HandleCommand
  <2>4. CASE ~Present(i)
      BY <1>13, <2>4, NothingMoves DEF HandleCommand
  <2> QED BY <2>3, <2>4
<1>14. ASSUME NEW d \in Loops, HandleUndecodable(d) PROVE [Out!Next]_Out!vars
  <2> DEFINE i == loops[d].id
             c == loops[d].answer
             rejected == [rows[i] EXCEPT !.state = "PENDING", !.error = c,
                                         !.next = "null", !.attempts = Bump(@)]
             again == [rows[i] EXCEPT !.state = "PENDING", !.error = c,
                                      !.next = "later", !.attempts = Bump(@)]
  <2>1. i \in Ids /\ rows[i] \in Row /\ c \in Codes
      BY <1>14 DEF TypeOK, HandleUndecodable, Codes
  <2>2. rejected \in Row /\ again \in Row
      BY <2>1, RowUpdates
  <2>3. rejected.state = "PENDING" /\ again.state = "PENDING"
      BY <2>1 DEF Row
  <2> QED BY <1>14, <2>1, <2>2, <2>3, UpdateMoves DEF HandleUndecodable, Reject, MarkRejected, Reschedule
<1>15. ASSUME NEW d \in Loops, HandleTransient(d) PROVE [Out!Next]_Out!vars
  <2> DEFINE i == loops[d].id
             c == loops[d].answer
             rejected == [rows[i] EXCEPT !.state = "PENDING", !.error = c,
                                         !.next = "null", !.attempts = Bump(@)]
             again == [rows[i] EXCEPT !.state = "PENDING", !.error = c,
                                      !.next = "later", !.attempts = Bump(@)]
  <2>1. i \in Ids /\ rows[i] \in Row /\ c \in Codes
      BY <1>15 DEF TypeOK, HandleTransient, Codes
  <2>2. rejected \in Row /\ again \in Row
      BY <2>1, RowUpdates
  <2>3. rejected.state = "PENDING" /\ again.state = "PENDING"
      BY <2>1 DEF Row
  <2> QED BY <1>15, <2>1, <2>2, <2>3, UpdateMoves DEF HandleTransient, Reschedule
<1>16. ASSUME NEW d \in Loops, HandlePermanent(d) PROVE [Out!Next]_Out!vars
  <2> DEFINE i == loops[d].id
             c == loops[d].answer
             rejected == [rows[i] EXCEPT !.state = "PENDING", !.error = c,
                                         !.next = "null", !.attempts = Bump(@)]
             again == [rows[i] EXCEPT !.state = "PENDING", !.error = c,
                                      !.next = "later", !.attempts = Bump(@)]
  <2>1. i \in Ids /\ rows[i] \in Row /\ c \in Codes
      BY <1>16 DEF TypeOK, HandlePermanent, Codes
  <2>2. rejected \in Row /\ again \in Row
      BY <2>1, RowUpdates
  <2>3. rejected.state = "PENDING" /\ again.state = "PENDING"
      BY <2>1 DEF Row
  <2> QED BY <1>16, <2>1, <2>2, <2>3, UpdateMoves DEF HandlePermanent, Reject, MarkRejected
<1>17. ASSUME NEW d \in Loops, NEW i \in Ids, ServerStore(d, i) PROVE [Out!Next]_Out!vars
  <2>1. CASE UNCHANGED posted
      BY <1>17, <2>1, NothingMoves DEF ServerStore
  <2>2. CASE posted[i] = 0 /\ posted' = [posted EXCEPT ![i] = lastSeq + 1]
    <3> DEFINE st == [j \in Ids |-> Status(j)]
               held == {j \in Ids : posted[j] # 0}
    <3>1. rows[i].state # "ABSENT" /\ rows' = rows
        BY <1>17 DEF Bookkeeping, ServerAgrees, ServerStore
    <3>2. st' = st
        BY <3>1 DEF Status
    <3>3. st[i] # "New"
        BY <3>1 DEF Status
    <3>4. i \notin held /\ held' = held \cup {i}
        BY <2>2 DEF TypeOK
    <3>5. Out!Post(i)
        BY <3>2, <3>3, <3>4 DEF Out!Post
    <3> QED BY <3>5 DEF Out!Next
  <2> QED BY <1>17, <2>1, <2>2 DEF ServerStore
<1>18. ASSUME NEW d \in Loops, NEW i \in Ids, ServerCommand(d, i) PROVE [Out!Next]_Out!vars
    BY <1>18, NothingMoves DEF ServerCommand
<1>19. ASSUME NEW d \in Loops, NEW i \in Ids, ServerRefuse(d, i) PROVE [Out!Next]_Out!vars
    BY <1>19, NothingMoves DEF ServerRefuse
<1>20. ASSUME NEW d \in Loops, NEW i \in Ids, ServerFails(d, i) PROVE [Out!Next]_Out!vars
    BY <1>20, NothingMoves DEF ServerFails
<1>21. CASE Stop
    BY <1>21, NothingMoves DEF Stop
<1>22. CASE Restart
  <2> DEFINE st == [j \in Ids |-> Status(j)]
             held == {j \in Ids : posted[j] # 0}
             S == {j \in Ids : st[j] = "Failed" /\ st'[j] = "Pending"}
  <2>1. \A j \in Ids : \/ Status(j)' = Status(j)
                       \/ Status(j) = "Failed" /\ Status(j)' = "Pending"
    <3> SUFFICES ASSUME NEW j \in Ids
                 PROVE  \/ Status(j)' = Status(j)
                        \/ Status(j) = "Failed" /\ Status(j)' = "Pending"
        OBVIOUS
    <3>1. rows'[j] = Repaired(rows[j]) /\ rows[j] \in Row
        BY <1>22 DEF Restart, TypeOK
    <3>2. ~(rows[j].seq # 0 /\ rows[j].state # "CONFIRMED")
        BY DEF Bookkeeping, RowsAgree
    <3>3. CASE rows[j].state = "PENDING" /\ rows[j].next = "null"
                  /\ rows[j].error \in {"json", "reused"}
      <4>1. rows'[j] = [rows[j] EXCEPT !.next = "due"]
          BY <3>1, <3>2, <3>3 DEF Repaired
      <4> QED BY <3>1, <3>3, <4>1 DEF Status, Row
    <3>4. CASE ~(rows[j].state = "PENDING" /\ rows[j].next = "null"
                    /\ rows[j].error \in {"json", "reused"})
      <4>1. rows'[j] = rows[j]
          BY <3>1, <3>2, <3>4 DEF Repaired
      <4> QED BY <4>1 DEF Status
    <3> QED BY <3>3, <3>4
  <2>2. st' = [j \in Ids |-> IF j \in S THEN "Pending" ELSE st[j]]
      BY <2>1
  <2>3. \A j \in S : st[j] = "Failed"
      OBVIOUS
  <2>4. held' = held
      BY <1>22 DEF Restart
  <2>5. Out!Rearm
    <3>1. S \in SUBSET Ids
        OBVIOUS
    <3> QED BY <3>1, <2>2, <2>3, <2>4 DEF Out!Rearm
  <2> QED BY <2>5 DEF Out!Next
<1>23. CASE UNCHANGED vars
    BY <1>23, NothingMoves DEF vars
<1> QED BY <1>1, <1>2, <1>3, <1>4, <1>5, <1>6, <1>7, <1>8, <1>9, <1>10, <1>11, <1>12,
           <1>13, <1>14, <1>15, <1>16, <1>17, <1>18, <1>19, <1>20, <1>21, <1>22, <1>23
        DEF Next, Step, Server

\* Every behaviour of the outbox, seen by the senders and the group, is one of OutgoingStatus.
THEOREM OutboxImplementsStatus == Spec => ImplementsStatus
  BY StatusInit, StatusStep, TypeCorrect, BookkeepingHolds, PTL
     DEF Spec, ImplementsStatus, Out!Spec
=============================================================================
