--------------------------- MODULE OutgoingStatus ---------------------------
(***************************************************************************)
(* What the outbox promises to whoever wrote a message: the UI state of    *)
(* each outgoing message (`OutgoingState` in store/mod.rs) and which of    *)
(* them the group really holds.  Outbox.tla is shown to implement it.      *)
(***************************************************************************)
CONSTANT Ids            \* clientMessageIds

VARIABLES status,       \* status[i]: what the sender is shown
          inGroup       \* the messages the group holds

vars == <<status, inGroup>>

Statuses == {"New", "Pending", "Sent", "Failed", "Executed"}

TypeOK == /\ status \in [Ids -> Statuses]
          /\ inGroup \subseteq Ids

Init == /\ status = [i \in Ids |-> "New"]
        /\ inGroup = {}

Become(i, from, to) == /\ status[i] \in from
                       /\ status' = [status EXCEPT ![i] = to]
                       /\ UNCHANGED inGroup

Enqueue(i) == Become(i, {"New"}, "Pending")

\* The group takes a message at most once, and only one somebody wrote.
Post(i) == /\ status[i] # "New"
           /\ i \notin inGroup
           /\ inGroup' = inGroup \cup {i}
           /\ UNCHANGED status

\* "Sent" is shown only for a message the group holds; it may correct "Failed".
Confirm(i) == /\ i \in inGroup
              /\ Become(i, {"Pending", "Failed"}, "Sent")

Fail(i) == Become(i, {"Pending"}, "Failed")

\* An in-chat command was executed: nothing is posted.
Execute(i) == Become(i, {"Pending", "Failed"}, "Executed")

\* The user's retry (one message) or the repair at start-up (several at once).
Rearm == \E S \in SUBSET Ids :
            /\ \A i \in S : status[i] = "Failed"
            /\ status' = [i \in Ids |-> IF i \in S THEN "Pending" ELSE status[i]]
            /\ UNCHANGED inGroup

Next == \/ \E i \in Ids : Enqueue(i) \/ Post(i) \/ Confirm(i) \/ Fail(i) \/ Execute(i)
        \/ Rearm

Spec == Init /\ [][Next]_vars
=============================================================================
