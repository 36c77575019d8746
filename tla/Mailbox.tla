------------------------------ MODULE Mailbox ------------------------------
(***************************************************************************)
(* What the sync engine promises for one group: the local cache takes the  *)
(* group's messages in the order of seq, without gaps, each once, and the  *)
(* server is told "delivered" only about messages that are in the cache.   *)
(* Delivery.tla is shown to implement it.                                  *)
(***************************************************************************)
EXTENDS Naturals

VARIABLES published,   \* the server holds messages 1..published
          stored,      \* the seqs in the cache
          acked        \* the server takes 1..acked for delivered

vars == <<published, stored, acked>>

TypeOK == published \in Nat /\ acked \in Nat /\ stored \subseteq Nat

Init == published = 0 /\ stored = {} /\ acked = 0

Publish == published' = published + 1 /\ UNCHANGED <<stored, acked>>

Deliver == \E n \in 1..published :
              /\ stored \subseteq 1..n
              /\ stored' = 1..n
              /\ UNCHANGED <<published, acked>>

Confirm == \E n \in stored :
              /\ n > acked
              /\ acked' = n
              /\ UNCHANGED <<published, stored>>

Next == Publish \/ Deliver \/ Confirm

Spec == Init /\ [][Next]_vars
=============================================================================
