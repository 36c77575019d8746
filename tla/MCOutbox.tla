------------------------------ MODULE MCOutbox ------------------------------
(* Instances of Outbox for TLC. *)
EXTENDS Outbox, TLC

\* Dispatcher tasks are interchangeable (safety runs only).
LoopSymmetry == Permutations(Loops)
=============================================================================
