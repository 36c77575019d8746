------------------------------ MODULE MCGroups ------------------------------
(* Instances of Groups for TLC. *)
EXTENDS Groups
=============================================================================
