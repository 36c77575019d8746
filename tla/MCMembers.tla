------------------------------ MODULE MCMembers -----------------------------
(* Instances of Members for TLC. *)
EXTENDS Members
=============================================================================
