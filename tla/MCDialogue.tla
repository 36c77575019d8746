----------------------------- MODULE MCDialogue -----------------------------
(* Instances of Dialogue for TLC. *)
EXTENDS Dialogue, TLC

Limits == [s \in Steps |-> IF s = "start" THEN 1 ELSE 2]
Sym == Permutations(Accounts)
=============================================================================
