----------------------------- MODULE MCSessions -----------------------------
(***************************************************************************)
(* Instances of Sessions for TLC.                                          *)
(***************************************************************************)
EXTENDS Sessions, TLC

Alike == Permutations(Workers) \cup Permutations(Users) \cup Permutations(Tokens \ Hasty)
           \cup Permutations(Nodes)

=============================================================================
