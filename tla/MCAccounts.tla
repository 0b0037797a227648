------------------------------ MODULE MCAccounts ------------------------------
(***************************************************************************)
(* Instances of Accounts for TLC.                                          *)
(***************************************************************************)
EXTENDS Accounts, TLC

Alike == Permutations(Workers) \cup Permutations(Names \ {Admin})
           \cup Permutations(Passwords \ {AdminPassword}) \cup Permutations(Salts)

=============================================================================
