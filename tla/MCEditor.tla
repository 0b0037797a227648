------------------------------ MODULE MCEditor ------------------------------
(***************************************************************************)
(* The instance of Editor for TLC.                                         *)
(***************************************************************************)
EXTENDS Editor

=============================================================================
