----------------------------- MODULE MCCatalogue -----------------------------
(***************************************************************************)
(* Instances of Seeding, with all of Catalogue, for TLC.                   *)
(***************************************************************************)
EXTENDS Seeding, TLC

\* A problem with two test cases, in place of "Sum A+B" with three.
SumSeed == <<[text |-> CHOOSE t \in SeedTexts : TRUE, cases |-> 2]>>

\* An earlier start has seeded the tables, and administrators have emptied them.
NoSeeds == <<>>

Alike == Permutations(Workers)

=============================================================================
