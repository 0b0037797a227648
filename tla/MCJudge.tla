------------------------------- MODULE MCJudge -------------------------------
(***************************************************************************)
(* Instances of Judge for TLC.                                             *)
(***************************************************************************)
EXTENDS Judge

P(reads, long, right, ends) ==
  [reads |-> reads, long |-> long, right |-> right, clones |-> FALSE, ends |-> ends]

\* Programs that read their input: one solves its case, one answers wrongly.
Solves == P(TRUE, FALSE, TRUE, "exit0")
Misses == P(TRUE, FALSE, FALSE, "exit0")
\* An endless loop, and a right answer that is longer than a pipe holds.
Spins == P(FALSE, FALSE, TRUE, "spin")
Floods == P(TRUE, TRUE, TRUE, "exit0")
\* A solution, and an endless sleep, that may leave a process behind.
Parts == [Solves EXCEPT !.clones = TRUE]
Hides == [P(FALSE, FALSE, TRUE, "block") EXCEPT !.clones = TRUE]

\* One program of each kind the verdict tells apart.
AllPrograms == {Solves, Misses, Floods, Parts, Hides} \cup {P(FALSE, FALSE, TRUE, e) : e \in Endings}
FewPrograms == {Solves, Misses, Spins}
Solving == {Solves}

=============================================================================
