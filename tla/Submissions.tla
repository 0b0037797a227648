----------------------------- MODULE Submissions -----------------------------
(***************************************************************************)
(* What a submission does, as far as the judge can tell: how its           *)
(* compilation ends, and how the compiled program behaves on each test     *)
(* case.  Source text, inputs and outputs are left out: the judge only     *)
(* compares an output with the expected one, and a wait status with the    *)
(* statuses it knows.                                                      *)
(***************************************************************************)
EXTENDS Naturals, Sequences

CONSTANTS Compiles,   \* how a compilation may end: a subset of Compilations
          Programs,   \* how a program may behave on a case: a subset of Behaviours
          MaxCases    \* the largest number of test cases of a problem

\* "hang" is a compilation that never ends by itself.
Compilations == {"ok", "error", "hang"}

\* How a program ends when nothing stops it: it exits with code 0 or not, it
\* faults (SIGSEGV, SIGABRT, SIGFPE...), it allocates beyond RLIMIT_AS and
\* aborts ("hog"), it sleeps forever, or it computes forever, obeying SIGXCPU
\* ("spin") or having asked to ignore it ("spinOn").
Endings == {"exit0", "exit1", "fault", "hog", "block", "spin", "spinOn"}

\* reads: it reads its input up to the end of file before it ends;
\* long:  it prints more than a pipe holds (65536 bytes);
\* right: what it prints is the expected output, up to trailing blanks;
\* clones: it may clone itself before it ends, which the seccomp filter allows.
Behaviours ==
  [reads : BOOLEAN, long : BOOLEAN, right : BOOLEAN, clones : BOOLEAN, ends : Endings]

ASSUME SubmissionsAssumption ==
  /\ Compiles \subseteq Compilations
  /\ Programs \subseteq Behaviours
  /\ MaxCases \in Nat

\* The arguments of compile_and_judge: the code, and one behaviour per case.
Submissions ==
  [compile : Compiles, runs : UNION {[1..n -> Programs] : n \in 0..MaxCases}]

\* A program that solves its case: it prints the expected output and exits 0.
Correct(b) == b.right /\ b.ends = "exit0"

\* The status and failed_case of a JudgeResult; "none" before there is one.
Verdicts == {"AC", "WA", "TLE", "MLE", "RE"}
Answers == [status : Verdicts \cup {"CE", "none"}, failed : 0..MaxCases]
Answer(s, k) == [status |-> s, failed |-> k]
NoAnswer == Answer("none", 0)

=============================================================================
