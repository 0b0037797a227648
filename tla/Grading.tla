------------------------------- MODULE Grading -------------------------------
(***************************************************************************)
(* What the judge promises, without processes, pipes, files or clocks: each *)
(* request is answered by one step with a verdict that the submission (or a *)
(* named failure of the machine) explains, and the verdict is that of the   *)
(* first case that is not accepted.                                         *)
(***************************************************************************)
EXTENDS Submissions

CONSTANTS Judges,     \* the threads of the server that judge
          MayFail     \* the system calls that may fail

VARIABLES phase, sub, answer
vars == <<phase, sub, answer>>

\* The verdicts a case may get.  TLE is always among them: on a loaded machine
\* any program may be found running after two seconds.
CaseVerdicts(b) ==
  {"TLE"}
    \cup (IF "pipe" \in MayFail THEN {"RE"} ELSE {})
    \cup (CASE b.ends = "exit0" /\ ~b.long -> {IF b.right THEN "AC" ELSE "WA"}
            [] b.ends \in {"exit1", "fault", "hog"} /\ ~b.long -> {"RE"}
            [] b.ends = "spinOn" /\ ~b.long -> {"MLE"}
            [] OTHER -> {})

\* The answers a submission may get.
Grades(s) ==
  {a \in Answers :
     \/ /\ a = Answer("CE", 0)
        /\ s.runs = <<>> \/ s.compile # "ok" \/ MayFail # {}
     \/ /\ a = Answer("AC", 0)
        /\ s.compile = "ok" /\ s.runs # <<>>
        /\ \A i \in 1..Len(s.runs) : "AC" \in CaseVerdicts(s.runs[i])
     \/ /\ s.compile = "ok"
        /\ a.failed \in 1..Len(s.runs)
        /\ a.status \in CaseVerdicts(s.runs[a.failed]) \ {"AC"}
        /\ \A i \in 1..(a.failed - 1) : "AC" \in CaseVerdicts(s.runs[i])}

Init ==
  /\ phase = [j \in Judges |-> "free"]
  /\ sub = [j \in Judges |-> [compile |-> "error", runs |-> <<>>]]
  /\ answer = [j \in Judges |-> NoAnswer]

Ask(j) ==
  /\ phase[j] = "free"
  /\ phase' = [phase EXCEPT ![j] = "judging"]
  /\ \E s \in Submissions : sub' = [sub EXCEPT ![j] = s]
  /\ answer' = [answer EXCEPT ![j] = NoAnswer]

Grade(j) ==
  /\ phase[j] = "judging"
  /\ phase' = [phase EXCEPT ![j] = "free"]
  /\ \E a \in Grades(sub[j]) : answer' = [answer EXCEPT ![j] = a]
  /\ UNCHANGED sub

Next == \E j \in Judges : Ask(j) \/ Grade(j)

Spec == Init /\ [][Next]_vars

=============================================================================
