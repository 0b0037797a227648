-------------------------- MODULE JudgeVerdictProofs --------------------------
(***************************************************************************)
(* No submission is accepted that does not solve every case, for any       *)
(* number of threads, any behaviour of the programs, and whatever          *)
(* system call fails; and unless it is fork, every answer is one that      *)
(* Grading allows.                                                         *)
(***************************************************************************)
EXTENDS JudgeProofs

\* The cases before the one at hand were solved.
Passed(j) ==
  pc[j] \in CaseSteps => \A i \in 1..(idx[j] - 1) : Correct(sub[j].runs[i])

\* A program's wait status 0 is its own.
ExitTrue(j) == pc[j] \in Running /\ proc[j] = "exit0" => Run(j).ends = "exit0"

\* So is the one the thread has collected, if it has a child at all.
HowTrue(j) ==
  pc[j] = "drain" => /\ how[j] # "none"
                     /\ how[j] = "exit0" /\ ~noPid[j] => Run(j).ends = "exit0"

Accepted(j) ==
  pc[j] \in {"clean", "done"} /\ answer[j].status = "AC" =>
    \A i \in 1..Len(sub[j].runs) : Correct(sub[j].runs[i])

\* The answer AC alone is not inductive: it rests on every case before it and
\* on the wait status that the thread holds.
AcAt(j) == Passed(j) /\ ExitTrue(j) /\ HowTrue(j) /\ Accepted(j)
AcInv == \A j \in Judges : AcAt(j)

\* What the steps of the others may do to a thread: kill or reap its child.
Same(j) ==
  /\ pc'[j] = pc[j] /\ sub'[j] = sub[j] /\ idx'[j] = idx[j] /\ how'[j] = how[j]
  /\ noPid'[j] = noPid[j] /\ answer'[j] = answer[j]
  /\ proc'[j] \in {proc[j], "none", "KILL"}

\* What AC rests on does not change by steps that leave the thread the same.
LEMMA Frame == ASSUME NEW j \in Judges, AcAt(j), Same(j) PROVE AcAt(j)'
  BY DEF AcAt, Passed, ExitTrue, HowTrue, Accepted, Same, Run

\* Outside the cases only an answer AC matters.
LEMMA Outside ==
  ASSUME NEW j \in Judges, pc'[j] \notin CaseSteps,
         pc'[j] \in {"clean", "done"} => answer'[j].status # "AC"
  PROVE  AcAt(j)'
  BY DEF AcAt, Passed, ExitTrue, HowTrue, Accepted, CaseSteps

\* Within a case nothing but the child and how it ended can change.
LEMMA Within ==
  ASSUME NEW j \in Judges, AcAt(j), pc[j] \in CaseSteps,
         pc'[j] \in CaseSteps \ {"drain"},
         sub'[j] = sub[j], idx'[j] = idx[j],
         proc'[j] = "exit0" => pc[j] \in Running /\ proc[j] = "exit0"
  PROVE  AcAt(j)'
  BY DEF AcAt, Passed, ExitTrue, HowTrue, Accepted, Run, CaseSteps, Running

\* AcInv is preserved by every step.
LEMMA AcStep == ASSUME TypeInv, ~BlankExpected, AcInv, [Next]_vars PROVE AcInv'
<1>t. /\ pc \in [Judges -> Steps] /\ idx \in [Judges -> 0..MaxCases]
      /\ sub \in [Judges -> Submissions \cup {[compile |-> "error", runs |-> <<>>]}]
      /\ noPid \in [Judges -> BOOLEAN] /\ how \in [Judges -> Outcomes]
      /\ answer \in [Judges -> Answers]
      /\ proc \in [Judges -> Alive \cup Zombies \cup {"none"}] /\ TypeOS
  BY DEF TypeInv, TypeOK, TypeOS
<1>a. \A j \in Judges : AcAt(j)
  BY DEF AcInv
<1>c. \A j \in Judges : pc[j] \notin Compiling \cup Running => proc[j] = "none"
  BY DEF TypeInv, ChildInv
<1>ce. \A k : Answer("CE", k).status # "AC" /\ Answer("RE", k).status # "AC"
  BY DEF Answer
<1> USE DEF Goto
<1>1. ASSUME NEW j \in Judges, Submit(j) PROVE AcInv'
  <2>1. \A k \in Judges \ {j} : Same(k)
    BY <1>1, <1>t DEF Submit, Same, osVars
  <2>2. AcAt(j)'
    BY <1>1, <1>t, <1>ce, Outside DEF Submit, CaseSteps, Running, osVars
  <2>3. QED BY <1>a, <2>1, <2>2, Frame DEF AcInv
<1>2. ASSUME NEW j \in Judges, MakeTempDir(j) PROVE AcInv'
  <2>1. \A k \in Judges \ {j} : Same(k)
    BY <1>2, <1>t DEF MakeTempDir, Same, CompileError, osVars
  <2>2. pc'[j] = "write" \/ (pc'[j] = "done" /\ answer'[j] = Answer("CE", 0))
    <3>1. CASE CompileError(j, "begin")
      BY <1>t, <3>1 DEF CompileError
    <3>2. CASE pc' = [pc EXCEPT ![j] = "write"]
      BY <1>t, <3>2
    <3>3. QED BY <1>2, <3>1, <3>2 DEF MakeTempDir
  <2>3. AcAt(j)'
    BY <1>ce, <2>2, Outside DEF CaseSteps, Running
  <2>4. QED BY <1>a, <2>1, <2>3, Frame DEF AcInv
<1>3. ASSUME NEW j \in Judges, WriteSource(j) PROVE AcInv'
  <2>1. \A k \in Judges \ {j} : Same(k)
    BY <1>3, <1>t DEF WriteSource, Same, CompileError, osVars
  <2>2. pc'[j] = "cmdPipe" \/ (pc'[j] = "done" /\ answer'[j] = Answer("CE", 0))
    <3>1. CASE CompileError(j, "write")
      BY <1>t, <3>1 DEF CompileError
    <3>2. CASE pc' = [pc EXCEPT ![j] = "cmdPipe"]
      BY <1>t, <3>2
    <3>3. QED BY <1>3, <3>1, <3>2 DEF WriteSource
  <2>3. AcAt(j)'
    BY <1>ce, <2>2, Outside DEF CaseSteps, Running
  <2>4. QED BY <1>a, <2>1, <2>3, Frame DEF AcInv
<1>4. ASSUME NEW j \in Judges, OpenCommandPipe(j) PROVE AcInv'
  <2>1. \A k \in Judges \ {j} : Same(k)
    BY <1>4, <1>t DEF OpenCommandPipe, Same
  <2>2. AcAt(j)'
    BY <1>4, <1>t, <1>ce, Outside DEF OpenCommandPipe, CaseSteps, Running
  <2>3. QED BY <1>a, <2>1, <2>2, Frame DEF AcInv
<1>5. ASSUME NEW j \in Judges, ForkCompiler(j) PROVE AcInv'
  <2>1. \A k \in Judges \ {j} : Same(k)
    BY <1>5, <1>t DEF ForkCompiler, Same, Fork, osVars
  <2>2. AcAt(j)'
    BY <1>5, <1>t, <1>ce, Outside DEF ForkCompiler, CaseSteps, Running, Fork, osVars
  <2>3. QED BY <1>a, <2>1, <2>2, Frame DEF AcInv
<1>6. ASSUME NEW j \in Judges, CloseCommandPipe(j) PROVE AcInv'
  <2>1. \A k \in Judges \ {j} : Same(k)
    BY <1>6, <1>t DEF CloseCommandPipe, Same
  <2>2. AcAt(j)'
    BY <1>6, <1>t, <1>ce, Outside DEF CloseCommandPipe, CaseSteps, Running
  <2>3. QED BY <1>a, <2>1, <2>2, Frame DEF AcInv
<1>7. ASSUME NEW j \in Judges, WaitCompiler(j) PROVE AcInv'
  <2> DEFINE S == Awaited(j, noPid[j])
  <2>1. S \in SUBSET Judges
    BY AwaitedType
  <2>2. \A k \in Judges : proc'[k] \in {proc[k], "none"}
    BY <1>7, <1>t, <2>1, ReapedEffect DEF WaitCompiler, NoChild, NotYet, osVars
  <2>3. \A k \in Judges \ {j} : Same(k)
    BY <1>7, <1>t, <2>2 DEF WaitCompiler, Same
  <2>4. AcAt(j)'
    BY <1>7, <1>t, Outside DEF WaitCompiler, CaseSteps, Running
  <2>5. QED BY <1>a, <2>3, <2>4, Frame DEF AcInv
<1>8. ASSUME NEW j \in Judges, ReadCommand(j) PROVE AcInv'
  <2> DEFINE S == Awaited(j, noPid[j])
  <2>1. S \in SUBSET Judges
    BY AwaitedType
  <2>2. \A k \in Judges : proc'[k] \in {proc[k], "none", "KILL"}
    BY <1>8, <1>t, KillEnds DEF ReadCommand, osVars
  <2>3. \A k \in Judges \ {j} : Same(k)
    BY <1>8, <1>t, <2>2 DEF ReadCommand, Same
  <2>4. AcAt(j)'
    BY <1>8, <1>t, Outside DEF ReadCommand, CaseSteps, Running
  <2>5. QED BY <1>a, <2>3, <2>4, Frame DEF AcInv
<1>9. ASSUME NEW j \in Judges, StatProgram(j) PROVE AcInv'
  <2>1. \A k \in Judges \ {j} : Same(k)
    BY <1>9, <1>t DEF StatProgram, Same, CompileError, osVars
  <2>2. AcAt(j)'
    <3>1. CASE bin[j]
      <4>1. pc'[j] = "pipes" /\ idx'[j] = 1
        BY <1>9, <1>t, <3>1 DEF StatProgram
      <4>2. Passed(j)'
        BY <4>1 DEF Passed
      <4>3. QED BY <4>1, <4>2 DEF AcAt, ExitTrue, HowTrue, Accepted, Running
    <3>2. CASE ~bin[j]
      <4>1. pc'[j] = "done" /\ answer'[j] = Answer("CE", 0)
        BY <1>9, <1>t, <3>2 DEF StatProgram, CompileError
      <4>2. QED BY <1>ce, <4>1, Outside DEF CaseSteps, Running
    <3>3. QED BY <3>1, <3>2
  <2>3. QED BY <1>a, <2>1, <2>2, Frame DEF AcInv
<1>10. ASSUME NEW j \in Judges, OpenPipes(j) PROVE AcInv'
  <2>1. \A k \in Judges \ {j} : Same(k)
    BY <1>10, <1>t DEF OpenPipes, Same
  <2>2. pc[j] = "pipes" /\ UNCHANGED <<sub, idx, proc>> /\ proc[j] = "none"
    BY <1>10, <1>c DEF OpenPipes, Compiling, Running
  <2>3. CASE pc' = [pc EXCEPT ![j] = "fork"]
    <3>1. AcAt(j)'
      BY <1>a, <1>t, <2>2, <2>3, Within DEF CaseSteps, Running
    <3>2. QED BY <1>a, <2>1, <3>1, Frame DEF AcInv
  <2>4. CASE pc' = [pc EXCEPT ![j] = "clean"] /\ answer' = [answer EXCEPT ![j] = Answer("RE", idx[j])]
    <3>1. AcAt(j)'
      BY <1>t, <1>ce, <2>4, Outside DEF CaseSteps, Running
    <3>2. QED BY <1>a, <2>1, <3>1, Frame DEF AcInv
  <2>5. QED BY <1>10, <2>3, <2>4 DEF OpenPipes
<1>11. ASSUME NEW j \in Judges, ForkProgram(j) PROVE AcInv'
  <2>1. \A k \in Judges \ {j} : Same(k)
    BY <1>11, <1>t DEF ForkProgram, Same, Fork, osVars
  <2>2. pc[j] = "fork" /\ pc'[j] = "close" /\ UNCHANGED <<sub, idx>>
    BY <1>11, <1>t DEF ForkProgram
  <2>3. proc[j] = "none" /\ proc'[j] \in {"program", "none"}
    BY <1>11, <1>t, <1>c, <2>2 DEF ForkProgram, Fork, osVars, Compiling, Running
  <2>4. AcAt(j)'
    BY <1>a, <2>2, <2>3, Within DEF CaseSteps, Running
  <2>5. QED BY <1>a, <2>1, <2>4, Frame DEF AcInv
<1>12. ASSUME NEW j \in Judges, CloseChildEnds(j) PROVE AcInv'
  <2>1. \A k \in Judges \ {j} : Same(k)
    BY <1>12, <1>t DEF CloseChildEnds, Same
  <2>2. pc[j] = "close" /\ pc'[j] = "feed" /\ UNCHANGED <<sub, idx, proc>>
    BY <1>12, <1>t DEF CloseChildEnds
  <2>3. AcAt(j)'
    BY <1>a, <2>2, Within DEF CaseSteps, Running
  <2>4. QED BY <1>a, <2>1, <2>3, Frame DEF AcInv
<1>13. ASSUME NEW j \in Judges, FeedInput(j) PROVE AcInv'
  <2>1. \A k \in Judges \ {j} : Same(k)
    BY <1>13, <1>t DEF FeedInput, Same
  <2>2. pc[j] = "feed" /\ pc'[j] = "poll" /\ UNCHANGED <<sub, idx, proc>>
    BY <1>13, <1>t DEF FeedInput
  <2>3. AcAt(j)'
    BY <1>a, <2>2, Within DEF CaseSteps, Running
  <2>4. QED BY <1>a, <2>1, <2>3, Frame DEF AcInv
<1>14. ASSUME NEW j \in Judges, PollProgram(j) PROVE AcInv'
  <2> DEFINE S == Awaited(j, noPid[j])
  <2>1. S \in SUBSET Judges
    BY AwaitedType
  <2>2. \A k \in Judges : proc'[k] \in {proc[k], "none"}
    BY <1>14, <1>t, <2>1, ReapedEffect DEF PollProgram, NoChild, NotYet, osVars
  <2>3. \A k \in Judges \ {j} : Same(k)
    BY <1>14, <1>t, <2>2 DEF PollProgram, Same
  <2>4. pc[j] = "poll" /\ UNCHANGED <<sub, idx, noPid>>
    BY <1>14 DEF PollProgram
  <2>5. CASE pc' = [pc EXCEPT ![j] = "check"]
    <3>1. pc'[j] = "check"
      BY <1>t, <2>5
    <3>2. AcAt(j)'
      BY <1>a, <2>2, <2>4, <3>1, Within DEF CaseSteps, Running
    <3>3. QED BY <1>a, <2>3, <3>2, Frame DEF AcInv
  <2>6. CASE pc' = [pc EXCEPT ![j] = "drain"]
    <3>1. pc'[j] = "drain"
      BY <1>t, <2>6
    <3>2. Passed(j)' /\ ExitTrue(j)' /\ Accepted(j)'
      BY <1>a, <2>4, <3>1 DEF AcAt, Passed, ExitTrue, Accepted, CaseSteps, Running
    <3>3. HowTrue(j)'
      <4>1. CASE Reaped(S) /\ how' = [how EXCEPT ![j] = IF noPid[j] THEN "lost" ELSE proc[j]]
        <5>1. ~noPid[j] => S = {j}
          BY DEF Awaited
        <5>2. ~noPid[j] => proc[j] \in Zombies
          BY <1>t, <2>1, <4>1, <5>1, ReapedEffect
        <5>3. how'[j] # "none"
          BY <1>t, <4>1, <5>2, ZombiesAreStates
        <5>4. how'[j] = "exit0" /\ ~noPid'[j] => Run(j).ends = "exit0"
          BY <1>a, <1>t, <2>4, <4>1 DEF AcAt, ExitTrue, Running
        <5>5. QED BY <2>4, <5>3, <5>4 DEF HowTrue, Run
      <4>2. CASE \E h \in IF noPid[j] THEN Zombies ELSE {"lost"} : how' = [how EXCEPT ![j] = h]
        <5>1. PICK h \in IF noPid[j] THEN Zombies ELSE {"lost"} : how' = [how EXCEPT ![j] = h]
          BY <4>2
        <5>2. how'[j] # "none" /\ (how'[j] = "exit0" => noPid[j])
          BY <1>t, <5>1, ZombiesAreStates
        <5>3. QED BY <2>4, <5>2 DEF HowTrue
      <4>3. QED BY <1>14, <1>t, <3>1, <4>1, <4>2 DEF PollProgram
    <3>4. QED BY <1>a, <2>3, <3>2, <3>3, Frame DEF AcInv, AcAt
  <2>7. QED BY <1>14, <2>5, <2>6 DEF PollProgram
<1>15. ASSUME NEW j \in Judges, CheckElapsed(j) PROVE AcInv'
  <2> DEFINE S == Awaited(j, noPid[j])
  <2>1. S \in SUBSET Judges
    BY AwaitedType
  <2>2. \A k \in Judges : proc'[k] \in {proc[k], "none", "KILL"}
    BY <1>15, <1>t, KillEnds DEF CheckElapsed, osVars
  <2>3. \A k \in Judges \ {j} : Same(k)
    BY <1>15, <1>t, <2>2 DEF CheckElapsed, Same
  <2>4. pc[j] = "check" /\ UNCHANGED <<sub, idx, noPid>>
    BY <1>15 DEF CheckElapsed
  <2>5. CASE pc' = [pc EXCEPT ![j] = "poll"]
    <3>1. pc'[j] = "poll" /\ proc'[j] = proc[j]
      BY <1>15, <1>t, <2>5 DEF CheckElapsed, osVars
    <3>2. AcAt(j)'
      BY <1>a, <2>4, <3>1, Within DEF CaseSteps, Running
    <3>3. QED BY <1>a, <2>3, <3>2, Frame DEF AcInv
  <2>6. CASE pc' = [pc EXCEPT ![j] = "drain"]
    <3>1. pc'[j] = "drain" /\ how'[j] = "killed"
      BY <1>15, <1>t, <2>6 DEF CheckElapsed
    <3>2. AcAt(j)'
      BY <1>a, <2>4, <3>1
      DEF AcAt, Passed, ExitTrue, HowTrue, Accepted, CaseSteps, Running
    <3>3. QED BY <1>a, <2>3, <3>2, Frame DEF AcInv
  <2>7. QED BY <1>15, <2>5, <2>6 DEF CheckElapsed
<1>16. ASSUME NEW j \in Judges, Drain(j) PROVE AcInv'
  <2>1. \A k \in Judges \ {j} : Same(k)
    BY <1>16, <1>t DEF Drain, Same, osVars
  <2> DEFINE v == Verdict(j)
              more == v = "AC" /\ ~LastCase(j)
  <2>2. /\ pc[j] = "drain" /\ UNCHANGED <<sub, proc>>
        /\ pc'[j] = IF more THEN "pipes" ELSE "clean"
        /\ idx'[j] = IF more THEN idx[j] + 1 ELSE idx[j]
        /\ answer'[j] = IF more THEN answer[j] ELSE Answer(v, IF v = "AC" THEN 0 ELSE idx[j])
    BY <1>16, <1>t DEF Drain, osVars
  <2>3. idx[j] \in 1..Len(sub[j].runs) /\ Len(sub[j].runs) \in Nat
    BY <1>t, <2>2, RunsLength DEF TypeInv, AtCase, CaseSteps
  <2>4. v = "AC" => Correct(Run(j))
    <3>1. how[j] \in Zombies \cup {"killed", "lost"}
      BY <1>a, <1>t, <2>2 DEF AcAt, HowTrue, Outcomes
    <3>2. v = "AC" => how[j] = "exit0" /\ OutputMatches(j)
      BY <3>1 DEF Verdict, Zombies
    <3>3. OutputMatches(j) => ~noPid[j] /\ Run(j).right
      BY DEF OutputMatches
    <3>4. QED BY <1>a, <2>2, <3>2, <3>3 DEF AcAt, HowTrue, Correct
  <2>5. v = "AC" => \A i \in 1..idx[j] : Correct(sub[j].runs[i])
    <3>1. \A i \in 1..(idx[j] - 1) : Correct(sub[j].runs[i])
      BY <1>a, <2>2 DEF AcAt, Passed, CaseSteps
    <3>2. QED BY <2>3, <2>4, <3>1 DEF Run
  <2>6. AcAt(j)'
    <3>1. CASE more
      BY <2>2, <2>3, <2>5, <3>1 DEF AcAt, Passed, ExitTrue, HowTrue, Accepted, Running
    <3>2. CASE ~more
      <4>1. pc'[j] = "clean" /\ answer'[j].status = v
        BY <2>2, <3>2 DEF Answer
      <4>2. v = "AC" => idx[j] = Len(sub[j].runs)
        BY <3>2 DEF LastCase
      <4>3. QED BY <2>2, <2>5, <4>1, <4>2
                DEF AcAt, Passed, ExitTrue, HowTrue, Accepted, CaseSteps, Running
    <3>3. QED BY <3>1, <3>2
  <2>7. QED BY <1>a, <2>1, <2>6, Frame DEF AcInv
<1>17. ASSUME NEW j \in Judges, RemoveTempDir(j) PROVE AcInv'
  <2>1. \A k \in Judges \ {j} : Same(k)
    BY <1>17, <1>t DEF RemoveTempDir, Same, osVars
  <2>2. AcAt(j)'
    BY <1>17, <1>a, <1>t
    DEF RemoveTempDir, AcAt, Passed, ExitTrue, HowTrue, Accepted, CaseSteps, Running
  <2>3. QED BY <1>a, <2>1, <2>2, Frame DEF AcInv
<1>18. ASSUME NEW j \in Judges, CompilerExit(j) PROVE AcInv'
  <2>1. \A k \in Judges \ {j} : Same(k)
    BY <1>18, <1>t DEF CompilerExit, Exit, Same
  <2>2. pc[j] \in Compiling /\ pc'[j] = pc[j]
    BY <1>18 DEF CompilerExit, TypeInv, ChildInv
  <2>3. AcAt(j)'
    BY <2>2, Outside DEF CaseSteps, Running, Compiling
  <2>4. QED BY <1>a, <2>1, <2>3, Frame DEF AcInv
<1>19. ASSUME NEW j \in Judges, ProgramExit(j) PROVE AcInv'
  <2>1. \A k \in Judges \ {j} : Same(k)
    BY <1>19, <1>t DEF ProgramExit, Exit, Same, local
  <2>2. pc[j] \in Running /\ UNCHANGED <<pc, sub, idx, how, noPid, answer>>
    BY <1>19 DEF ProgramExit, Ends, GoesOn, local, TypeInv, ChildInv
  <2>3. proc'[j] = IF Run(j).ends = "hog" THEN "fault" ELSE Run(j).ends
    BY <1>19, <1>t DEF ProgramExit, Exit
  <2>4. AcAt(j)'
    BY <1>a, <2>2, <2>3 DEF AcAt, Passed, ExitTrue, HowTrue, Accepted, Run, Running
  <2>5. QED BY <1>a, <2>1, <2>4, Frame DEF AcInv
<1>20. ASSUME NEW j \in Judges, KernelLimit(j) PROVE AcInv'
  <2>1. \A k \in Judges \ {j} : Same(k)
    BY <1>20, <1>t DEF KernelLimit, Exit, Same, local
  <2>2. UNCHANGED <<pc, sub, idx, how, noPid, answer>>
    BY <1>20 DEF KernelLimit, local
  <2>3. proc'[j] \in {"KILL", "XCPU"}
    BY <1>20, <1>t DEF KernelLimit, Exit
  <2>4. AcAt(j)'
    BY <1>a, <2>2, <2>3 DEF AcAt, Passed, ExitTrue, HowTrue, Accepted, Run
  <2>5. QED BY <1>a, <2>1, <2>4, Frame DEF AcInv
<1>21. CASE Tick
  BY <1>21, <1>a, Frame DEF Tick, local, osVars, Same, AcInv
<1>22. CASE UNCHANGED vars
  BY <1>22, <1>a, Frame DEF vars, Same, AcInv
<1>23. CASE LeftMoves
  BY <1>23, <1>a, <1>t, Frame, LeftEffect DEF local, Same, AcInv
<1>24. QED
  BY <1>1, <1>2, <1>3, <1>4, <1>5, <1>6, <1>7, <1>8, <1>9, <1>10,
     <1>11, <1>12, <1>13, <1>14, <1>15, <1>16, <1>17, <1>18, <1>19, <1>20, <1>21, <1>22, <1>23
  DEF Next, Thread, Child, LeftMoves

\* A submission is accepted only if it solves every case (judge_single 241-265,
\* compile_and_judge 307-324), unless the expected output may be blank.
THEOREM AcIsSound == Spec => []AcSound
<1>1. CASE BlankExpected
  <2>1. AcSound
    BY <1>1 DEF AcSound
  <2>2. QED BY <2>1, PTL
<1>2. CASE ~BlankExpected
  <2>1. Init => AcInv
    BY DEF Init, AcInv, AcAt, Passed, ExitTrue, HowTrue, Accepted, CaseSteps, Running
  <2>2. TypeInv /\ AcInv /\ [Next]_vars => AcInv'
    BY <1>2, AcStep
  <2>3. AcInv => AcSound
    BY DEF AcInv, AcAt, Accepted, AcSound
  <2>4. QED BY <2>1, <2>2, <2>3, TypeInvariant, PTL DEF Spec
<1>3. QED BY <1>1, <1>2

-----------------------------------------------------------------------------
\* The abstract specification speaks of the same submissions and answers.
LEMMA SameWords ==
  /\ Promised!Answers = Answers /\ Promised!Submissions = Submissions
  /\ \A v, k : Promised!Answer(v, k) = Answer(v, k)
  /\ Promised!NoAnswer = NoAnswer
  BY DEF Promised!Answers, Answers, Promised!Verdicts, Verdicts, Promised!Submissions, Submissions,
     Promised!Answer, Answer, Promised!NoAnswer, NoAnswer

\* A wait status of a program, and the endings it may come from.
Explained(j, h) ==
  h \in Zombies \ {"XCPU"} =>
    /\ ~Run(j).long
    /\ Run(j).ends \in (IF h = "fault" THEN {"fault", "hog"}
                        ELSE IF h = "KILL" THEN {"spinOn"} ELSE {h})

\* Only a successful compilation leaves a program, and it always does.
Built(j) ==
  /\ bin[j] => sub[j].compile = "ok"
  /\ pc[j] \in CaseSteps \cup {"clean"} => bin[j]
  /\ pc[j] \in Compiling \cup {"stat"} /\ MayFail = {} /\ sub[j].compile = "ok" =>
       bin[j] \/ proc[j] = "compiler"

\* The cases before the one at hand were accepted, and how the one at hand ended
\* is the program's doing; what is about to be answered is allowed.
Judged(j) ==
  /\ pc[j] \in CaseSteps =>
       \A i \in 1..(idx[j] - 1) : "AC" \in Promised!CaseVerdicts(sub[j].runs[i])
  /\ pc[j] \in Running => Explained(j, proc[j])
  /\ pc[j] = "drain" => how[j] # "none" /\ Explained(j, how[j])
  /\ pc[j] = "clean" => answer[j] \in Promised!Grades(sub[j])

GradeAt(j) == Built(j) /\ Judged(j)
GradeInv == \A j \in Judges : GradeAt(j)

\* Unless a fork fails, a step changes nothing of any other thread.
Untouched(j) ==
  /\ pc'[j] = pc[j] /\ sub'[j] = sub[j] /\ idx'[j] = idx[j] /\ how'[j] = how[j]
  /\ answer'[j] = answer[j] /\ bin'[j] = bin[j] /\ proc'[j] = proc[j]

\* What a grade rests on does not change for a thread that is not touched.
LEMMA UntouchedKeeps == ASSUME NEW j \in Judges, GradeAt(j), Untouched(j) PROVE GradeAt(j)'
  BY DEF GradeAt, Built, Judged, Explained, Run, Untouched

\* A step that touches one thread preserves GradeInv if it does so for that thread.
LEMMA OneTouched ==
  ASSUME GradeInv, NEW j \in Judges, \A k \in Judges \ {j} : Untouched(k), GradeAt(j)'
  PROVE  GradeInv'
  BY UntouchedKeeps DEF GradeInv

\* The verdict that is taken from the wait status and the output.
LEMMA VerdictAllowed ==
  ASSUME NEW j \in Judges, ~noPid[j], how[j] \in Zombies \cup {"killed"}, Explained(j, how[j])
  PROVE  Verdict(j) \in Promised!CaseVerdicts(Run(j)) /\ Verdict(j) \in Verdicts
<1>1. CASE how[j] \in {"killed", "XCPU"}
  BY <1>1 DEF Verdict, Promised!CaseVerdicts, Verdicts
<1>2. CASE how[j] = "KILL"
  BY <1>2 DEF Verdict, Promised!CaseVerdicts, Verdicts, Explained, Zombies
<1>3. CASE how[j] \in {"fault", "exit1"}
  BY <1>3 DEF Verdict, Promised!CaseVerdicts, Verdicts, Explained, Zombies
<1>4. CASE how[j] = "exit0"
  BY <1>4 DEF Verdict, OutputMatches, Promised!CaseVerdicts, Verdicts, Explained, Zombies
<1>5. QED BY <1>1, <1>2, <1>3, <1>4 DEF Zombies

\* GradeInv is preserved by every step.
LEMMA GradeStep ==
  ASSUME "fork" \notin MayFail, TypeInv, HoldInv, LeftInv, LateInv, GradeInv, [Next]_vars
  PROVE  GradeInv'
<1>t. /\ pc \in [Judges -> Steps] /\ idx \in [Judges -> 0..MaxCases]
      /\ sub \in [Judges -> Submissions \cup {[compile |-> "error", runs |-> <<>>]}]
      /\ how \in [Judges -> Outcomes] /\ bin \in [Judges -> BOOLEAN]
      /\ answer \in [Judges -> Answers] /\ TypeOS
      /\ proc \in [Judges -> Alive \cup Zombies \cup {"none"}]
  BY DEF TypeInv, TypeOK, TypeOS
<1>a. \A j \in Judges : GradeAt(j)
  BY DEF GradeInv
<1>w. \A j \in Judges : ~noPid[j] /\ Awaited(j, noPid[j]) = {j}
  BY DEF LateInv, LateAt, Awaited
<1>c. \A j \in Judges : /\ pc[j] \notin Compiling \cup Running => proc[j] = "none"
                        /\ proc[j] = "compiler" => pc[j] \in Compiling
                        /\ proc[j] = "program" => pc[j] \in Running
  BY DEF TypeInv, ChildInv
<1> USE DEF Goto
<1>1. ASSUME NEW j \in Judges, Submit(j) PROVE GradeInv'
  <2>1. \A k \in Judges \ {j} : Untouched(k)
    BY <1>1, <1>t DEF Submit, Untouched, osVars
  <2>2. pc'[j] = "begin" /\ ~bin'[j]
    BY <1>1, <1>t DEF Submit, LeftInv, LeftAt, Files
  <2>3. GradeAt(j)'
    BY <2>2 DEF GradeAt, Built, Judged, CaseSteps, Running, Compiling
  <2>4. QED BY <2>1, <2>3, OneTouched
<1>2. ASSUME NEW j \in Judges, MakeTempDir(j) \/ WriteSource(j) PROVE GradeInv'
  <2>1. \A k \in Judges \ {j} : Untouched(k)
    BY <1>2, <1>t DEF MakeTempDir, WriteSource, CompileError, Untouched, osVars
  <2>2. /\ pc'[j] \in {"write", "cmdPipe", "done"} /\ sub'[j] = sub[j]
        /\ bin'[j] => bin[j]
    BY <1>2, <1>t DEF MakeTempDir, WriteSource, CompileError
  <2>3. GradeAt(j)'
    BY <1>a, <2>2 DEF GradeAt, Built, Judged, CaseSteps, Running, Compiling
  <2>4. QED BY <2>1, <2>3, OneTouched
<1>3. ASSUME NEW j \in Judges, OpenCommandPipe(j) PROVE GradeInv'
  <2>1. \A k \in Judges \ {j} : Untouched(k)
    BY <1>3, <1>t DEF OpenCommandPipe, Untouched
  <2>2. pc'[j] = "cmdFork" \/ (pc'[j] = "stat" /\ MayFail # {})
    BY <1>3, <1>t DEF OpenCommandPipe
  <2>3. GradeAt(j)'
    BY <1>3, <1>a, <2>2
    DEF OpenCommandPipe, GradeAt, Built, Judged, CaseSteps, Running, Compiling
  <2>4. QED BY <2>1, <2>3, OneTouched
<1>4. ASSUME NEW j \in Judges, ForkCompiler(j) PROVE GradeInv'
  <2>1. \A k \in Judges \ {j} : Untouched(k)
    BY <1>4, <1>t DEF ForkCompiler, Fork, Untouched
  <2>2. pc'[j] = "cmdClose" /\ proc'[j] = "compiler" /\ UNCHANGED <<sub, bin>>
    BY <1>4, <1>t DEF ForkCompiler, Fork
  <2>3. GradeAt(j)'
    BY <1>a, <2>2 DEF GradeAt, Built, Judged, CaseSteps, Running, Compiling
  <2>4. QED BY <2>1, <2>3, OneTouched
<1>5. ASSUME NEW j \in Judges, CloseCommandPipe(j) PROVE GradeInv'
  <2>1. \A k \in Judges \ {j} : Untouched(k)
    BY <1>5, <1>t DEF CloseCommandPipe, Untouched
  <2>2. GradeAt(j)'
    BY <1>5, <1>t, <1>a
    DEF CloseCommandPipe, GradeAt, Built, Judged, CaseSteps, Running, Compiling
  <2>3. QED BY <2>1, <2>2, OneTouched
<1>6. ASSUME NEW j \in Judges, WaitCompiler(j) PROVE GradeInv'
  <2>1. /\ \A k \in Judges \ {j} : proc'[k] = proc[k]
        /\ proc[j] = "compiler" => proc'[j] = "compiler"
    BY <1>6, <1>t, <1>w, ReapedEffect DEF WaitCompiler, NoChild, NotYet, osVars, Zombies
  <2>2. \A k \in Judges \ {j} : Untouched(k)
    BY <1>6, <1>t, <2>1 DEF WaitCompiler, Untouched
  <2>3. GradeAt(j)'
    BY <1>6, <1>t, <1>a, <2>1
    DEF WaitCompiler, GradeAt, Built, Judged, CaseSteps, Running, Compiling
  <2>4. QED BY <2>2, <2>3, OneTouched
<1>7. ASSUME NEW j \in Judges, ReadCommand(j) PROVE GradeInv'
  <2>1. KillAndReap(j, noPid[j]) \/ UNCHANGED <<proc, writers>>
    BY <1>7 DEF ReadCommand, osVars
  <2>2. \A k \in Judges \ {j} : proc'[k] = proc[k]
    BY <1>t, <1>w, <2>1, KillOwn
  <2>3. \A k \in Judges \ {j} : Untouched(k)
    BY <1>7, <1>t, <2>2 DEF ReadCommand, Untouched
  <2>4. proc[j] # "compiler"
    BY <1>7 DEF ReadCommand, Closed, HoldInv, CompilerHolds
  <2>5. pc[j] = "cmdRead" /\ pc'[j] \in {"stat", "cmdWait"} /\ UNCHANGED <<sub, bin>>
    BY <1>7, <1>t DEF ReadCommand
  <2>6. GradeAt(j)'
    BY <1>a, <2>4, <2>5 DEF GradeAt, Built, Judged, CaseSteps, Running, Compiling
  <2>7. QED BY <2>3, <2>6, OneTouched
<1>8. ASSUME NEW j \in Judges, StatProgram(j) PROVE GradeInv'
  <2>1. \A k \in Judges \ {j} : Untouched(k)
    BY <1>8, <1>t DEF StatProgram, CompileError, Untouched, osVars
  <2>2. CASE bin[j]
    <3>1. pc'[j] = "pipes" /\ idx'[j] = 1 /\ UNCHANGED <<sub, bin>>
      BY <1>8, <1>t, <2>2 DEF StatProgram
    <3>2. GradeAt(j)'
      BY <1>a, <2>2, <3>1 DEF GradeAt, Built, Judged, CaseSteps, Running, Compiling
    <3>3. QED BY <2>1, <3>2, OneTouched
  <2>3. CASE ~bin[j]
    <3>1. pc'[j] = "done" /\ ~bin'[j]
      BY <1>8, <1>t, <2>3 DEF StatProgram, CompileError
    <3>2. GradeAt(j)'
      BY <3>1 DEF GradeAt, Built, Judged, CaseSteps, Running, Compiling
    <3>3. QED BY <2>1, <3>2, OneTouched
  <2>4. QED BY <2>2, <2>3
<1>9. ASSUME NEW j \in Judges, OpenPipes(j) PROVE GradeInv'
  <2>1. \A k \in Judges \ {j} : Untouched(k)
    BY <1>9, <1>t DEF OpenPipes, Untouched
  <2>2. pc[j] = "pipes" /\ UNCHANGED <<sub, bin, idx, proc, how>>
    BY <1>9 DEF OpenPipes
  <2>3. CASE pc' = [pc EXCEPT ![j] = "fork"]
    <3>1. GradeAt(j)'
      BY <1>a, <1>t, <2>2, <2>3 DEF GradeAt, Built, Judged, CaseSteps, Running, Compiling
    <3>2. QED BY <2>1, <3>1, OneTouched
  <2>4. CASE /\ pc' = [pc EXCEPT ![j] = "clean"] /\ "pipe" \in MayFail
             /\ answer' = [answer EXCEPT ![j] = Answer("RE", idx[j])]
    <3>1. pc'[j] = "clean" /\ answer'[j] = Answer("RE", idx[j])
      BY <1>t, <2>4
    <3>2. idx[j] \in 1..Len(sub[j].runs) /\ Answer("RE", idx[j]) \in Answers
      BY <1>t, <2>2, AnswerType DEF TypeInv, AtCase, CaseSteps, Verdicts
    <3>3. "RE" \in Promised!CaseVerdicts(Run(j))
      BY <2>4 DEF Promised!CaseVerdicts
    <3>4. /\ sub[j].compile = "ok"
          /\ \A i \in 1..(idx[j] - 1) : "AC" \in Promised!CaseVerdicts(sub[j].runs[i])
      BY <1>a, <2>2 DEF GradeAt, Built, Judged, CaseSteps
    <3>5. Answer("RE", idx[j]) \in Promised!Grades(sub[j])
      BY <3>2, <3>3, <3>4, SameWords DEF Promised!Grades, Answer, Run
    <3>6. GradeAt(j)'
      BY <1>a, <2>2, <3>1, <3>5 DEF GradeAt, Built, Judged, CaseSteps, Running, Compiling
    <3>7. QED BY <2>1, <3>6, OneTouched
  <2>5. QED BY <1>9, <2>3, <2>4 DEF OpenPipes
<1>10. ASSUME NEW j \in Judges, ForkProgram(j) PROVE GradeInv'
  <2>1. \A k \in Judges \ {j} : Untouched(k)
    BY <1>10, <1>t DEF ForkProgram, Fork, Untouched
  <2>2. /\ pc[j] = "fork" /\ pc'[j] = "close" /\ proc'[j] = "program"
        /\ UNCHANGED <<sub, bin, idx>>
    BY <1>10, <1>t DEF ForkProgram, Fork
  <2>3. GradeAt(j)'
    BY <1>a, <2>2
    DEF GradeAt, Built, Judged, Explained, CaseSteps, Running, Compiling, Zombies
  <2>4. QED BY <2>1, <2>3, OneTouched
<1>11. ASSUME NEW j \in Judges, CloseChildEnds(j) \/ FeedInput(j) PROVE GradeInv'
  <2>1. \A k \in Judges \ {j} : Untouched(k)
    BY <1>11, <1>t DEF CloseChildEnds, FeedInput, Untouched
  <2>2. /\ pc[j] \in {"close", "feed"} /\ pc'[j] \in {"feed", "poll"}
        /\ UNCHANGED <<sub, bin, idx, proc>>
    BY <1>11, <1>t DEF CloseChildEnds, FeedInput
  <2>3. GradeAt(j)'
    BY <1>a, <2>2
    DEF GradeAt, Built, Judged, Explained, Run, CaseSteps, Running, Compiling
  <2>4. QED BY <2>1, <2>3, OneTouched
<1>12. ASSUME NEW j \in Judges, PollProgram(j) PROVE GradeInv'
  <2>1. pc[j] = "poll" /\ UNCHANGED <<sub, bin, idx>> /\ proc[j] # "none"
    BY <1>12 DEF PollProgram, LateInv, LateAt, Running
  <2>2. ~NoChild({j})
    BY <2>1 DEF NoChild, Children
  <2>p. Reaped({j}) \/ UNCHANGED <<proc, writers>>
    BY <1>12, <1>w DEF PollProgram, NoChild, NotYet, osVars
  <2>3. \A k \in Judges \ {j} : proc'[k] = proc[k]
    <3>1. CASE Reaped({j})
      BY <3>1, <1>t, ReapedEffect
    <3>2. CASE UNCHANGED <<proc, writers>>
      BY <3>2
    <3>3. QED BY <2>p, <3>1, <3>2
  <2>4. \A k \in Judges \ {j} : Untouched(k)
    BY <1>12, <1>t, <2>3 DEF PollProgram, Untouched
  <2>5. CASE /\ Reaped({j}) /\ pc' = [pc EXCEPT ![j] = "drain"]
             /\ how' = [how EXCEPT ![j] = proc[j]]
    <3>1. pc'[j] = "drain" /\ how'[j] = proc[j] /\ proc[j] \in Zombies
      BY <1>t, <2>5, ReapedEffect
    <3>2. Explained(j, how[j])'
      BY <1>a, <2>1, <3>1 DEF GradeAt, Judged, Explained, Run, Running
    <3>3. GradeAt(j)'
      BY <1>a, <2>1, <3>1, <3>2
      DEF GradeAt, Built, Judged, CaseSteps, Running, Compiling, Zombies
    <3>4. QED BY <2>4, <3>3, OneTouched
  <2>6. CASE pc' = [pc EXCEPT ![j] = "check"] /\ NotYet({j})
    <3>1. pc'[j] = "check" /\ proc' = proc
      BY <1>t, <2>6 DEF NotYet, osVars
    <3>2. GradeAt(j)'
      BY <1>a, <2>1, <3>1
      DEF GradeAt, Built, Judged, Explained, Run, CaseSteps, Running, Compiling
    <3>3. QED BY <2>4, <3>2, OneTouched
  <2>7. QED BY <1>12, <1>w, <2>2, <2>5, <2>6 DEF PollProgram
<1>13. ASSUME NEW j \in Judges, CheckElapsed(j) PROVE GradeInv'
  <2>1. KillAndReap(j, noPid[j]) \/ UNCHANGED <<proc, writers>>
    BY <1>13 DEF CheckElapsed, osVars
  <2>2. \A k \in Judges \ {j} : proc'[k] = proc[k]
    BY <1>t, <1>w, <2>1, KillOwn
  <2>3. \A k \in Judges \ {j} : Untouched(k)
    BY <1>13, <1>t, <2>2 DEF CheckElapsed, Untouched
  <2>4. pc[j] = "check" /\ UNCHANGED <<sub, bin, idx>>
    BY <1>13 DEF CheckElapsed
  <2>5. \/ pc'[j] = "drain" /\ how'[j] = "killed"
        \/ pc'[j] = "poll" /\ proc' = proc
    BY <1>13, <1>t DEF CheckElapsed, osVars
  <2>6. GradeAt(j)'
    BY <1>a, <2>4, <2>5
    DEF GradeAt, Built, Judged, Explained, Run, CaseSteps, Running, Compiling, Zombies
  <2>7. QED BY <2>3, <2>6, OneTouched
<1>14. ASSUME NEW j \in Judges, Drain(j) PROVE GradeInv'
  <2> DEFINE v == Verdict(j)
              more == v = "AC" /\ ~LastCase(j)
  <2>1. \A k \in Judges \ {j} : Untouched(k)
    BY <1>14, <1>t DEF Drain, Untouched, osVars
  <2>2. /\ pc[j] = "drain" /\ UNCHANGED <<sub, proc, bin>>
        /\ pc'[j] = IF more THEN "pipes" ELSE "clean"
        /\ idx'[j] = IF more THEN idx[j] + 1 ELSE idx[j]
        /\ ~more => answer'[j] = Answer(v, IF v = "AC" THEN 0 ELSE idx[j])
    BY <1>14, <1>t DEF Drain, osVars
  <2>3. idx[j] \in 1..Len(sub[j].runs) /\ Len(sub[j].runs) \in Nat /\ sub[j].runs # <<>>
    BY <1>t, <2>2, RunsLength DEF TypeInv, AtCase, HasCases, CaseSteps
  <2>4. v \in Promised!CaseVerdicts(Run(j)) /\ v \in Verdicts
    <3>1. how[j] \in Zombies \cup {"killed"} /\ Explained(j, how[j])
      BY <1>a, <1>t, <2>2 DEF GradeAt, Judged, Outcomes, LateInv, LateAt
    <3>2. QED BY <1>w, <3>1, VerdictAllowed
  <2>5. /\ sub[j].compile = "ok" /\ bin[j]
        /\ \A i \in 1..(idx[j] - 1) : "AC" \in Promised!CaseVerdicts(sub[j].runs[i])
    BY <1>a, <2>2 DEF GradeAt, Built, Judged, CaseSteps
  <2>6. v = "AC" => \A i \in 1..idx[j] : "AC" \in Promised!CaseVerdicts(sub[j].runs[i])
    BY <2>3, <2>4, <2>5 DEF Run
  <2>7. GradeAt(j)'
    <3>1. CASE more
      BY <2>2, <2>3, <2>5, <2>6, <3>1
      DEF GradeAt, Built, Judged, CaseSteps, Running, Compiling
    <3>2. CASE ~more /\ v = "AC"
      <4>1. idx[j] = Len(sub[j].runs) /\ Answer("AC", 0) \in Answers
        BY <3>2, AnswerType, MaxCasesNat DEF LastCase, Verdicts
      <4>2. Answer("AC", 0) \in Promised!Grades(sub[j])
        BY <2>3, <2>5, <2>6, <3>2, <4>1, SameWords DEF Promised!Grades
      <4>3. QED BY <2>2, <2>5, <3>2, <4>2
                DEF GradeAt, Built, Judged, CaseSteps, Running, Compiling
    <3>3. CASE v # "AC"
      <4>1. Answer(v, idx[j]) \in Answers
        BY <1>t, <2>4, AnswerType
      <4>2. Answer(v, idx[j]) \in Promised!Grades(sub[j])
        BY <2>3, <2>4, <2>5, <3>3, <4>1, SameWords DEF Promised!Grades, Answer, Run
      <4>3. QED BY <2>2, <2>5, <3>3, <4>2
                DEF GradeAt, Built, Judged, CaseSteps, Running, Compiling
    <3>4. QED BY <3>1, <3>2, <3>3
  <2>8. QED BY <2>1, <2>7, OneTouched
<1>15. ASSUME NEW j \in Judges, RemoveTempDir(j) PROVE GradeInv'
  <2>1. \A k \in Judges \ {j} : Untouched(k)
    BY <1>15, <1>t DEF RemoveTempDir, Untouched, osVars
  <2>2. GradeAt(j)'
    BY <1>15, <1>t DEF RemoveTempDir, GradeAt, Built, Judged, CaseSteps, Running, Compiling
  <2>3. QED BY <2>1, <2>2, OneTouched
<1>16. ASSUME NEW j \in Judges, CompilerExit(j) PROVE GradeInv'
  <2>1. \A k \in Judges \ {j} : Untouched(k)
    BY <1>16, <1>t DEF CompilerExit, Exit, Untouched
  <2>2. pc[j] \in Compiling /\ UNCHANGED <<pc, sub>> /\ bin'[j] = (sub[j].compile = "ok")
    BY <1>16, <1>t, <1>c DEF CompilerExit
  <2>3. GradeAt(j)'
    BY <2>2 DEF GradeAt, Built, Judged, CaseSteps, Running, Compiling
  <2>4. QED BY <2>1, <2>3, OneTouched
<1>17. ASSUME NEW j \in Judges, ProgramExit(j) \/ KernelLimit(j) PROVE GradeInv'
  <2>1. \A k \in Judges \ {j} : Untouched(k)
    BY <1>17, <1>t DEF ProgramExit, KernelLimit, Exit, Untouched, local
  <2>2. pc[j] \in Running /\ UNCHANGED <<pc, sub, idx, how, answer, bin>>
    BY <1>17, <1>c DEF ProgramExit, KernelLimit, Ends, OverLimit, Computes, GoesOn, local
  <2>3. Explained(j, proc[j])'
    <3>1. CASE ProgramExit(j)
      BY <1>t, <2>2, <3>1 DEF ProgramExit, Ends, GoesOn, Exit, Explained, Run, Zombies
    <3>2. CASE KernelLimit(j)
      BY <1>t, <2>2, <3>2
      DEF KernelLimit, OverLimit, Computes, GoesOn, Exit, Explained, Run, Zombies
    <3>3. QED BY <1>17, <3>1, <3>2
  <2>4. GradeAt(j)'
    BY <1>a, <2>2, <2>3 DEF GradeAt, Built, Judged, CaseSteps, Running, Compiling
  <2>5. QED BY <2>1, <2>4, OneTouched
<1>18. CASE Tick \/ UNCHANGED vars
  BY <1>18, <1>a, UntouchedKeeps DEF Tick, vars, local, osVars, Untouched, GradeInv
<1>19. CASE LeftMoves
  BY <1>19, <1>a, <1>t, UntouchedKeeps, LeftEffect DEF local, Untouched, GradeInv
<1>20. QED
  BY <1>1, <1>2, <1>3, <1>4, <1>5, <1>6, <1>7, <1>8, <1>9, <1>10, <1>11, <1>12, <1>13, <1>14,
     <1>15, <1>16, <1>17, <1>18, <1>19 DEF Next, Thread, Child, LeftMoves

\* GradeInv is an invariant where fork does not fail.
LEMMA GradeInvariant == ASSUME "fork" \notin MayFail PROVE Spec => []GradeInv
<1>1. Init => GradeInv
  BY DEF Init, InitOS, GradeInv, GradeAt, Built, Judged, CaseSteps, Running, Compiling
<1>2. TypeInv /\ HoldInv /\ LeftInv /\ LateInv /\ GradeInv /\ [Next]_vars => GradeInv'
  BY GradeStep
<1>3. Spec => []LateInv
  BY LateInvariant
<1>4. QED BY <1>1, <1>2, <1>3, TypeInvariant, HoldInvariant, LeftInvariant, PTL DEF Spec

\* The abstract phase and answer of a thread that is judging do not move.
Shown(j) == IF pc[j] = "done" THEN answer[j] ELSE NoAnswer
Phase(j) == IF pc[j] \in {"idle", "done"} THEN "free" ELSE "judging"

\* Within a request nothing of the abstract state changes.
LEMMA Stutters ==
  ASSUME TypeInv, NEW j \in Judges,
     \A k \in Judges \ {j} : pc'[k] = pc[k] /\ answer'[k] = answer[k],
         pc[j] \notin {"idle", "done"}, pc'[j] \notin {"idle", "done"}, sub' = sub
  PROVE  UNCHANGED Promised!vars
  BY DEF Promised!vars

\* A request that ends is graded.
LEMMA GradedStep ==
  ASSUME TypeInv, NEW j \in Judges,
     \A k \in Judges \ {j} : pc'[k] = pc[k] /\ answer'[k] = answer[k],
         pc[j] \notin {"idle", "done"}, pc'[j] = "done", sub' = sub,
         answer'[j] \in Promised!Grades(sub[j])
  PROVE  Promised!Next
<1> DEFINE phase == [k \in Judges |-> Phase(k)]
           shown == [k \in Judges |-> Shown(k)]
<1>1. phase[j] = "judging" /\ phase' = [phase EXCEPT ![j] = "free"]
  BY DEF Phase
<1>2. shown' = [shown EXCEPT ![j] = answer'[j]]
  BY DEF Shown
<1>3. Promised!Grade(j)
  BY <1>1, <1>2 DEF Promised!Grade, Phase, Shown
<1>4. QED BY <1>3 DEF Promised!Next

\* Every step is one of Grading, or leaves its variables alone.
LEMMA RefinementStep ==
  ASSUME "fork" \notin MayFail, TypeInv, HoldInv, LeftInv, LateInv, GradeInv, [Next]_vars
  PROVE  [Promised!Next]_(Promised!vars)
<1>t. /\ pc \in [Judges -> Steps] /\ answer \in [Judges -> Answers]
      /\ sub \in [Judges -> Submissions \cup {[compile |-> "error", runs |-> <<>>]}]
      /\ TypeOS
  BY DEF TypeInv, TypeOK
<1>a. \A j \in Judges : GradeAt(j)
  BY DEF GradeInv
<1>f. Answer("CE", 0) \in Answers
  BY FixedAnswers
<1> USE DEF Goto
<1>1. ASSUME NEW j \in Judges, Submit(j) PROVE Promised!Next
  <2> DEFINE phase == [k \in Judges |-> Phase(k)]
             shown == [k \in Judges |-> Shown(k)]
  <2>1. phase[j] = "free" /\ phase' = [phase EXCEPT ![j] = "judging"]
    BY <1>1, <1>t DEF Submit, Phase
  <2>2. shown' = [shown EXCEPT ![j] = NoAnswer]
    BY <1>1, <1>t DEF Submit, Shown
  <2>3. Promised!Ask(j)
    BY <1>1, <2>1, <2>2, SameWords DEF Submit, Promised!Ask, Phase, Shown
  <2>4. QED BY <2>3 DEF Promised!Next
<1>2. ASSUME NEW j \in Judges, NEW from \in {"begin", "write", "stat"}, CompileError(j, from),
             sub' = sub, Answer("CE", 0) \in Promised!Grades(sub[j])
      PROVE  Promised!Next
  <2>1. \A k \in Judges \ {j} : pc'[k] = pc[k] /\ answer'[k] = answer[k]
    BY <1>2, <1>t DEF CompileError
  <2>2. pc[j] = from /\ pc'[j] = "done" /\ answer'[j] = Answer("CE", 0)
    BY <1>2, <1>t DEF CompileError
  <2>3. QED BY <1>2, <2>1, <2>2, GradedStep
<1>3. ASSUME NEW j \in Judges, MakeTempDir(j) PROVE [Promised!Next]_(Promised!vars)
  <2>1. CASE CompileError(j, "begin") /\ (sub[j].runs = <<>> \/ "mkdtemp" \in MayFail)
    <3>1. Answer("CE", 0) \in Promised!Grades(sub[j])
      BY <1>f, <2>1, SameWords DEF Promised!Grades
    <3>2. QED BY <1>2, <1>3, <2>1, <3>1 DEF MakeTempDir
  <2>2. CASE pc' = [pc EXCEPT ![j] = "write"] /\ pc[j] = "begin" /\ UNCHANGED answer
    BY <1>3, <1>t, <2>2, Stutters DEF MakeTempDir
  <2>3. QED BY <1>3, <2>1, <2>2 DEF MakeTempDir
<1>4. ASSUME NEW j \in Judges, WriteSource(j) PROVE [Promised!Next]_(Promised!vars)
  <2>1. CASE CompileError(j, "write") /\ "open" \in MayFail
    <3>1. Answer("CE", 0) \in Promised!Grades(sub[j])
      BY <1>f, <2>1, SameWords DEF Promised!Grades
    <3>2. QED BY <1>2, <1>4, <2>1, <3>1 DEF WriteSource
  <2>2. CASE pc' = [pc EXCEPT ![j] = "cmdPipe"] /\ pc[j] = "write" /\ UNCHANGED answer
    BY <1>4, <1>t, <2>2, Stutters DEF WriteSource
  <2>3. QED BY <1>4, <2>1, <2>2 DEF WriteSource
<1>5. ASSUME NEW j \in Judges, StatProgram(j) PROVE [Promised!Next]_(Promised!vars)
  <2>1. CASE CompileError(j, "stat") /\ ~bin[j]
    <3>1. pc[j] = "stat" /\ proc[j] # "compiler"
      BY <2>1 DEF CompileError, TypeInv, ChildInv, Compiling
    <3>2. MayFail # {} \/ sub[j].compile # "ok"
      BY <1>a, <2>1, <3>1 DEF GradeAt, Built
    <3>3. Answer("CE", 0) \in Promised!Grades(sub[j])
      BY <1>f, <3>2, SameWords DEF Promised!Grades
    <3>4. QED BY <1>2, <1>5, <2>1, <3>3 DEF StatProgram
  <2>2. CASE pc' = [pc EXCEPT ![j] = "pipes"] /\ pc[j] = "stat" /\ UNCHANGED answer
    BY <1>5, <1>t, <2>2, Stutters DEF StatProgram
  <2>3. QED BY <1>5, <2>1, <2>2 DEF StatProgram
<1>6. ASSUME NEW j \in Judges, RemoveTempDir(j) PROVE Promised!Next
  <2>1. \A k \in Judges \ {j} : pc'[k] = pc[k] /\ answer'[k] = answer[k]
    BY <1>6, <1>t DEF RemoveTempDir
  <2>2. pc[j] = "clean" /\ pc'[j] = "done" /\ answer'[j] = answer[j] /\ sub' = sub
    BY <1>6, <1>t DEF RemoveTempDir
  <2>3. answer[j] \in Promised!Grades(sub[j])
    BY <1>a, <2>2 DEF GradeAt, Judged
  <2>4. QED BY <2>1, <2>2, <2>3, GradedStep
<1>7. ASSUME NEW j \in Judges,
             \/ OpenCommandPipe(j) \/ ForkCompiler(j) \/ CloseCommandPipe(j)
             \/ WaitCompiler(j) \/ ReadCommand(j) \/ OpenPipes(j) \/ ForkProgram(j)
             \/ CloseChildEnds(j) \/ FeedInput(j) \/ PollProgram(j) \/ CheckElapsed(j) \/ Drain(j)
      PROVE  UNCHANGED Promised!vars
  <2>1. /\ \A k \in Judges \ {j} : pc'[k] = pc[k] /\ answer'[k] = answer[k]
        /\ pc[j] \notin {"idle", "done"} /\ pc'[j] \notin {"idle", "done"} /\ sub' = sub
    BY <1>7, <1>t DEF OpenCommandPipe, ForkCompiler, CloseCommandPipe, WaitCompiler, ReadCommand,
       OpenPipes, ForkProgram, CloseChildEnds, FeedInput, PollProgram, CheckElapsed, Drain
  <2>2. QED BY <2>1, Stutters
<1>8. ASSUME \/ Tick \/ UNCHANGED vars \/ LeftMoves \/ \E j \in Judges : Child(j)
      PROVE  UNCHANGED Promised!vars
  <2>1. CASE LeftMoves
    BY <1>t, <2>1, LeftEffect DEF local, Promised!vars
  <2>2. CASE ~LeftMoves
    <3>1. UNCHANGED <<pc, sub, answer>>
      BY <1>8, <2>2 DEF Tick, vars, local, Child, CompilerExit, ProgramExit, KernelLimit
    <3>2. QED BY <3>1 DEF Promised!vars
  <2>3. QED BY <2>1, <2>2
<1>9. QED BY <1>1, <1>3, <1>4, <1>5, <1>6, <1>7, <1>8 DEF Next, Thread, LeftMoves

\* Unless a fork fails, the judge implements Grading: every answer is the verdict
\* of the first case that is not accepted, explained by what the program did
\* (compile_and_judge 284-327, judge_single 187-265).
THEOREM GradesAsPromised == ASSUME "fork" \notin MayFail PROVE Spec => ImplementsGrading
<1>1. Init => Promised!Init
  BY SameWords DEF Init, Promised!Init
<1>2. TypeInv /\ HoldInv /\ LeftInv /\ LateInv /\ GradeInv /\ [Next]_vars =>
        [Promised!Next]_(Promised!vars)
  BY RefinementStep
<1>3. Spec => []LateInv
  BY LateInvariant
<1>4. Spec => []GradeInv
  BY GradeInvariant
<1>5. QED
  BY <1>1, <1>2, <1>3, <1>4, TypeInvariant, HoldInvariant, LeftInvariant, PTL
  DEF Spec, ImplementsGrading, Promised!Spec

-----------------------------------------------------------------------------
\* On an idle machine whose calls do not fail, and with the CPU limit within the
\* real one, the verdict is a function of the submission, as long as no child
\* holds the write end of another's input, or none reads its input.
Idle ==
  /\ MayFail = {} /\ Prompt /\ CpuHard <= RealLimit
  /\ (\A i, k \in Judges : i = k) \/ (\A b \in Programs : ~b.reads)

\* A program that reads its input finds its end: the server alone holds the pipe
\* (so a clone of the program does not), and has closed it before it polls.
Fed(j) ==
  Run(j).reads =>
    /\ pc[j] \in {"fork", "close", "feed"} => writers[<<j, "in">>] \subseteq {Server}
    /\ pc[j] \in {"poll", "check"} => Closed(<<j, "in">>)
FedInv == \A j \in Judges : pc[j] \in CaseSteps => Fed(j)

\* What the judge answers: as DocumentedVerdict but for the disputed programs.
\* An output that does not fit in a pipe is TLE, too much memory RE.
ExpectedVerdict(b) ==
  IF b.long \/ b.ends \in {"block", "spin"} THEN "TLE"
  ELSE CASE b.ends = "spinOn" -> "MLE"
         [] b.ends \in {"exit1", "fault", "hog"} -> "RE"
         [] OTHER -> IF b.right THEN "AC" ELSE "WA"

\* Time passes only for the programs that do not end by themselves, and the CPU
\* time of one that ignores SIGXCPU keeps up with the clock.
Slow(b) == b.long \/ b.ends \in {"block", "spin", "spinOn"}
Timely(j) ==
  /\ pc[j] \in {"close", "feed"} => cpu[j] = 0
  /\ pc[j] \in {"poll", "check"} /\ clock[j] > 0 => Slow(Run(j))
  /\ pc[j] \in {"poll", "check"} /\ ExpectedVerdict(Run(j)) = "MLE" =>
       cpu[j] = clock[j] /\ clock[j] <= CpuHard

\* So only what is to be answered TLE is killed, or ended by SIGXCPU.
EndedLate(j) ==
  /\ pc[j] \in Running /\ proc[j] = "XCPU" => ExpectedVerdict(Run(j)) = "TLE"
  /\ pc[j] = "drain" /\ how[j] \in {"XCPU", "killed"} => ExpectedVerdict(Run(j)) = "TLE"

\* The answer is the expected verdict of the first case that is not accepted.
Decided(j) ==
  LET bad == {i \in 1..Len(sub[j].runs) : ExpectedVerdict(sub[j].runs[i]) # "AC"} IN
    IF bad = {} THEN answer[j] = Answer("AC", 0)
    ELSE \E i \in bad : /\ \A k \in bad : i <= k
                        /\ answer[j] = Answer(ExpectedVerdict(sub[j].runs[i]), i)

\* The cases before the one at hand were expected to be accepted.
Expecting(j) ==
  /\ pc[j] \in CaseSteps =>
       \A i \in 1..(idx[j] - 1) : ExpectedVerdict(sub[j].runs[i]) = "AC"
  /\ pc[j] = "clean" \/ (pc[j] = "done" /\ sub[j].compile = "ok" /\ sub[j].runs # <<>>) =>
       Decided(j)

ExactAt(j) == (pc[j] \in CaseSteps => Timely(j) /\ EndedLate(j)) /\ Expecting(j)
ExactInv == \A j \in Judges : ExactAt(j)

\* FedInv is preserved by every step.
LEMMA FedStep ==
  ASSUME Idle, TypeInv, FedInv, [Next]_vars PROVE FedInv'
<1>t. /\ pc \in [Judges -> Steps] /\ idx \in [Judges -> 0..MaxCases]
      /\ sub \in [Judges -> Submissions \cup {[compile |-> "error", runs |-> <<>>]}]
      /\ writers \in [Pipes -> SUBSET Holders] /\ TypeOS
  BY DEF TypeInv, TypeOK, TypeOS
<1>1. CASE \A b \in Programs : ~b.reads
  <2>1. SUFFICES ASSUME NEW j \in Judges, pc'[j] \in CaseSteps PROVE ~Run(j)'.reads
    BY DEF FedInv, Fed
  <2>2. TypeOK' /\ AtCase' /\ HasCases'
    BY TypeOKStep, PlaceStep
  <2>3. sub'[j] \in Submissions \/ sub'[j].runs = <<>>
    BY <2>2 DEF TypeOK
  <2>4. sub'[j].runs # <<>>
    BY <2>1, <2>2 DEF HasCases, CaseSteps, Running
  <2>5. PICK n \in 0..MaxCases : sub'[j].runs \in [1..n -> Programs]
    BY <2>3, <2>4 DEF Submissions
  <2>6. idx'[j] \in 1..Len(sub'[j].runs)
    BY <2>1, <2>2 DEF AtCase
  <2>7. Run(j)' \in Programs
    BY <2>5, <2>6, MaxCasesNat DEF Run
  <2>8. QED BY <1>1, <2>7
<1>2. CASE \A i, k \in Judges : i = k
  <2>1. SUFFICES ASSUME NEW j \in Judges, pc'[j] \in CaseSteps, Run(j)'.reads,
                        pc'[j] \in {"fork", "close", "feed", "poll", "check"}
                 PROVE  IF pc'[j] \in {"poll", "check"} THEN writers'[<<j, "in">>] = {}
                        ELSE writers'[<<j, "in">>] \subseteq {Server}
    BY DEF FedInv, Fed, Closed
  <2>j. \A k \in Judges : k = j
    BY <1>2
  <2>p. <<j, "in">> \in Pipes
    BY PipesOf
  <2>f. UNCHANGED <<sub, idx>> /\ pc[j] \in {"fork", "close", "feed", "poll", "check"} =>
          IF pc[j] \in {"poll", "check"} THEN writers[<<j, "in">>] = {}
          ELSE writers[<<j, "in">>] \subseteq {Server}
    BY <2>1 DEF FedInv, Fed, Closed, Run, CaseSteps, Running
  <2> USE DEF Goto
  <2>2. CASE OpenPipes(j)
    <3>1. writers' = [writers EXCEPT ![<<j, "in">>] = {Server}, ![<<j, "out">>] = {Server}]
      BY <1>t, <2>1, <2>2 DEF OpenPipes
    <3>2. writers'[<<j, "in">>] = {Server} /\ pc'[j] = "fork"
      BY <1>t, <2>1, <2>2, <2>p, <3>1 DEF OpenPipes
    <3>3. QED BY <3>2
  <2>3. CASE ForkProgram(j)
    <3>1. writers'[<<j, "in">>] = writers[<<j, "in">>]
      BY <2>3, <2>p DEF ForkProgram, Fork, Inherited, osVars
    <3>2. pc[j] = "fork" /\ pc'[j] = "close" /\ UNCHANGED <<sub, idx>>
      BY <1>t, <2>3 DEF ForkProgram
    <3>3. QED BY <2>f, <3>1, <3>2
  <2>4. CASE CloseChildEnds(j)
    <3>1. writers'[<<j, "in">>] = writers[<<j, "in">>]
      BY <1>t, <2>4, <2>p DEF CloseChildEnds, CloseEnd
    <3>2. pc[j] = "close" /\ pc'[j] = "feed" /\ UNCHANGED <<sub, idx>>
      BY <1>t, <2>4 DEF CloseChildEnds
    <3>3. QED BY <2>f, <3>1, <3>2
  <2>5. CASE FeedInput(j)
    <3>1. writers'[<<j, "in">>] = writers[<<j, "in">>] \ {Server}
      BY <1>t, <2>5, <2>p DEF FeedInput, CloseEnd
    <3>2. pc[j] = "feed" /\ UNCHANGED <<sub, idx>>
      BY <2>5 DEF FeedInput
    <3>3. QED BY <2>f, <3>1, <3>2
  <2>6. CASE PollProgram(j) \/ CheckElapsed(j)
    <3>1. /\ pc[j] \in {"poll", "check"} /\ pc'[j] \in {"poll", "check"}
          /\ UNCHANGED <<sub, idx, writers>>
      BY <1>t, <2>1, <2>6 DEF PollProgram, CheckElapsed, NotYet, osVars
    <3>2. QED BY <2>f, <3>1
  <2>7. CASE Child(j)
    <3>1. UNCHANGED <<pc, sub, idx>> /\ writers' = Without(writers, {j})
      BY <2>7 DEF Child, CompilerExit, ProgramExit, KernelLimit, Exit, local
    <3>2. writers'[<<j, "in">>] \subseteq writers[<<j, "in">>]
      BY <2>p, <3>1 DEF Without
    <3>3. QED BY <2>1, <2>f, <3>1, <3>2
  <2>8. CASE Tick \/ UNCHANGED vars
    BY <2>1, <2>8, <2>f DEF Tick, vars, local, osVars
  <2>12. CASE \E k \in Judges : ProgramClone(k)
    <3>1. ProgramClone(j)
      BY <2>j, <2>12
    <3>2. UNCHANGED <<pc, sub, idx>> /\ j \notin writers[<<j, "in">>]
      BY <2>1, <2>f, <3>1, ServerAssumption DEF ProgramClone, local
    <3>3. writers'[<<j, "in">>] = writers[<<j, "in">>]
      BY <2>p, <3>1, <3>2 DEF ProgramClone, Clone
    <3>4. QED BY <2>1, <2>f, <3>2, <3>3
  <2>13. CASE \E p \in Pipes : LeftCloses(p)
    <3>1. PICK p \in Pipes : LeftCloses(p)
      BY <2>13
    <3>2. UNCHANGED <<pc, sub, idx>> /\ writers'[<<j, "in">>] \subseteq writers[<<j, "in">>]
      BY <1>t, <2>p, <3>1 DEF LeftCloses, LetGo, local
    <3>3. QED BY <2>1, <2>f, <3>2
  <2>9. ~Submit(j)
    BY <1>t, <2>1 DEF Submit
  <2>10. /\ ~MakeTempDir(j) /\ ~WriteSource(j) /\ ~OpenCommandPipe(j) /\ ~ForkCompiler(j)
         /\ ~CloseCommandPipe(j) /\ ~WaitCompiler(j) /\ ~ReadCommand(j) /\ ~StatProgram(j)
         /\ ~Drain(j) /\ ~RemoveTempDir(j)
    BY <1>t, <2>1 DEF MakeTempDir, WriteSource, OpenCommandPipe, ForkCompiler, CloseCommandPipe,
       WaitCompiler, ReadCommand, StatProgram, CompileError, Drain, RemoveTempDir
  <2>11. QED
    BY <2>2, <2>3, <2>4, <2>5, <2>6, <2>7, <2>8, <2>9, <2>10, <2>12, <2>13, <2>j
    DEF Next, Thread
<1>3. QED BY <1>1, <1>2 DEF Idle

\* FedInv is an invariant of the idle machine.
LEMMA FedInvariant == ASSUME Idle PROVE Spec => []FedInv
<1>1. Init => FedInv
  BY DEF Init, FedInv, CaseSteps, Running
<1>2. TypeInv /\ FedInv /\ [Next]_vars => FedInv'
  BY FedStep
<1>3. QED BY <1>1, <1>2, TypeInvariant, PTL DEF Spec

\* An answer that is right stays so while it is not touched.
LEMMA DecidedKeeps ==
  ASSUME NEW j \in Judges, Decided(j), sub'[j] = sub[j], answer'[j] = answer[j]
  PROVE  Decided(j)'
  BY DEF Decided

\* Nothing else that ExactAt looks at changes for a thread left alone.
Alone(j) == Untouched(j) /\ clock'[j] = clock[j] /\ cpu'[j] = cpu[j]

\* What the idle machine's answer rests on does not change for a thread left alone.
LEMMA AloneKeeps == ASSUME NEW j \in Judges, ExactAt(j), Alone(j) PROVE ExactAt(j)'
<1>1. Expecting(j)'
  BY DecidedKeeps DEF ExactAt, Expecting, Alone, Untouched
<1>2. pc'[j] \in CaseSteps => Timely(j)' /\ EndedLate(j)'
  BY DEF ExactAt, Timely, EndedLate, Run, Alone, Untouched
<1>3. QED BY <1>1, <1>2 DEF ExactAt

\* A step of one thread preserves ExactInv if it does so for that thread.
LEMMA OneExact ==
  ASSUME ExactInv, NEW j \in Judges, \A k \in Judges \ {j} : Alone(k), ExactAt(j)'
  PROVE  ExactInv'
  BY AloneKeeps DEF ExactInv

\* With no case under way there is nothing to show but the answer.
LEMMA NoCase ==
  ASSUME NEW j \in Judges, pc'[j] \notin CaseSteps \cup {"clean"},
         pc'[j] = "done" => sub'[j].compile # "ok" \/ sub'[j].runs = <<>>
  PROVE  ExactAt(j)'
  BY DEF ExactAt, Expecting

\* The verdict on a case is the expected one.
LEMMA VerdictExpected ==
  ASSUME NEW j \in Judges, ~noPid[j], how[j] \in Zombies \cup {"killed"}, Explained(j, how[j]),
         pc[j] = "drain", EndedLate(j)
  PROVE  Verdict(j) = ExpectedVerdict(Run(j))
<1>1. CASE how[j] \in {"killed", "XCPU"}
  BY <1>1 DEF Verdict, EndedLate
<1>2. CASE how[j] = "KILL"
  BY <1>2 DEF Verdict, ExpectedVerdict, Explained, Zombies
<1>3. CASE how[j] \in {"fault", "exit1"}
  BY <1>3 DEF Verdict, ExpectedVerdict, Explained, Zombies
<1>4. CASE how[j] = "exit0"
  BY <1>4 DEF Verdict, OutputMatches, ExpectedVerdict, Explained, Zombies
<1>5. QED BY <1>1, <1>2, <1>3, <1>4 DEF Zombies

\* Of a slow program TLE or MLE is expected.
LEMMA SlowExpected ==
  ASSUME NEW b \in Behaviours
  PROVE  /\ Slow(b) => ExpectedVerdict(b) \in {"TLE", "MLE"}
         /\ ExpectedVerdict(b) = "MLE" => ~b.long /\ b.ends = "spinOn"
<1>1. b.long \in BOOLEAN /\ b.ends \in Endings
  BY DEF Behaviours
<1>2. CASE b.long \/ b.ends \in {"block", "spin"}
  BY <1>2 DEF ExpectedVerdict
<1>3. CASE ~b.long /\ b.ends = "spinOn"
  BY <1>3 DEF ExpectedVerdict
<1>4. CASE ~b.long /\ b.ends \in {"exit1", "fault", "hog"}
  BY <1>4 DEF ExpectedVerdict, Slow
<1>5. CASE ~b.long /\ b.ends = "exit0"
  BY <1>5 DEF ExpectedVerdict, Slow
<1>6. QED BY <1>1, <1>2, <1>3, <1>4, <1>5 DEF Endings

\* ExactInv is preserved by every step.
LEMMA ExactStep ==
  ASSUME Idle, TypeInv, HoldInv, LeftInv, LateInv, GradeInv, FedInv, ExactInv, [Next]_vars
  PROVE  ExactInv'
<1>t. /\ pc \in [Judges -> Steps] /\ idx \in [Judges -> 0..MaxCases]
      /\ sub \in [Judges -> Submissions \cup {[compile |-> "error", runs |-> <<>>]}]
      /\ how \in [Judges -> Outcomes] /\ bin \in [Judges -> BOOLEAN]
      /\ answer \in [Judges -> Answers] /\ TypeOS
      /\ clock \in [Judges -> 0..MaxClock] /\ cpu \in [Judges -> 0..CpuHard]
      /\ proc \in [Judges -> Alive \cup Zombies \cup {"none"}]
  BY DEF TypeInv, TypeOK, TypeOS
<1>a. \A j \in Judges : ExactAt(j)
  BY DEF ExactInv
<1>g. \A j \in Judges : GradeAt(j)
  BY DEF GradeInv
<1>w. \A j \in Judges : ~noPid[j] /\ Awaited(j, noPid[j]) = {j}
  BY DEF LateInv, LateAt, Awaited
<1>c. \A j \in Judges : /\ pc[j] \notin Compiling \cup Running => proc[j] = "none"
                        /\ proc[j] = "compiler" => pc[j] \in Compiling
                        /\ proc[j] = "program" => pc[j] \in Running
  BY DEF TypeInv, ChildInv
<1>m. MayFail = {}
  BY DEF Idle
<1> USE DEF Goto
<1>1. ASSUME NEW j \in Judges, Submit(j) PROVE ExactInv'
  <2>1. \A k \in Judges \ {j} : Alone(k)
    BY <1>1, <1>t DEF Submit, Alone, Untouched, osVars
  <2>2. pc'[j] = "begin"
    BY <1>1, <1>t DEF Submit
  <2>3. ExactAt(j)'
    BY <2>2, NoCase DEF CaseSteps, Running
  <2>4. QED BY <2>1, <2>3, OneExact
<1>2. ASSUME NEW j \in Judges,
             \/ MakeTempDir(j) \/ WriteSource(j) \/ OpenCommandPipe(j) \/ ForkCompiler(j)
             \/ CloseCommandPipe(j)
      PROVE  ExactInv'
  <2>1. \A k \in Judges \ {j} : Alone(k)
    BY <1>2, <1>t DEF MakeTempDir, WriteSource, OpenCommandPipe, ForkCompiler, CloseCommandPipe,
       CompileError, Fork, Alone, Untouched, osVars
  <2>2. \/ pc'[j] \in {"write", "cmdPipe", "cmdFork", "cmdClose", "cmdWait"}
        \/ pc'[j] = "done" /\ sub'[j].runs = <<>>
    BY <1>2, <1>t, <1>m DEF MakeTempDir, WriteSource, OpenCommandPipe, ForkCompiler,
       CloseCommandPipe, CompileError
  <2>3. ExactAt(j)'
    BY <2>2, NoCase DEF CaseSteps, Running
  <2>4. QED BY <2>1, <2>3, OneExact
<1>3. ASSUME NEW j \in Judges, WaitCompiler(j) \/ ReadCommand(j) PROVE ExactInv'
  <2>1. Reaped({j}) \/ KillAndReap(j, noPid[j]) \/ UNCHANGED <<proc, writers>>
    BY <1>3, <1>w DEF WaitCompiler, ReadCommand, NoChild, NotYet, osVars
  <2>2. \A k \in Judges \ {j} : proc'[k] = proc[k]
    BY <1>t, <1>w, <2>1, ReapedEffect, KillOwn
  <2>3. \A k \in Judges \ {j} : Alone(k)
    BY <1>3, <1>t, <2>2 DEF WaitCompiler, ReadCommand, Alone, Untouched
  <2>4. pc'[j] \in {"cmdRead", "stat", "cmdWait"}
    BY <1>3, <1>t DEF WaitCompiler, ReadCommand
  <2>5. ExactAt(j)'
    BY <2>4, NoCase DEF CaseSteps, Running
  <2>6. QED BY <2>3, <2>5, OneExact
<1>4. ASSUME NEW j \in Judges, StatProgram(j) PROVE ExactInv'
  <2>1. \A k \in Judges \ {j} : Alone(k)
    BY <1>4, <1>t DEF StatProgram, CompileError, Alone, Untouched, osVars
  <2>2. CASE bin[j]
    <3>1. pc'[j] = "pipes" /\ idx'[j] = 1
      BY <1>4, <1>t, <2>2 DEF StatProgram
    <3>2. ExactAt(j)'
      BY <3>1 DEF ExactAt, Expecting, Timely, EndedLate, Running
    <3>3. QED BY <2>1, <3>2, OneExact
  <2>3. CASE ~bin[j]
    <3>1. pc[j] = "stat" /\ pc'[j] = "done" /\ sub'[j] = sub[j]
      BY <1>4, <1>t, <2>3 DEF StatProgram, CompileError
    <3>2. proc[j] = "none"
      BY <1>c, <3>1 DEF Compiling, Running
    <3>3. sub[j].compile # "ok"
      BY <1>g, <1>m, <2>3, <3>1, <3>2 DEF GradeAt, Built
    <3>4. ExactAt(j)'
      BY <3>1, <3>3, NoCase DEF CaseSteps, Running
    <3>5. QED BY <2>1, <3>4, OneExact
  <2>4. QED BY <2>2, <2>3
<1>5. ASSUME NEW j \in Judges, OpenPipes(j) PROVE ExactInv'
  <2>1. \A k \in Judges \ {j} : Alone(k)
    BY <1>5, <1>t DEF OpenPipes, Alone, Untouched
  <2>2. pc[j] = "pipes" /\ pc'[j] = "fork" /\ UNCHANGED <<sub, idx>>
    BY <1>5, <1>t, <1>m DEF OpenPipes
  <2>3. ExactAt(j)'
    BY <1>a, <2>2 DEF ExactAt, Expecting, Timely, EndedLate, CaseSteps, Running
  <2>4. QED BY <2>1, <2>3, OneExact
<1>6. ASSUME NEW j \in Judges, ForkProgram(j) PROVE ExactInv'
  <2>1. \A k \in Judges \ {j} : Alone(k)
    BY <1>6, <1>t, <1>m DEF ForkProgram, Fork, Alone, Untouched
  <2>2. /\ pc[j] = "fork" /\ pc'[j] = "close" /\ proc'[j] = "program" /\ cpu'[j] = 0
        /\ UNCHANGED <<sub, idx>>
    BY <1>6, <1>t, <1>m DEF ForkProgram, Fork
  <2>3. ExactAt(j)'
    BY <1>a, <2>2 DEF ExactAt, Expecting, Timely, EndedLate, CaseSteps, Running
  <2>4. QED BY <2>1, <2>3, OneExact
<1>7. ASSUME NEW j \in Judges, CloseChildEnds(j) \/ FeedInput(j) PROVE ExactInv'
  <2>1. \A k \in Judges \ {j} : Alone(k)
    BY <1>7, <1>t DEF CloseChildEnds, FeedInput, Alone, Untouched
  <2>2. /\ pc[j] \in {"close", "feed"} /\ UNCHANGED <<sub, idx, proc, cpu>>
        /\ pc'[j] = "feed" \/ (pc'[j] = "poll" /\ clock'[j] = 0)
    BY <1>7, <1>t DEF CloseChildEnds, FeedInput
  <2>3. Timely(j)' /\ EndedLate(j)'
    BY <1>a, <2>2, LimitTypes DEF ExactAt, Timely, EndedLate, Run, CaseSteps, Running
  <2>4. ExactAt(j)'
    BY <1>a, <2>2, <2>3 DEF ExactAt, Expecting, CaseSteps, Running
  <2>5. QED BY <2>1, <2>4, OneExact
<1>8. ASSUME NEW j \in Judges, PollProgram(j) PROVE ExactInv'
  <2>1. pc[j] = "poll" /\ UNCHANGED <<sub, idx, clock, cpu>> /\ proc[j] # "none"
    BY <1>8 DEF PollProgram, LateInv, LateAt, Running
  <2>2. ~NoChild({j})
    BY <2>1 DEF NoChild, Children
  <2>3. Reaped({j}) \/ UNCHANGED <<proc, writers>>
    BY <1>8, <1>w DEF PollProgram, NoChild, NotYet, osVars
  <2>4. \A k \in Judges \ {j} : proc'[k] = proc[k]
    BY <1>t, <2>3, ReapedEffect
  <2>5. \A k \in Judges \ {j} : Alone(k)
    BY <1>8, <1>t, <2>4 DEF PollProgram, Alone, Untouched
  <2>6. CASE /\ Reaped({j}) /\ pc' = [pc EXCEPT ![j] = "drain"]
             /\ how' = [how EXCEPT ![j] = proc[j]]
    <3>r. proc[j] \in Zombies
      BY <2>6 DEF Reaped, Dead
    <3>1. pc'[j] = "drain" /\ how'[j] = proc[j] /\ proc[j] \in Zombies
      BY <1>t, <2>6, <3>r
    <3>2. Timely(j)' /\ EndedLate(j)'
      BY <1>a, <2>1, <3>1
      DEF ExactAt, Timely, EndedLate, Run, CaseSteps, Running, Zombies
    <3>3. ExactAt(j)'
      BY <1>a, <2>1, <3>1, <3>2 DEF ExactAt, Expecting, CaseSteps, Running
    <3>4. QED BY <2>5, <3>3, OneExact
  <2>7. CASE pc' = [pc EXCEPT ![j] = "check"] /\ NotYet({j})
    <3>1. pc'[j] = "check" /\ proc' = proc
      BY <1>t, <2>7 DEF NotYet, osVars
    <3>2. Timely(j)' /\ EndedLate(j)'
      BY <1>a, <2>1, <3>1 DEF ExactAt, Timely, EndedLate, Run, CaseSteps, Running
    <3>3. ExactAt(j)'
      BY <1>a, <2>1, <3>1, <3>2 DEF ExactAt, Expecting, CaseSteps, Running
    <3>4. QED BY <2>5, <3>3, OneExact
  <2>8. QED BY <1>8, <1>w, <2>2, <2>6, <2>7 DEF PollProgram
<1>9. ASSUME NEW j \in Judges, CheckElapsed(j) PROVE ExactInv'
  <2>1. KillAndReap(j, noPid[j]) \/ UNCHANGED <<proc, writers>>
    BY <1>9 DEF CheckElapsed, osVars
  <2>2. \A k \in Judges \ {j} : proc'[k] = proc[k]
    BY <1>t, <1>w, <2>1, KillOwn
  <2>3. \A k \in Judges \ {j} : Alone(k)
    BY <1>9, <1>t, <2>2 DEF CheckElapsed, Alone, Untouched
  <2>4. pc[j] = "check" /\ UNCHANGED <<sub, idx, clock, cpu>>
    BY <1>9 DEF CheckElapsed
  <2>5. CASE pc' = [pc EXCEPT ![j] = "poll"] /\ UNCHANGED <<how, proc>>
    <3>1. pc'[j] = "poll"
      BY <1>t, <2>5
    <3>2. Timely(j)' /\ EndedLate(j)'
      BY <1>a, <2>4, <2>5, <3>1 DEF ExactAt, Timely, EndedLate, Run, CaseSteps, Running
    <3>3. ExactAt(j)'
      BY <1>a, <2>4, <3>1, <3>2 DEF ExactAt, Expecting, CaseSteps, Running
    <3>4. QED BY <2>3, <3>3, OneExact
  <2>6. CASE Elapsed(j, RealLimit) /\ pc' = [pc EXCEPT ![j] = "drain"]
    <3>1. pc'[j] = "drain"
      BY <1>t, <2>6
    <3>2. clock[j] > RealLimit /\ RealLimit \in Nat /\ CpuHard \in Nat /\ clock[j] \in Nat
      BY <1>t, <2>6, JudgeAssumption, LimitTypes DEF Elapsed
    <3>3. Slow(Run(j)) /\ ExpectedVerdict(Run(j)) # "MLE"
      BY <1>a, <2>4, <3>2 DEF ExactAt, Timely, CaseSteps, Running, Idle
    <3>4. Run(j) \in Behaviours
      BY <1>t, <2>4, RunsLength DEF TypeInv, AtCase, CaseSteps, Running, Run
    <3>5. ExpectedVerdict(Run(j)) = "TLE"
      BY <3>3, <3>4, SlowExpected
    <3>6. Timely(j)' /\ EndedLate(j)'
      BY <2>4, <3>1, <3>5 DEF Timely, EndedLate, Run, Running
    <3>7. ExactAt(j)'
      BY <1>a, <2>4, <3>1, <3>6 DEF ExactAt, Expecting, CaseSteps, Running
    <3>8. QED BY <2>3, <3>7, OneExact
  <2>7. QED BY <1>9, <2>5, <2>6 DEF CheckElapsed, osVars
<1>10. ASSUME NEW j \in Judges, Drain(j) PROVE ExactInv'
  <2> DEFINE v == Verdict(j)
              more == v = "AC" /\ ~LastCase(j)
  <2>1. \A k \in Judges \ {j} : Alone(k)
    BY <1>10, <1>t DEF Drain, Alone, Untouched, osVars
  <2>2. /\ pc[j] = "drain" /\ UNCHANGED <<sub, proc>>
        /\ pc'[j] = IF more THEN "pipes" ELSE "clean"
        /\ idx'[j] = IF more THEN idx[j] + 1 ELSE idx[j]
        /\ ~more => answer'[j] = Answer(v, IF v = "AC" THEN 0 ELSE idx[j])
    BY <1>10, <1>t DEF Drain, osVars
  <2>3. idx[j] \in 1..Len(sub[j].runs) /\ Len(sub[j].runs) \in Nat
    BY <1>t, <2>2, RunsLength DEF TypeInv, AtCase, CaseSteps
  <2>4. v = ExpectedVerdict(Run(j))
    <3>1. how[j] \in Zombies \cup {"killed"} /\ Explained(j, how[j])
      BY <1>g, <1>t, <2>2 DEF GradeAt, Judged, Outcomes, LateInv, LateAt
    <3>2. EndedLate(j)
      BY <1>a, <2>2 DEF ExactAt, CaseSteps
    <3>3. QED BY <1>w, <2>2, <3>1, <3>2, VerdictExpected
  <2>5. \A i \in 1..(idx[j] - 1) : ExpectedVerdict(sub[j].runs[i]) = "AC"
    BY <1>a, <2>2 DEF ExactAt, Expecting, CaseSteps
  <2>9. ExpectedVerdict(sub[j].runs[idx[j]]) = v
    BY <2>4 DEF Run
  <2> HIDE DEF v
  <2>6. CASE more
    <3>1. \A i \in 1..idx[j] : ExpectedVerdict(sub[j].runs[i]) = "AC"
      BY <2>3, <2>5, <2>6, <2>9
    <3>2. pc'[j] = "pipes" /\ idx'[j] = idx[j] + 1
      BY <2>2, <2>6
    <3>3. ExactAt(j)'
      BY <2>2, <2>3, <3>1, <3>2 DEF ExactAt, Expecting, Timely, EndedLate, Running
    <3>4. QED BY <2>1, <3>3, OneExact
  <2>7. CASE ~more
    <3>1. Decided(j)'
      <4>1. CASE v = "AC"
        <5>1. \A i \in 1..Len(sub[j].runs) : ExpectedVerdict(sub[j].runs[i]) = "AC"
          BY <2>3, <2>5, <2>7, <2>9, <4>1 DEF LastCase
        <5>2. QED BY <2>2, <2>7, <4>1, <5>1 DEF Decided
      <4>2. CASE v # "AC"
        <5>1. answer'[j] = Answer(ExpectedVerdict(sub[j].runs[idx[j]]), idx[j])
          BY <2>2, <2>4, <2>7, <4>2 DEF Run
        <5>2. ExpectedVerdict(sub[j].runs[idx[j]]) # "AC"
          BY <2>4, <4>2 DEF Run
        <5> DEFINE bad == {i \in 1..Len(sub[j].runs) : ExpectedVerdict(sub[j].runs[i]) # "AC"}
        <5>3. idx[j] \in bad
          BY <2>3, <5>2
        <5>4. \A k \in bad : idx[j] <= k
          BY <2>3, <2>5
        <5>5. QED BY <2>2, <5>1, <5>3, <5>4 DEF Decided
      <4>3. QED BY <4>1, <4>2
    <3>2. pc'[j] = "clean"
      BY <2>2, <2>7
    <3>3. ExactAt(j)'
      BY <3>1, <3>2 DEF ExactAt, Expecting, CaseSteps, Running
    <3>4. QED BY <2>1, <3>3, OneExact
  <2>8. QED BY <2>6, <2>7
<1>11. ASSUME NEW j \in Judges, RemoveTempDir(j) PROVE ExactInv'
  <2>1. \A k \in Judges \ {j} : Alone(k)
    BY <1>11, <1>t DEF RemoveTempDir, Alone, Untouched, osVars
  <2>2. pc[j] = "clean" /\ pc'[j] = "done" /\ UNCHANGED <<sub, answer>>
    BY <1>11, <1>t DEF RemoveTempDir
  <2>3. ExactAt(j)'
    BY <1>a, <2>2, DecidedKeeps DEF ExactAt, Expecting, CaseSteps, Running
  <2>4. QED BY <2>1, <2>3, OneExact
<1>12. ASSUME NEW j \in Judges, CompilerExit(j) PROVE ExactInv'
  <2>1. \A k \in Judges \ {j} : Alone(k)
    BY <1>12, <1>t DEF CompilerExit, Exit, Alone, Untouched
  <2>2. pc[j] \in Compiling /\ UNCHANGED pc
    BY <1>12, <1>c DEF CompilerExit
  <2>3. ExactAt(j)'
    BY <2>2, NoCase DEF CaseSteps, Running, Compiling
  <2>4. QED BY <2>1, <2>3, OneExact
<1>13. ASSUME NEW j \in Judges, ProgramExit(j) \/ KernelLimit(j) PROVE ExactInv'
  <2>1. \A k \in Judges \ {j} : Alone(k)
    BY <1>13, <1>t DEF ProgramExit, KernelLimit, Exit, Alone, Untouched, local
  <2>2. pc[j] \in Running /\ UNCHANGED <<pc, sub, idx, how, answer, clock, cpu>>
    BY <1>13, <1>c DEF ProgramExit, KernelLimit, Ends, OverLimit, Computes, GoesOn, local
  <2>3. proc'[j] = "XCPU" => ExpectedVerdict(Run(j)) = "TLE"
    <3>1. CASE ProgramExit(j)
      BY <1>t, <3>1 DEF ProgramExit, Ends, Exit
    <3>2. CASE KernelLimit(j)
      BY <1>t, <3>2 DEF KernelLimit, OverLimit, Computes, Exit, ExpectedVerdict
    <3>3. QED BY <1>13, <3>1, <3>2
  <2>4. Timely(j)' /\ EndedLate(j)'
    BY <1>a, <2>2, <2>3 DEF ExactAt, Timely, EndedLate, Run, CaseSteps, Running
  <2>5. ExactAt(j)'
    BY <1>a, <2>2, <2>4 DEF ExactAt, Expecting, CaseSteps, Running
  <2>6. QED BY <2>1, <2>5, OneExact
<1>14. CASE Tick
  <2>1. SUFFICES ASSUME NEW j \in Judges PROVE ExactAt(j)'
    BY DEF ExactInv
  <2>2. UNCHANGED <<pc, sub, idx, how, answer, proc>>
    BY <1>14 DEF Tick, local, osVars
  <2>3. Expecting(j)'
    BY <1>a, <2>2, DecidedKeeps DEF ExactAt, Expecting
  <2>4. EndedLate(j)' <=> EndedLate(j)
    BY <2>2 DEF EndedLate, Run
  <2>5. ThreadRests(j) /\ ChildRests(j)
    BY <1>14 DEF Tick, Idle
  <2>6. pc[j] \in CaseSteps => pc[j] \in {"poll", "drain"}
    BY <2>5 DEF ThreadRests, CaseSteps, Running
  <2>7. CASE pc[j] = "poll"
    <3>1. clock[j] <= RealLimit /\ proc[j] # "none" /\ proc[j] \notin Zombies
      BY <1>w, <2>5, <2>7 DEF ThreadRests, Children, Dead
    <3>2. proc[j] = "program"
      BY <1>t, <1>c, <2>7, <3>1 DEF Alive, Compiling
    <3>3. clock'[j] = clock[j] + 1
      <4>1. clock[j] < MaxClock
        BY <1>t, <3>1, JudgeAssumption DEF MaxClock
      <4>2. QED BY <1>14, <2>7, <4>1 DEF Tick, Timed
    <3>4. ~Run(j).long => GoesOn(j)
      BY <2>7, <3>2 DEF GoesOn, FedInv, Fed, CaseSteps, Running
    <3>5. Run(j) \in Behaviours
      BY <1>t, <2>7, RunsLength DEF TypeInv, AtCase, CaseSteps, Running, Run
    <3>6. Slow(Run(j))
      BY <2>5, <3>4, <3>5 DEF ChildRests, Ends, Slow, Behaviours, Endings
    <3>7. ASSUME ExpectedVerdict(Run(j)) = "MLE" PROVE cpu'[j] = clock'[j] /\ clock'[j] <= CpuHard
      <4>1. cpu[j] = clock[j]
        BY <1>a, <2>7, <3>7 DEF ExactAt, Timely, CaseSteps, Running
      <4>2. ~Run(j).long /\ Run(j).ends = "spinOn"
        BY <3>5, <3>7, SlowExpected
      <4>3. Computes(j) /\ CpuLimit(j) = CpuHard
        BY <3>4, <4>2 DEF Computes, CpuLimit
      <4>4. cpu[j] < CpuHard
        BY <1>t, <2>5, <4>3, LimitTypes DEF ChildRests, OverLimit
      <4>5. cpu'[j] = cpu[j] + 1
        BY <1>14, <4>3, <4>4 DEF Tick, Idle
      <4>6. QED BY <1>t, <3>3, <4>1, <4>4, <4>5, LimitTypes
    <3>8. Timely(j)'
      BY <2>2, <2>7, <3>6, <3>7 DEF Timely, Run
    <3>9. QED BY <1>a, <2>2, <2>3, <2>4, <2>7, <3>8 DEF ExactAt, CaseSteps, Running
  <2>8. CASE pc[j] # "poll"
    <3>1. pc'[j] \in CaseSteps => Timely(j)'
      BY <2>2, <2>6, <2>8 DEF Timely
    <3>2. QED BY <1>a, <2>2, <2>3, <2>4, <3>1 DEF ExactAt
  <2>9. QED BY <2>7, <2>8
<1>15. CASE UNCHANGED vars
  BY <1>15, <1>a, AloneKeeps DEF vars, Untouched, Alone, ExactInv
<1>16. CASE LeftMoves
  BY <1>16, <1>a, <1>t, AloneKeeps, LeftEffect DEF local, Untouched, Alone, ExactInv
<1>17. QED
  BY <1>1, <1>2, <1>3, <1>4, <1>5, <1>6, <1>7, <1>8, <1>9, <1>10, <1>11, <1>12, <1>13, <1>14,
     <1>15, <1>16 DEF Next, Thread, Child, LeftMoves

\* ExactInv is an invariant of the idle machine.
LEMMA ExactInvariant == ASSUME Idle PROVE Spec => []ExactInv
<1>f. "fork" \notin MayFail
  BY DEF Idle
<1>1. Init => ExactInv
  BY DEF Init, ExactInv, ExactAt, Expecting, CaseSteps, Running
<1>2. TypeInv /\ HoldInv /\ LeftInv /\ LateInv /\ GradeInv /\ FedInv /\ ExactInv /\ [Next]_vars =>
        ExactInv'
  BY ExactStep
<1>3. Spec => []LateInv
  BY <1>f, LateInvariant
<1>4. Spec => []GradeInv
  BY <1>f, GradeInvariant
<1>5. Spec => []FedInv
  BY FedInvariant
<1>6. QED
  BY <1>1, <1>2, <1>3, <1>4, <1>5, TypeInvariant, HoldInvariant, LeftInvariant, PTL DEF Spec

\* What is expected of a program that is not disputed is what is documented.
LEMMA ExpectedIsDocumented ==
  ASSUME NEW b \in Behaviours, ~Disputed(b) PROVE ExpectedVerdict(b) = DocumentedVerdict(b)
<1>1. ~b.long /\ b.ends \in Endings \ {"hog"}
  BY DEF Behaviours, Disputed
<1>2. CASE b.ends \in {"block", "spin"}
  BY <1>2 DEF ExpectedVerdict, DocumentedVerdict
<1>3. CASE b.ends = "spinOn"
  BY <1>1, <1>3 DEF ExpectedVerdict, DocumentedVerdict
<1>4. CASE b.ends \in {"exit1", "fault"}
  BY <1>1, <1>4 DEF ExpectedVerdict, DocumentedVerdict
<1>5. CASE b.ends = "exit0"
  BY <1>1, <1>5 DEF ExpectedVerdict, DocumentedVerdict
<1>6. QED BY <1>1, <1>2, <1>3, <1>4, <1>5 DEF Endings

\* Where no call fails, every thread and child that can go on does so before time
\* passes, the hard CPU limit is within the real one, and one thread judges at a
\* time or no program reads its input, the answer is the documented verdict of the
\* first case that is not accepted, unless a program is disputed (API.md 247-256,
\* judge_single 187-265, compile_and_judge 307-324).
THEOREM IdleIsExact ==
  ASSUME MayFail = {}, Prompt, CpuHard <= RealLimit,
         (\A i, k \in Judges : i = k) \/ (\A b \in Programs : ~b.reads)
  PROVE  Spec => []ExactVerdict
<1>1. TypeInv /\ ExactInv => ExactVerdict
  <2>1. SUFFICES ASSUME TypeInv, ExactInv, NEW j \in Judges, pc[j] = "done",
                        sub[j].compile = "ok", sub[j].runs # <<>>,
                        \A i \in 1..Len(sub[j].runs) : ~Disputed(sub[j].runs[i])
                 PROVE  JudgedAsDocumented(j)
    BY DEF ExactVerdict
  <2>2. \A i \in 1..Len(sub[j].runs) : sub[j].runs[i] \in Behaviours
    BY <2>1, RunsLength DEF TypeInv, TypeOK
  <2>3. \A i \in 1..Len(sub[j].runs) :
          ExpectedVerdict(sub[j].runs[i]) = DocumentedVerdict(sub[j].runs[i])
    BY <2>1, <2>2, ExpectedIsDocumented
  <2>4. {i \in 1..Len(sub[j].runs) : ExpectedVerdict(sub[j].runs[i]) # "AC"} = Failing(sub[j])
    BY <2>3 DEF Failing
  <2>5. Decided(j)
    BY <2>1 DEF ExactInv, ExactAt, Expecting
  <2>6. CASE Failing(sub[j]) = {}
    BY <2>4, <2>5, <2>6 DEF Decided, JudgedAsDocumented
  <2>7. CASE Failing(sub[j]) # {}
    <3>1. PICK i \in Failing(sub[j]) :
                 /\ \A k \in Failing(sub[j]) : i <= k
                 /\ answer[j] = Answer(ExpectedVerdict(sub[j].runs[i]), i)
      BY <2>4, <2>5, <2>7 DEF Decided
    <3>2. ExpectedVerdict(sub[j].runs[i]) = DocumentedVerdict(sub[j].runs[i])
      BY <2>3, <3>1 DEF Failing
    <3>3. QED BY <2>7, <3>1, <3>2 DEF JudgedAsDocumented
  <2>8. QED BY <2>6, <2>7
<1>2. Spec => []ExactInv
  BY ExactInvariant DEF Idle
<1>3. QED BY <1>1, <1>2, TypeInvariant, PTL

\* Under the same conditions, and if no program prints more than a pipe holds, one
\* that solves every case is accepted (API.md 251).
THEOREM IdleAccepts ==
  ASSUME MayFail = {}, Prompt, CpuHard <= RealLimit,
         (\A i, k \in Judges : i = k) \/ (\A b \in Programs : ~b.reads),
         \A b \in Programs : ~b.long
  PROVE  Spec => []CorrectAccepted
<1>1. TypeInv /\ ExactVerdict => CorrectAccepted
  <2>1. SUFFICES ASSUME TypeInv, ExactVerdict, NEW j \in Judges, pc[j] = "done",
                        sub[j].compile = "ok", sub[j].runs # <<>>,
                        \A i \in 1..Len(sub[j].runs) : Correct(sub[j].runs[i])
                 PROVE  answer[j].status = "AC"
    BY DEF CorrectAccepted
  <2>2. sub[j] \in Submissions
    BY <2>1 DEF TypeInv, TypeOK
  <2>3. PICK n \in 0..MaxCases : sub[j].runs \in [1..n -> Programs]
    BY <2>2 DEF Submissions
  <2>4. \A i \in 1..Len(sub[j].runs) : ~sub[j].runs[i].long
    BY <2>3, MaxCasesNat
  <2>5. \A i \in 1..Len(sub[j].runs) :
          ~Disputed(sub[j].runs[i]) /\ DocumentedVerdict(sub[j].runs[i]) = "AC"
    BY <2>1, <2>4 DEF Correct, DocumentedVerdict, Disputed
  <2>6. answer[j] = Answer("AC", 0)
    <3>1. Failing(sub[j]) = {}
      BY <2>5 DEF Failing
    <3>2. JudgedAsDocumented(j)
      BY <2>1, <2>5 DEF ExactVerdict
    <3>3. QED BY <3>1, <3>2 DEF JudgedAsDocumented
  <2>7. QED BY <2>6 DEF Answer
<1>2. QED BY <1>1, IdleIsExact, TypeInvariant, PTL

=============================================================================
