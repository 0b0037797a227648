----------------------------- MODULE JudgeProofs -----------------------------
(***************************************************************************)
(* Proofs about Judge, for any number of threads and cases, any programs,  *)
(* any limits and any choice of the system calls that may fail.            *)
(***************************************************************************)
EXTENDS Judge, TLAPS

Compiling == {"cmdClose", "cmdWait", "cmdRead"}     \* a compiler may be there
Running == {"close", "feed", "poll", "check"}       \* a program may be there
CaseSteps == {"pipes", "fork", "drain"} \cup Running

\* The thread is at a case of its submission while it runs one.
AtCase == \A j \in Judges : pc[j] \in CaseSteps => idx[j] \in 1..Len(sub[j].runs)

\* A submission without cases goes no further than its first step.
HasCases == \A j \in Judges : pc[j] \notin {"idle", "begin", "done"} => sub[j].runs # <<>>

\* A child exists only between its fork and the waitpid that takes it, and
\* never after a fork that failed.
ChildInv ==
  \A j \in Judges :
    /\ proc[j] # "none" => pc[j] \in Compiling \cup Running /\ ~noPid[j]
    /\ proc[j] = "compiler" => pc[j] \in Compiling
    /\ proc[j] = "program" => pc[j] \in Running
    /\ pc[j] = "cmdRead" /\ got[j] => proc[j] = "none"

\* TypeOK alone is not inductive: idx stays within MaxCases because the thread
\* is at a case, and what a program does has a type only while there is one.
TypeInv == TypeOK /\ AtCase /\ HasCases /\ ChildInv

\* A submission's programs: at most MaxCases.
LEMMA RunsLength ==
  ASSUME NEW s \in Submissions \cup {[compile |-> "error", runs |-> <<>>]}
  PROVE  /\ Len(s.runs) \in 0..MaxCases
         /\ \A i \in 1..Len(s.runs) : s.runs[i] \in Behaviours
         /\ s.runs = <<>> <=> Len(s.runs) = 0
  BY SubmissionsAssumption DEF Submissions

\* A child that is a zombie is neither alive nor none.
LEMMA ZombiesAreStates == Zombies \cap (Alive \cup {"none"}) = {}
  BY DEF Zombies, Alive

\* The bounds of the clocks are numbers.
LEMMA LimitTypes == MaxClock \in Nat /\ CpuHard \in Nat
  BY JudgeAssumption DEF MaxClock

\* The bound of the cases is a number.
LEMMA MaxCasesNat == MaxCases \in Nat
  BY SubmissionsAssumption

\* A verdict with the number of cases passed is an answer.
LEMMA AnswerType ==
  ASSUME NEW v \in Verdicts \cup {"CE", "none"}, NEW k \in 0..MaxCases
  PROVE  Answer(v, k) \in Answers
  BY DEF Answer, Answers

\* The invariant holds initially.
LEMMA InitTypeInv == Init => TypeInv
<1> SUFFICES ASSUME Init PROVE TypeInv
  OBVIOUS
<1>1. NoAnswer \in Answers
  BY AnswerType, SubmissionsAssumption DEF NoAnswer
<1>2. TypeOS
  BY DEF Init, InitOS, TypeOS, Pipes
<1>3. TypeOK
  BY <1>1, <1>2, LimitTypes, SubmissionsAssumption DEF Init, TypeOK, Steps, Outcomes
<1>4. AtCase /\ HasCases /\ ChildInv
  BY DEF Init, InitOS, AtCase, HasCases, ChildInv, CaseSteps, Running, Compiling
<1>5. QED BY <1>3, <1>4 DEF TypeInv

-----------------------------------------------------------------------------
\* What the services of the operating system do to the children and the holders
\* of write ends.

\* The holders of the pipes when some processes have let go.
LEMMA WithoutType ==
  ASSUME TypeOS, NEW S PROVE Without(writers, S) \in [Pipes -> SUBSET Holders]
  BY DEF TypeOS, Without

\* The holders of the pipes after a fork.
LEMMA InheritedType ==
  ASSUME TypeOS, NEW j \in Judges, NEW C
  PROVE  Inherited(writers, j, C) \in [Pipes -> SUBSET Holders]
  BY DEF TypeOS, Inherited, Holders

\* The three pipes of a thread.
LEMMA PipesOf ==
  \A j \in Judges : <<j, "cmd">> \in Pipes /\ <<j, "in">> \in Pipes /\ <<j, "out">> \in Pipes
  BY DEF Pipes, PipeOf

\* The server may hold an end.
LEMMA ServerHolds == {Server} \in SUBSET Holders
  BY DEF Holders

\* The holders of the pipes when one pipe changes.
LEMMA WritersUpdate ==
  ASSUME TypeOS, NEW p \in Pipes, NEW S \in SUBSET Holders
  PROVE  [writers EXCEPT ![p] = S] \in [Pipes -> SUBSET Holders]
  BY DEF TypeOS

\* A child ends: the types of proc and writers.
LEMMA ExitType ==
  ASSUME TypeOS, NEW j \in Judges, NEW z \in Zombies, Exit(j, z)
  PROVE  TypeOS'
  BY WithoutType DEF TypeOS, Exit

\* A waitpid takes zombies only.
LEMMA ReapedEffect ==
  ASSUME TypeOS, NEW S \in SUBSET Judges, Reaped(S)
  PROVE  /\ TypeOS'
         /\ UNCHANGED writers
         /\ \A j \in Judges : proc'[j] = proc[j] \/ (proc[j] \in Zombies /\ proc'[j] = "none")
         /\ \A j \in Judges : j \notin S => proc'[j] = proc[j]
         /\ \A j \in Judges : S = {j} => proc[j] \in Zombies /\ proc'[j] = "none"
<1>1. PICK k \in Dead(S) : Reap(k)
  BY DEF Reaped
<1>2. k \in S /\ proc[k] \in Zombies
  BY DEF Dead
<1>3. proc' = [proc EXCEPT ![k] = "none"] /\ UNCHANGED writers
  BY <1>1 DEF Reap
<1>4. QED BY <1>2, <1>3 DEF TypeOS

\* kill and waitpid leave no running child among those they are for, and end
\* no other; the killed ones close their write ends.
LEMMA KillEffect ==
  ASSUME TypeOS, NEW i \in Judges, NEW b, NEW S \in SUBSET Judges, S = Awaited(i, b),
         KillAndReap(i, b)
  PROVE  /\ TypeOS'
         /\ \A j \in Judges : j \notin S => proc'[j] = proc[j]
         /\ \A j \in S : proc'[j] \in Zombies \cup {"none"}
         /\ \A j \in Judges : proc[j] = "none" => proc'[j] = "none"
         /\ \A j \in Judges : S = {j} => proc'[j] = "none"
         /\ \A j \in Judges : proc[j] \in Zombies => proc'[j] \in {proc[j], "none"}
         /\ \A j \in Judges : proc'[j] \in {proc[j], "none", "KILL"}
         /\ writers' = Without(writers, {k \in S : proc[k] \in Alive} \cup Others(b))
<1> DEFINE hit == {k \in S : proc[k] \in Alive}
           killed == [k \in Judges |-> IF k \in hit THEN "KILL" ELSE proc[k]]
<1>1. killed \in [Judges -> Zombies \cup {"none"} \cup Alive]
  BY DEF TypeOS, Zombies
<1>2. \A j \in S : killed[j] \in Zombies \cup {"none"}
  BY DEF TypeOS, Zombies
<1>3. writers' = Without(writers, hit \cup Others(b)) /\ writers' \in [Pipes -> SUBSET Holders]
  BY WithoutType DEF KillAndReap
<1>4. CASE Children(S) = {} /\ proc' = killed
  BY <1>1, <1>2, <1>3, <1>4 DEF TypeOS, Children, Zombies, Alive
<1>5. CASE \E k \in Children(S) : proc' = [killed EXCEPT ![k] = "none"]
  <2>1. PICK k \in S : proc[k] # "none" /\ proc' = [killed EXCEPT ![k] = "none"]
    BY <1>5 DEF Children
  <2>2. proc' = [j \in Judges |-> IF j = k THEN "none" ELSE killed[j]]
    BY <2>1
  <2>3. QED BY <1>1, <1>2, <1>3, <2>1, <2>2 DEF TypeOS, Zombies, Alive
<1>6. QED BY <1>4, <1>5 DEF KillAndReap

\* What programs leave behind appears, or closes an end.
LeftMoves == (\E j \in Judges : ProgramClone(j)) \/ (\E p \in Pipes : LeftCloses(p))

\* The steps of a clone change no child and no holder but what is left behind.
LEMMA LeftEffect ==
  ASSUME TypeOS, LeftMoves
  PROVE  /\ TypeOS' /\ UNCHANGED <<local, clock, cpu, proc>>
         /\ \A p \in Pipes : \A k : k # Left => (k \in writers'[p] <=> k \in writers[p])
<1>1. CASE \E j \in Judges : ProgramClone(j)
  <2>1. PICK j \in Judges : ProgramClone(j)
    BY <1>1
  <2>2. QED BY <2>1 DEF ProgramClone, Clone, TypeOS, Holders
<1>2. CASE \E p \in Pipes : LeftCloses(p)
  <2>1. PICK p \in Pipes : LeftCloses(p)
    BY <1>2
  <2>2. QED BY <2>1 DEF LeftCloses, LetGo, TypeOS
<1>3. QED BY <1>1, <1>2 DEF LeftMoves

-----------------------------------------------------------------------------
\* waitpid looks at threads' children.
LEMMA AwaitedType == ASSUME NEW j \in Judges, NEW b PROVE Awaited(j, b) \in SUBSET Judges
  BY DEF Awaited

\* A kill leaves the children it is not for alone.
LEMMA KillLeaves ==
  ASSUME TypeOS, NEW i \in Judges, NEW b, KillAndReap(i, b)
  PROVE  \A j \in Judges : j \notin Awaited(i, b) => proc'[j] = proc[j]
<1> DEFINE S == Awaited(i, b)
<1>1. S \in SUBSET Judges /\ S = Awaited(i, b)
  BY AwaitedType
<1> HIDE DEF S
<1>2. QED BY <1>1, KillEffect

\* A kill for its own child only leaves all others alone.
LEMMA KillOwn ==
  ASSUME TypeOS, NEW i \in Judges, NEW b, Awaited(i, b) = {i},
         KillAndReap(i, b) \/ UNCHANGED <<proc, writers>>
  PROVE  \A j \in Judges \ {i} : proc'[j] = proc[j]
  BY KillLeaves

\* A kill turns running children into zombies or takes them, and starts none.
LEMMA KillEnds ==
  ASSUME TypeOS, NEW i \in Judges, NEW b, KillAndReap(i, b)
  PROVE  \A j \in Judges : proc'[j] \in {proc[j], "none", "KILL"}
<1> DEFINE S == Awaited(i, b)
<1>1. S \in SUBSET Judges /\ S = Awaited(i, b)
  BY AwaitedType
<1> HIDE DEF S
<1>2. QED BY <1>1, KillEffect

\* The answers that need no program.
LEMMA FixedAnswers == NoAnswer \in Answers /\ Answer("CE", 0) \in Answers
  BY AnswerType, MaxCasesNat DEF NoAnswer


\* TypeOK is preserved: one step per action, and under it one per variable that
\* the action changes.
LEMMA TypeOKStep == ASSUME TypeInv, [Next]_vars PROVE TypeOK'
<1> USE DEF TypeInv, Goto
<1>1. ASSUME NEW j \in Judges, Submit(j) PROVE TypeOK'
  <2>1. pc' \in [Judges -> Steps]
    BY <1>1 DEF TypeOK, Submit, Steps
  <2>2. sub' \in [Judges -> Submissions \cup {[compile |-> "error", runs |-> <<>>]}]
    BY <1>1 DEF TypeOK, Submit
  <2>3. idx' \in [Judges -> 0..MaxCases]
    BY <1>1, MaxCasesNat DEF TypeOK, Submit
  <2>4. answer' \in [Judges -> Answers]
    BY <1>1, FixedAnswers DEF TypeOK, Submit
  <2>5. QED BY <1>1, <2>1, <2>2, <2>3, <2>4 DEF TypeOK, Submit, osVars, TypeOS
<1>2. ASSUME NEW j \in Judges, MakeTempDir(j) PROVE TypeOK'
  <2>1. pc' \in [Judges -> Steps]
    <3>1. \E s \in Steps : pc' = [pc EXCEPT ![j] = s]
      BY <1>2 DEF MakeTempDir, CompileError, Steps
    <3>2. QED BY <3>1 DEF TypeOK
  <2>2. tmp' \in [Judges -> BOOLEAN]
    BY <1>2 DEF TypeOK, MakeTempDir, CompileError
  <2>3. bin' \in [Judges -> BOOLEAN]
    BY <1>2 DEF TypeOK, MakeTempDir, CompileError
  <2>4. answer' \in [Judges -> Answers]
    BY <1>2, FixedAnswers DEF TypeOK, MakeTempDir, CompileError
  <2>5. QED BY <1>2, <2>1, <2>2, <2>3, <2>4 DEF TypeOK, MakeTempDir, CompileError, osVars, TypeOS
<1>3. ASSUME NEW j \in Judges, WriteSource(j) PROVE TypeOK'
  <2>1. pc' \in [Judges -> Steps]
    <3>1. \E s \in Steps : pc' = [pc EXCEPT ![j] = s]
      BY <1>3 DEF WriteSource, CompileError, Steps
    <3>2. QED BY <3>1 DEF TypeOK
  <2>2. tmp' \in [Judges -> BOOLEAN]
    BY <1>3 DEF TypeOK, WriteSource, CompileError
  <2>3. bin' \in [Judges -> BOOLEAN]
    BY <1>3 DEF TypeOK, WriteSource, CompileError
  <2>4. answer' \in [Judges -> Answers]
    BY <1>3, FixedAnswers DEF TypeOK, WriteSource, CompileError
  <2>5. QED BY <1>3, <2>1, <2>2, <2>3, <2>4 DEF TypeOK, WriteSource, CompileError, osVars, TypeOS
<1>4. ASSUME NEW j \in Judges, OpenCommandPipe(j) PROVE TypeOK'
  <2>1. pc' \in [Judges -> Steps]
    <3>1. \E s \in Steps : pc' = [pc EXCEPT ![j] = s]
      BY <1>4 DEF OpenCommandPipe, Steps
    <3>2. QED BY <3>1 DEF TypeOK
  <2>2. TypeOS'
    <3>1. [writers EXCEPT ![<<j, "cmd">>] = {Server}] \in [Pipes -> SUBSET Holders]
      BY WritersUpdate, PipesOf, ServerHolds DEF TypeOK
    <3>2. QED BY <1>4, <3>1 DEF TypeOK, TypeOS, OpenCommandPipe
  <2>3. QED BY <1>4, <2>1, <2>2 DEF TypeOK, OpenCommandPipe
<1>5. ASSUME NEW j \in Judges, ForkCompiler(j) PROVE TypeOK'
  <2>1. pc' \in [Judges -> Steps]
    BY <1>5 DEF TypeOK, ForkCompiler, Fork, Steps
  <2>2. TypeOS'
    <3>1. Inherited(writers, j, {}) \in [Pipes -> SUBSET Holders]
      BY InheritedType DEF TypeOK
    <3>2. QED BY <1>5, <3>1 DEF TypeOK, TypeOS, ForkCompiler, Fork, Alive, osVars
  <2>3. noPid' \in [Judges -> BOOLEAN]
    BY <1>5 DEF TypeOK, ForkCompiler, Fork
  <2>4. QED BY <1>5, <2>1, <2>2, <2>3 DEF TypeOK, ForkCompiler, Fork
<1>6. ASSUME NEW j \in Judges, CloseCommandPipe(j) PROVE TypeOK'
  <2>1. pc' \in [Judges -> Steps]
    BY <1>6 DEF TypeOK, CloseCommandPipe, CloseEnd, Steps
  <2>2. TypeOS'
    BY <1>6 DEF TypeOK, CloseCommandPipe, CloseEnd, TypeOS, Pipes
  <2>3. clock' \in [Judges -> 0..MaxClock]
    BY <1>6, LimitTypes DEF TypeOK, CloseCommandPipe, CloseEnd
  <2>4. QED BY <1>6, <2>1, <2>2, <2>3 DEF TypeOK, CloseCommandPipe, CloseEnd
<1>7. ASSUME NEW j \in Judges, WaitCompiler(j) PROVE TypeOK'
  <2> Awaited(j, noPid[j]) \in SUBSET Judges
    BY AwaitedType
  <2>1. pc' \in [Judges -> Steps]
    <3>1. \E s \in Steps : pc' = [pc EXCEPT ![j] = s]
      BY <1>7 DEF WaitCompiler, Steps
    <3>2. QED BY <3>1 DEF TypeOK
  <2>2. TypeOS'
    BY <1>7, ReapedEffect DEF TypeOK, WaitCompiler, NoChild, NotYet, osVars, TypeOS
  <2>3. got' \in [Judges -> BOOLEAN]
    BY <1>7 DEF TypeOK, WaitCompiler
  <2>4. QED BY <1>7, <2>1, <2>2, <2>3 DEF TypeOK, WaitCompiler
<1>8. ASSUME NEW j \in Judges, ReadCommand(j) PROVE TypeOK'
  <2> Awaited(j, noPid[j]) \in SUBSET Judges
    BY AwaitedType
  <2>1. pc' \in [Judges -> Steps]
    <3>1. \E s \in Steps : pc' = [pc EXCEPT ![j] = s]
      BY <1>8 DEF ReadCommand, Steps
    <3>2. QED BY <3>1 DEF TypeOK
  <2>2. TypeOS'
    BY <1>8, KillEffect DEF TypeOK, ReadCommand, osVars, TypeOS
  <2>3. clock' \in [Judges -> 0..MaxClock]
    BY <1>8, LimitTypes DEF TypeOK, ReadCommand
  <2>4. got' \in [Judges -> BOOLEAN]
    BY <1>8 DEF TypeOK, ReadCommand
  <2>5. noPid' \in [Judges -> BOOLEAN]
    BY <1>8 DEF TypeOK, ReadCommand
  <2>6. QED BY <1>8, <2>1, <2>2, <2>3, <2>4, <2>5 DEF TypeOK, ReadCommand
<1>9. ASSUME NEW j \in Judges, StatProgram(j) PROVE TypeOK'
  <2>1. pc' \in [Judges -> Steps]
    <3>1. \E s \in Steps : pc' = [pc EXCEPT ![j] = s]
      BY <1>9 DEF StatProgram, CompileError, Steps
    <3>2. QED BY <3>1 DEF TypeOK
  <2>2. idx' \in [Judges -> 0..MaxCases]
    <3>1. 1 \in 0..MaxCases
      <4>1. sub[j].runs # <<>> /\ sub[j] \in Submissions \cup {[compile |-> "error", runs |-> <<>>]}
        BY <1>9 DEF TypeOK, StatProgram, CompileError, HasCases
      <4>2. QED BY <4>1, RunsLength, MaxCasesNat
    <3>2. QED BY <1>9, <3>1 DEF TypeOK, StatProgram, CompileError
  <2>3. tmp' \in [Judges -> BOOLEAN]
    BY <1>9 DEF TypeOK, StatProgram, CompileError
  <2>4. bin' \in [Judges -> BOOLEAN]
    BY <1>9 DEF TypeOK, StatProgram, CompileError
  <2>5. answer' \in [Judges -> Answers]
    BY <1>9, FixedAnswers DEF TypeOK, StatProgram, CompileError
  <2>6. QED BY <1>9, <2>1, <2>2, <2>3, <2>4, <2>5 DEF TypeOK, StatProgram, CompileError, osVars,
        TypeOS
<1>10. ASSUME NEW j \in Judges, OpenPipes(j) PROVE TypeOK'
  <2>1. pc' \in [Judges -> Steps]
    <3>1. \E s \in Steps : pc' = [pc EXCEPT ![j] = s]
      BY <1>10 DEF OpenPipes, Steps
    <3>2. QED BY <3>1 DEF TypeOK
  <2>2. TypeOS'
    <3>1. /\ [writers EXCEPT ![<<j, "in">>] = {Server}] \in [Pipes -> SUBSET Holders]
          /\ [writers EXCEPT ![<<j, "in">>] = {Server}, ![<<j, "out">>] = {Server}]
               \in [Pipes -> SUBSET Holders]
      BY PipesOf, ServerHolds DEF TypeOK, TypeOS
    <3>2. QED BY <1>10, <3>1 DEF TypeOK, TypeOS, OpenPipes
  <2>3. answer' \in [Judges -> Answers]
    <3>1. Answer("RE", idx[j]) \in Answers
      BY AnswerType DEF TypeOK, Verdicts
    <3>2. QED BY <1>10, <3>1 DEF TypeOK, OpenPipes
  <2>4. QED BY <1>10, <2>1, <2>2, <2>3 DEF TypeOK, OpenPipes
<1>11. ASSUME NEW j \in Judges, ForkProgram(j) PROVE TypeOK'
  <2>1. pc' \in [Judges -> Steps]
    BY <1>11 DEF TypeOK, ForkProgram, Fork, Steps
  <2>2. TypeOS'
    <3>1. Inherited(writers, j, {<<j, "in">>}) \in [Pipes -> SUBSET Holders]
      BY InheritedType DEF TypeOK
    <3>2. QED BY <1>11, <3>1 DEF TypeOK, TypeOS, ForkProgram, Fork, Alive, osVars
  <2>3. noPid' \in [Judges -> BOOLEAN]
    BY <1>11 DEF TypeOK, ForkProgram, Fork
  <2>4. cpu' \in [Judges -> 0..CpuHard]
    BY <1>11, LimitTypes DEF TypeOK, ForkProgram, Fork
  <2>5. QED BY <1>11, <2>1, <2>2, <2>3, <2>4 DEF TypeOK, ForkProgram, Fork
<1>12. ASSUME NEW j \in Judges, CloseChildEnds(j) PROVE TypeOK'
  <2>1. pc' \in [Judges -> Steps]
    BY <1>12 DEF TypeOK, CloseChildEnds, CloseEnd, Steps
  <2>2. TypeOS'
    BY <1>12 DEF TypeOK, CloseChildEnds, CloseEnd, TypeOS, Pipes
  <2>3. QED BY <1>12, <2>1, <2>2 DEF TypeOK, CloseChildEnds, CloseEnd
<1>13. ASSUME NEW j \in Judges, FeedInput(j) PROVE TypeOK'
  <2>1. pc' \in [Judges -> Steps]
    BY <1>13 DEF TypeOK, FeedInput, CloseEnd, Steps
  <2>2. TypeOS'
    BY <1>13 DEF TypeOK, FeedInput, CloseEnd, TypeOS, Pipes
  <2>3. clock' \in [Judges -> 0..MaxClock]
    BY <1>13, LimitTypes DEF TypeOK, FeedInput, CloseEnd
  <2>4. QED BY <1>13, <2>1, <2>2, <2>3 DEF TypeOK, FeedInput, CloseEnd
<1>14. ASSUME NEW j \in Judges, PollProgram(j) PROVE TypeOK'
  <2> Awaited(j, noPid[j]) \in SUBSET Judges
    BY AwaitedType
  <2>1. pc' \in [Judges -> Steps]
    <3>1. \E s \in Steps : pc' = [pc EXCEPT ![j] = s]
      BY <1>14 DEF PollProgram, Steps
    <3>2. QED BY <3>1 DEF TypeOK
  <2>2. TypeOS'
    BY <1>14, ReapedEffect DEF TypeOK, PollProgram, NoChild, NotYet, osVars, TypeOS
  <2>3. how' \in [Judges -> Outcomes]
    <3>1. ~noPid[j] => Awaited(j, noPid[j]) = {j}
      BY DEF Awaited
    <3>2. Reaped(Awaited(j, noPid[j])) /\ ~noPid[j] => proc[j] \in Zombies
      BY <3>1, ReapedEffect DEF TypeOK
    <3>3. how' = how \/ \E h \in Outcomes : how' = [how EXCEPT ![j] = h]
      BY <1>14, <3>2 DEF TypeOK, PollProgram, Outcomes
    <3>4. QED BY <3>3 DEF TypeOK
  <2>4. QED BY <1>14, <2>1, <2>2, <2>3 DEF TypeOK, PollProgram
<1>15. ASSUME NEW j \in Judges, CheckElapsed(j) PROVE TypeOK'
  <2> Awaited(j, noPid[j]) \in SUBSET Judges
    BY AwaitedType
  <2>1. pc' \in [Judges -> Steps]
    <3>1. pc' = [pc EXCEPT ![j] = "drain"] \/ pc' = [pc EXCEPT ![j] = "poll"]
      BY <1>15 DEF CheckElapsed
    <3>2. QED BY <3>1 DEF TypeOK, Steps
  <2>2. TypeOS'
    BY <1>15, KillEffect DEF TypeOK, CheckElapsed, osVars, TypeOS
  <2>3. how' \in [Judges -> Outcomes]
    BY <1>15 DEF TypeOK, CheckElapsed, Outcomes
  <2>4. QED BY <1>15, <2>1, <2>2, <2>3 DEF TypeOK, CheckElapsed
<1>16. ASSUME NEW j \in Judges, Drain(j) PROVE TypeOK'
  <2>1. pc' \in [Judges -> Steps]
    BY <1>16 DEF TypeOK, Drain, Steps
  <2>2. idx' \in [Judges -> 0..MaxCases]
    <3>1. idx[j] \in 1..Len(sub[j].runs) /\ Len(sub[j].runs) \in 0..MaxCases
      BY <1>16, RunsLength DEF TypeOK, Drain, AtCase, CaseSteps
    <3>2. QED BY <1>16, <3>1, MaxCasesNat DEF TypeOK, Drain, LastCase
  <2>3. answer' \in [Judges -> Answers]
    <3>1. Verdict(j) \in Verdicts
      BY DEF Verdict, Verdicts
    <3>2. Answer(Verdict(j), IF Verdict(j) = "AC" THEN 0 ELSE idx[j]) \in Answers
      BY <3>1, AnswerType, MaxCasesNat DEF TypeOK
    <3>3. QED BY <1>16, <3>2 DEF TypeOK, Drain
  <2>4. how' \in [Judges -> Outcomes]
    BY <1>16 DEF TypeOK, Drain, Outcomes
  <2>5. noPid' \in [Judges -> BOOLEAN]
    BY <1>16 DEF TypeOK, Drain
  <2>6. clock' \in [Judges -> 0..MaxClock]
    BY <1>16, LimitTypes DEF TypeOK, Drain
  <2>7. cpu' \in [Judges -> 0..CpuHard]
    BY <1>16, LimitTypes DEF TypeOK, Drain
  <2>8. QED BY <1>16, <2>1, <2>2, <2>3, <2>4, <2>5, <2>6, <2>7 DEF TypeOK, Drain, osVars, TypeOS
<1>17. ASSUME NEW j \in Judges, RemoveTempDir(j) PROVE TypeOK'
  <2>1. pc' \in [Judges -> Steps]
    BY <1>17 DEF TypeOK, RemoveTempDir, Steps
  <2>2. tmp' \in [Judges -> BOOLEAN]
    BY <1>17 DEF TypeOK, RemoveTempDir
  <2>3. bin' \in [Judges -> BOOLEAN]
    BY <1>17 DEF TypeOK, RemoveTempDir
  <2>4. QED BY <1>17, <2>1, <2>2, <2>3 DEF TypeOK, RemoveTempDir, osVars, TypeOS
<1>18. ASSUME NEW j \in Judges, CompilerExit(j) PROVE TypeOK'
  <2>1. TypeOS'
    BY <1>18, ExitType DEF TypeOK, CompilerExit, Zombies
  <2>2. bin' \in [Judges -> BOOLEAN]
    BY <1>18 DEF TypeOK, CompilerExit
  <2>3. QED BY <1>18, <2>1, <2>2 DEF TypeOK, CompilerExit
<1>19. ASSUME NEW j \in Judges, ProgramExit(j) PROVE TypeOK'
  <2>1. TypeOS'
    BY <1>19, ExitType DEF TypeOK, ProgramExit, Ends, Zombies
  <2>2. QED BY <1>19, <2>1 DEF TypeOK, ProgramExit, local
<1>20. ASSUME NEW j \in Judges, KernelLimit(j) PROVE TypeOK'
  <2>1. TypeOS'
    BY <1>20, ExitType DEF TypeOK, KernelLimit, Zombies
  <2>2. QED BY <1>20, <2>1 DEF TypeOK, KernelLimit, local
<1>21. CASE Tick
  <2>1. clock' \in [Judges -> 0..MaxClock]
    BY <1>21, LimitTypes DEF TypeOK, Tick
  <2>2. \A j \in Judges : CpuLimit(j) \in Nat /\ CpuLimit(j) <= CpuHard
    BY JudgeAssumption DEF CpuLimit
  <2>3. cpu' \in [Judges -> 0..CpuHard]
    <3>1. PICK S \in SUBSET {j \in Judges : cpu[j] < CpuLimit(j)} :
            cpu' = [j \in Judges |-> IF j \in S THEN cpu[j] + 1 ELSE cpu[j]]
      BY <1>21 DEF Tick
    <3>2. QED BY <2>2, <3>1, LimitTypes DEF TypeOK
  <2>4. QED BY <1>21, <2>1, <2>3 DEF Tick, local, osVars, TypeOK, TypeOS
<1>22. CASE UNCHANGED vars
  BY <1>22 DEF vars, TypeOK, TypeOS
<1>24. CASE LeftMoves
  BY <1>24, LeftEffect DEF TypeOK, local
<1>25. QED
  BY <1>1, <1>2, <1>3, <1>4, <1>5, <1>6, <1>7, <1>8, <1>9, <1>10,
     <1>11, <1>12, <1>13, <1>14, <1>15, <1>16, <1>17, <1>18, <1>19, <1>20, <1>21, <1>22, <1>24
       DEF Next, Thread, Child, LeftMoves

\* The thread's place in its submission, and its child, fit its step.
LEMMA PlaceStep == ASSUME TypeInv, [Next]_vars PROVE AtCase' /\ HasCases'
<1> USE DEF TypeInv, TypeOK, AtCase, HasCases, CaseSteps, Running, Goto
<1>1. ASSUME NEW j \in Judges, Submit(j) PROVE AtCase' /\ HasCases'
  BY <1>1 DEF Submit
<1>2. ASSUME NEW j \in Judges, MakeTempDir(j) PROVE AtCase' /\ HasCases'
  BY <1>2 DEF MakeTempDir, CompileError
<1>3. ASSUME NEW j \in Judges, WriteSource(j) PROVE AtCase' /\ HasCases'
  BY <1>3 DEF WriteSource, CompileError
<1>4. ASSUME NEW j \in Judges, OpenCommandPipe(j) PROVE AtCase' /\ HasCases'
  BY <1>4 DEF OpenCommandPipe
<1>5. ASSUME NEW j \in Judges, ForkCompiler(j) PROVE AtCase' /\ HasCases'
  BY <1>5 DEF ForkCompiler
<1>6. ASSUME NEW j \in Judges, CloseCommandPipe(j) PROVE AtCase' /\ HasCases'
  BY <1>6 DEF CloseCommandPipe
<1>7. ASSUME NEW j \in Judges, WaitCompiler(j) PROVE AtCase' /\ HasCases'
  BY <1>7 DEF WaitCompiler
<1>8. ASSUME NEW j \in Judges, ReadCommand(j) PROVE AtCase' /\ HasCases'
  BY <1>8 DEF ReadCommand
<1>9. ASSUME NEW j \in Judges, StatProgram(j) PROVE AtCase' /\ HasCases'
  <2>1. 1 \in 1..Len(sub[j].runs)
    <3>1. sub[j].runs # <<>> /\ sub[j] \in Submissions \cup {[compile |-> "error", runs |-> <<>>]}
      BY <1>9 DEF StatProgram, CompileError
    <3>2. QED BY <3>1, RunsLength, MaxCasesNat
  <2>2. QED BY <1>9, <2>1 DEF StatProgram, CompileError
<1>10. ASSUME NEW j \in Judges, OpenPipes(j) PROVE AtCase' /\ HasCases'
  BY <1>10 DEF OpenPipes
<1>11. ASSUME NEW j \in Judges, ForkProgram(j) PROVE AtCase' /\ HasCases'
  BY <1>11 DEF ForkProgram
<1>12. ASSUME NEW j \in Judges, CloseChildEnds(j) PROVE AtCase' /\ HasCases'
  BY <1>12 DEF CloseChildEnds
<1>13. ASSUME NEW j \in Judges, FeedInput(j) PROVE AtCase' /\ HasCases'
  BY <1>13 DEF FeedInput
<1>14. ASSUME NEW j \in Judges, PollProgram(j) PROVE AtCase' /\ HasCases'
  BY <1>14 DEF PollProgram
<1>15. ASSUME NEW j \in Judges, CheckElapsed(j) PROVE AtCase' /\ HasCases'
  BY <1>15 DEF CheckElapsed
<1>16. ASSUME NEW j \in Judges, Drain(j) PROVE AtCase' /\ HasCases'
  <2>1. idx[j] \in 1..Len(sub[j].runs) /\ Len(sub[j].runs) \in Nat
    BY <1>16, RunsLength, MaxCasesNat DEF Drain
  <2>2. CASE Verdict(j) = "AC" /\ ~LastCase(j)
    BY <1>16, <2>1, <2>2 DEF Drain, LastCase
  <2>3. CASE ~(Verdict(j) = "AC" /\ ~LastCase(j))
    BY <1>16, <2>1, <2>3 DEF Drain
  <2>4. QED BY <2>2, <2>3
<1>17. ASSUME NEW j \in Judges, RemoveTempDir(j) PROVE AtCase' /\ HasCases'
  BY <1>17 DEF RemoveTempDir
<1>18. ASSUME NEW j \in Judges, CompilerExit(j) PROVE AtCase' /\ HasCases'
  BY <1>18 DEF CompilerExit
<1>19. ASSUME NEW j \in Judges, ProgramExit(j) PROVE AtCase' /\ HasCases'
  BY <1>19 DEF ProgramExit, local
<1>20. ASSUME NEW j \in Judges, KernelLimit(j) PROVE AtCase' /\ HasCases'
  BY <1>20 DEF KernelLimit, local
<1>21. CASE Tick
  BY <1>21 DEF Tick, local
<1>22. CASE UNCHANGED vars
  BY <1>22 DEF vars
<1>24. CASE LeftMoves
  BY <1>24, LeftEffect DEF local
<1>25. QED
  BY <1>1, <1>2, <1>3, <1>4, <1>5, <1>6, <1>7, <1>8, <1>9, <1>10,
     <1>11, <1>12, <1>13, <1>14, <1>15, <1>16, <1>17, <1>18, <1>19, <1>20, <1>21, <1>22, <1>24
       DEF Next, Thread, Child, LeftMoves

\* A child exists only between its fork and its waitpid: preserved by every step.
LEMMA ChildStep == ASSUME TypeInv, [Next]_vars PROVE ChildInv'
<1> USE DEF TypeInv, TypeOK, ChildInv, Compiling, Running, Goto
<1>1. ASSUME NEW j \in Judges, Submit(j) PROVE ChildInv'
  BY <1>1 DEF Submit, osVars
<1>2. ASSUME NEW j \in Judges, MakeTempDir(j) PROVE ChildInv'
  BY <1>2 DEF MakeTempDir, CompileError, osVars
<1>3. ASSUME NEW j \in Judges, WriteSource(j) PROVE ChildInv'
  BY <1>3 DEF WriteSource, CompileError, osVars
<1>4. ASSUME NEW j \in Judges, OpenCommandPipe(j) PROVE ChildInv'
  BY <1>4 DEF OpenCommandPipe
<1>5. ASSUME NEW j \in Judges, ForkCompiler(j) PROVE ChildInv'
  <2>1. proc[j] = "none"
    BY <1>5 DEF ForkCompiler
  <2>2. CASE proc' = [proc EXCEPT ![j] = "compiler"] /\ noPid' = [noPid EXCEPT ![j] = FALSE]
    BY <1>5, <2>2 DEF ForkCompiler
  <2>3. CASE UNCHANGED osVars /\ noPid' = [noPid EXCEPT ![j] = TRUE]
    BY <1>5, <2>1, <2>3 DEF ForkCompiler, osVars
  <2>4. QED BY <1>5, <2>2, <2>3 DEF ForkCompiler, Fork
<1>6. ASSUME NEW j \in Judges, CloseCommandPipe(j) PROVE ChildInv'
  BY <1>6 DEF CloseCommandPipe
<1>7. ASSUME NEW j \in Judges, WaitCompiler(j) PROVE ChildInv'
  <2> DEFINE S == Awaited(j, noPid[j])
  <2>1. S \in SUBSET Judges /\ (~noPid[j] => S = {j})
    BY DEF Awaited
  <2>2. UNCHANGED noPid /\ \A k \in Judges \ {j} : pc'[k] = pc[k] /\ got'[k] = got[k]
    BY <1>7 DEF WaitCompiler
  <2>3. CASE Reaped(S)
    <3>1. \A k \in Judges : proc'[k] = proc[k] \/ proc'[k] = "none"
      BY <2>1, <2>3, ReapedEffect
    <3>2. proc'[j] = "none"
      <4>1. CASE noPid[j]
        BY <1>7, <3>1, <4>1
      <4>2. CASE ~noPid[j]
        BY <2>1, <2>3, <4>2, ReapedEffect
      <4>3. QED BY <4>1, <4>2
    <3>3. QED BY <2>2, <3>1, <3>2
  <2>4. CASE NoChild(S)
    BY <1>7, <2>1, <2>2, <2>4 DEF WaitCompiler, NoChild, Children, osVars
  <2>5. CASE NotYet(S) /\ pc'[j] # "drain"
    BY <1>7, <2>5 DEF WaitCompiler, NotYet, NoChild, Reaped, Dead, osVars
  <2>6. QED BY <1>7, <2>3, <2>4, <2>5 DEF WaitCompiler
<1>8. ASSUME NEW j \in Judges, ReadCommand(j) PROVE ChildInv'
  <2> DEFINE S == Awaited(j, noPid[j])
  <2>1. S \in SUBSET Judges /\ (~noPid[j] => S = {j})
    BY DEF Awaited
  <2>2. CASE KillAndReap(j, noPid[j]) /\ pc'[j] = "stat"
    <3>1. \A k \in Judges : proc'[k] \in Zombies \cup {proc[k], "none"}
      BY <2>1, <2>2, KillEffect DEF Zombies
    <3>2. \A k \in Judges : proc[k] = "none" => proc'[k] = "none"
      BY <2>1, <2>2, KillEffect
    <3>3. proc'[j] = "none"
      <4>1. CASE noPid[j]
        BY <1>8, <3>2, <4>1
      <4>2. CASE ~noPid[j]
        BY <2>1, <2>2, <4>2, KillEffect
      <4>3. QED BY <4>1, <4>2
    <3>4. QED BY <1>8, <3>1, <3>2, <3>3 DEF ReadCommand, Zombies
  <2>3. CASE UNCHANGED osVars /\ (got[j] \/ pc'[j] = "cmdWait")
    BY <1>8, <2>3 DEF ReadCommand, osVars
  <2>4. QED BY <1>8, <2>2, <2>3 DEF ReadCommand
<1>9. ASSUME NEW j \in Judges, StatProgram(j) PROVE ChildInv'
  BY <1>9 DEF StatProgram, CompileError, osVars
<1>10. ASSUME NEW j \in Judges, OpenPipes(j) PROVE ChildInv'
  BY <1>10 DEF OpenPipes
<1>11. ASSUME NEW j \in Judges, ForkProgram(j) PROVE ChildInv'
  <2>1. proc[j] = "none"
    BY <1>11 DEF ForkProgram
  <2>2. CASE proc' = [proc EXCEPT ![j] = "program"] /\ noPid' = [noPid EXCEPT ![j] = FALSE]
    BY <1>11, <2>2 DEF ForkProgram
  <2>3. CASE UNCHANGED osVars /\ noPid' = [noPid EXCEPT ![j] = TRUE]
    BY <1>11, <2>1, <2>3 DEF ForkProgram, osVars
  <2>4. QED BY <1>11, <2>2, <2>3 DEF ForkProgram, Fork
<1>12. ASSUME NEW j \in Judges, CloseChildEnds(j) PROVE ChildInv'
  BY <1>12 DEF CloseChildEnds
<1>13. ASSUME NEW j \in Judges, FeedInput(j) PROVE ChildInv'
  BY <1>13 DEF FeedInput
<1>14. ASSUME NEW j \in Judges, PollProgram(j) PROVE ChildInv'
  <2> DEFINE S == Awaited(j, noPid[j])
  <2>1. S \in SUBSET Judges /\ (~noPid[j] => S = {j})
    BY DEF Awaited
  <2>2. UNCHANGED noPid /\ \A k \in Judges \ {j} : pc'[k] = pc[k] /\ got'[k] = got[k]
    BY <1>14 DEF PollProgram
  <2>3. CASE Reaped(S)
    <3>1. \A k \in Judges : proc'[k] = proc[k] \/ proc'[k] = "none"
      BY <2>1, <2>3, ReapedEffect
    <3>2. proc'[j] = "none"
      <4>1. CASE noPid[j]
        BY <1>14, <3>1, <4>1
      <4>2. CASE ~noPid[j]
        BY <2>1, <2>3, <4>2, ReapedEffect
      <4>3. QED BY <4>1, <4>2
    <3>3. QED BY <2>2, <3>1, <3>2
  <2>4. CASE NoChild(S)
    BY <1>14, <2>1, <2>2, <2>4 DEF PollProgram, NoChild, Children, osVars
  <2>5. CASE NotYet(S) /\ pc'[j] # "drain"
    BY <1>14, <2>5 DEF PollProgram, NotYet, NoChild, Reaped, Dead, osVars
  <2>6. QED BY <1>14, <2>3, <2>4, <2>5 DEF PollProgram
<1>15. ASSUME NEW j \in Judges, CheckElapsed(j) PROVE ChildInv'
  <2> DEFINE S == Awaited(j, noPid[j])
  <2>1. S \in SUBSET Judges /\ (~noPid[j] => S = {j})
    BY DEF Awaited
  <2>2. CASE KillAndReap(j, noPid[j]) /\ pc'[j] = "drain"
    <3>1. \A k \in Judges : proc'[k] \in Zombies \cup {proc[k], "none"}
      BY <2>1, <2>2, KillEffect DEF Zombies
    <3>2. \A k \in Judges : proc[k] = "none" => proc'[k] = "none"
      BY <2>1, <2>2, KillEffect
    <3>3. proc'[j] = "none"
      <4>1. CASE noPid[j]
        BY <1>15, <3>2, <4>1
      <4>2. CASE ~noPid[j]
        BY <2>1, <2>2, <4>2, KillEffect
      <4>3. QED BY <4>1, <4>2
    <3>4. QED BY <1>15, <3>1, <3>2, <3>3 DEF CheckElapsed, Zombies
  <2>3. CASE UNCHANGED osVars /\ pc'[j] = "poll"
    BY <1>15, <2>3 DEF CheckElapsed, osVars
  <2>4. QED BY <1>15, <2>2, <2>3 DEF CheckElapsed
<1>16. ASSUME NEW j \in Judges, Drain(j) PROVE ChildInv'
  BY <1>16 DEF Drain, osVars
<1>17. ASSUME NEW j \in Judges, RemoveTempDir(j) PROVE ChildInv'
  BY <1>17 DEF RemoveTempDir, osVars
<1>18. ASSUME NEW j \in Judges, CompilerExit(j) PROVE ChildInv'
  BY <1>18 DEF CompilerExit, Exit
<1>19. ASSUME NEW j \in Judges, ProgramExit(j) PROVE ChildInv'
  BY <1>19 DEF ProgramExit, Ends, GoesOn, Exit, local
<1>20. ASSUME NEW j \in Judges, KernelLimit(j) PROVE ChildInv'
  BY <1>20 DEF KernelLimit, OverLimit, Computes, GoesOn, Exit, local
<1>21. CASE Tick
  BY <1>21 DEF Tick, local, osVars
<1>22. CASE UNCHANGED vars
  BY <1>22 DEF vars
<1>24. CASE LeftMoves
  BY <1>24, LeftEffect DEF local
<1>25. QED
  BY <1>1, <1>2, <1>3, <1>4, <1>5, <1>6, <1>7, <1>8, <1>9, <1>10,
     <1>11, <1>12, <1>13, <1>14, <1>15, <1>16, <1>17, <1>18, <1>19, <1>20, <1>21, <1>22, <1>24
       DEF Next, Thread, Child, LeftMoves

\* TypeInv is an invariant.
LEMMA TypeInvariant == Spec => []TypeInv
<1>1. TypeInv /\ [Next]_vars => TypeInv'
  BY TypeOKStep, PlaceStep, ChildStep DEF TypeInv
<1>2. QED BY InitTypeInv, <1>1, PTL DEF Spec

\* Every variable keeps its type.
THEOREM TypeCorrect == Spec => []TypeOK
  BY TypeInvariant, PTL DEF TypeInv

-----------------------------------------------------------------------------
(***************************************************************************)
(* Who holds the write ends of the judge's pipes: a thread never waits for *)
(* the server itself, nor for a child that is dead.                        *)
(***************************************************************************)

\* A child holds write ends only while it runs.
HeldByLiving == \A p \in Pipes : \A k \in Judges : k \in writers[p] => proc[k] \in Alive

\* The server holds the ends that a thread reads only between its pipe() and
\* its close(), and the end that a compiler inherits up to the fork.
CmdHeld(j) == Server \in writers[<<j, "cmd">>] => pc[j] \in {"cmdFork", "cmdClose"}
OutHeld(j) == Server \in writers[<<j, "out">>] => pc[j] \in {"fork", "close"}
CmdOpen(j) == pc[j] = "cmdFork" => Server \in writers[<<j, "cmd">>]
HeldByServer == \A j \in Judges : CmdHeld(j) /\ OutHeld(j) /\ CmdOpen(j)

\* A compiler holds the write end of the pipe its own thread reads.
CompilerHolds == \A j \in Judges : proc[j] = "compiler" => j \in writers[<<j, "cmd">>]

HoldInv == HeldByLiving /\ HeldByServer /\ CompilerHolds

\* What a step must do to the three variables, so that the invariant survives:
\* who ends lets go, no holder appears, and the server's ends follow pc.
LEMMA PlainStep ==
  ASSUME HoldInv,
         \A k \in Judges : proc'[k] = proc[k] \/ proc'[k] \notin Alive,
         \A p \in Pipes : \A k \in Judges :
           k \in writers'[p] <=> k \in writers[p] /\ (proc[k] \in Alive => proc'[k] = proc[k]),
         \A j \in Judges : CmdHeld(j)' /\ OutHeld(j)' /\ CmdOpen(j)'
  PROVE  HoldInv'
<1>1. HeldByLiving'
  BY DEF HoldInv, HeldByLiving
<1>2. HeldByServer'
  BY DEF HeldByServer
<1>3. CompilerHolds'
  BY PipesOf DEF HoldInv, CompilerHolds, Alive
<1>4. QED BY <1>1, <1>2, <1>3 DEF HoldInv

\* The steps that neither open nor close an end of the server.
LEMMA SameServer ==
  ASSUME HoldInv, NEW j \in Judges, \A k \in Judges \ {j} : pc'[k] = pc[k],
         pc'[j] = pc[j] \/ (/\ pc[j] \notin {"cmdFork", "cmdClose", "fork", "close"}
                            /\ pc'[j] # "cmdFork"),
         \A p \in Pipes : Server \in writers'[p] <=> Server \in writers[p]
  PROVE  \A k \in Judges : CmdHeld(k)' /\ OutHeld(k)' /\ CmdOpen(k)'
  BY PipesOf DEF HoldInv, HeldByServer, CmdHeld, OutHeld, CmdOpen

\* Steps that leave the children and the pipes alone, and open none.
LEMMA QuietStep ==
  ASSUME HoldInv, UNCHANGED <<proc, writers>>,
         NEW j \in Judges, \A k \in Judges \ {j} : pc'[k] = pc[k],
         pc'[j] = pc[j] \/ (/\ pc[j] \notin {"cmdFork", "cmdClose", "fork", "close"}
                            /\ pc'[j] # "cmdFork")
  PROVE  HoldInv'
<1>1. \A k \in Judges : CmdHeld(k)' /\ OutHeld(k)' /\ CmdOpen(k)'
  BY SameServer
<1>2. QED BY <1>1, PlainStep

\* A child that ends closes its ends.
LEMMA ExitStep ==
  ASSUME TypeInv, HoldInv, NEW j \in Judges, NEW z \in Zombies, Exit(j, z), UNCHANGED pc
  PROVE  HoldInv'
<1>1. \A p \in Pipes : writers'[p] = writers[p] \ {j}
  BY DEF Exit, Without
<1>2. proc' = [proc EXCEPT ![j] = z] /\ proc \in [Judges -> Alive \cup Zombies \cup {"none"}]
  BY DEF Exit, TypeInv, TypeOK, TypeOS
<1>3. z \notin Alive
  BY ZombiesAreStates
<1>4. \A k \in Judges : CmdHeld(k)' /\ OutHeld(k)' /\ CmdOpen(k)'
  <2>1. \A p \in Pipes : Server \in writers'[p] <=> Server \in writers[p]
    BY <1>1, ServerAssumption
  <2>2. QED BY <2>1, SameServer
<1>5. \A k \in Judges : proc'[k] = proc[k] \/ proc'[k] \notin Alive
  BY <1>2, <1>3
<1>6. \A p \in Pipes : \A k \in Judges :
        k \in writers'[p] <=> k \in writers[p] /\ (proc[k] \in Alive => proc'[k] = proc[k])
  <2>1. SUFFICES ASSUME NEW p \in Pipes, NEW k \in Judges
                 PROVE  k \in writers'[p] <=>
                          k \in writers[p] /\ (proc[k] \in Alive => proc'[k] = proc[k])
    OBVIOUS
  <2>2. k \in writers[p] => proc[k] \in Alive
    BY DEF HoldInv, HeldByLiving
  <2>3. k \in writers'[p] <=> k \in writers[p] /\ k # j
    BY <1>1
  <2>4. proc'[k] = IF k = j THEN z ELSE proc[k]
    BY <1>2
  <2>5. QED BY <2>2, <2>3, <2>4, <1>3
<1>7. QED BY <1>4, <1>5, <1>6, PlainStep

\* The children that a kill ends close theirs.
LEMMA KillStep ==
  ASSUME TypeInv, HoldInv, NEW j \in Judges, NEW b, KillAndReap(j, b), \A k \in Judges \ {j} : pc'[k] = pc[k],
         pc[j] \notin {"cmdFork", "cmdClose", "fork", "close"}, pc'[j] # "cmdFork"
  PROVE  HoldInv'
<1> DEFINE S == Awaited(j, b)
           hit == {k \in S : proc[k] \in Alive}
<1>0. TypeOS /\ S \in SUBSET Judges
  BY AwaitedType DEF TypeInv, TypeOK
<1>1. \A p \in Pipes : writers'[p] = writers[p] \ (hit \cup Others(b))
  <2>1. writers' = Without(writers, hit \cup Others(b))
    BY <1>0, KillEffect
  <2>2. QED BY <2>1 DEF Without
<1>2. /\ \A k \in Judges : k \notin S => proc'[k] = proc[k]
      /\ \A k \in S : proc'[k] \in Zombies \cup {"none"}
      /\ \A k \in Judges : proc[k] \in Zombies => proc'[k] \in {proc[k], "none"}
      /\ \A k \in Judges : proc[k] = "none" => proc'[k] = "none"
  BY <1>0, KillEffect
<1>3. \A k \in S : proc'[k] \notin Alive
  BY <1>2 DEF Alive, Zombies
<1>4. \A k \in Judges : CmdHeld(k)' /\ OutHeld(k)' /\ CmdOpen(k)'
  <2>1. Server \notin hit \cup Others(b)
    BY <1>0, ServerAssumption DEF Others
  <2>2. \A p \in Pipes : Server \in writers'[p] <=> Server \in writers[p]
    BY <1>1, <2>1
  <2>3. QED BY <2>2, SameServer
<1>5. \A k \in Judges : proc'[k] = proc[k] \/ proc'[k] \notin Alive
  BY <1>2, <1>3
<1>6. \A p \in Pipes : \A k \in Judges :
        k \in writers'[p] <=> k \in writers[p] /\ (proc[k] \in Alive => proc'[k] = proc[k])
  <2>1. SUFFICES ASSUME NEW p \in Pipes, NEW k \in Judges
                 PROVE  k \in writers'[p] <=>
                          k \in writers[p] /\ (proc[k] \in Alive => proc'[k] = proc[k])
    OBVIOUS
  <2>2. k \in writers[p] => proc[k] \in Alive
    BY DEF HoldInv, HeldByLiving
  <2>3. k \in writers'[p] <=> k \in writers[p] /\ k \notin hit
    BY <1>1, ServerAssumption DEF Others
  <2>4. CASE k \in S
    BY <2>2, <2>3, <2>4, <1>3
  <2>5. CASE k \notin S
    BY <2>2, <2>3, <2>5, <1>2
  <2>6. QED BY <2>4, <2>5
<1>7. QED BY <1>4, <1>5, <1>6, PlainStep

\* A wait takes a child that holds nothing any more.
LEMMA ReapStep ==
  ASSUME TypeInv, HoldInv, UNCHANGED writers,
         \A k \in Judges : proc'[k] = proc[k] \/ (proc[k] \in Zombies /\ proc'[k] = "none"),
         NEW j \in Judges, \A k \in Judges \ {j} : pc'[k] = pc[k],
         pc[j] \notin {"cmdFork", "cmdClose", "fork", "close"}, pc'[j] # "cmdFork"
  PROVE  HoldInv'
<1>1. \A k \in Judges : CmdHeld(k)' /\ OutHeld(k)' /\ CmdOpen(k)'
  BY SameServer
<1>2. \A k \in Judges : proc'[k] = proc[k] \/ proc'[k] \notin Alive
  BY DEF Alive
<1>3. \A k \in Judges : proc[k] \in Alive => proc'[k] = proc[k]
  BY ZombiesAreStates
<1>4. QED BY <1>1, <1>2, <1>3, PlainStep

\* A new child gets copies of the server's ends; a closed end of the server
\* disappears, and no other holder changes.
LEMMA ForkStep ==
  ASSUME TypeInv, HoldInv, NEW j \in Judges, NEW child \in Alive, NEW C,
         proc[j] = "none", Fork(j, child, C), child = "compiler" => C = {} /\ pc[j] = "cmdFork",
         \/ pc[j] = "cmdFork" /\ pc' = [pc EXCEPT ![j] = "cmdClose"]
         \/ pc[j] = "fork" /\ pc' = [pc EXCEPT ![j] = "close"]
  PROVE  HoldInv'
<1> USE DEF HoldInv
<1>1. /\ pc \in [Judges -> Steps]
      /\ proc \in [Judges -> Alive \cup Zombies \cup {"none"}]
      /\ writers \in [Pipes -> SUBSET Holders]
  BY DEF TypeInv, TypeOK, TypeOS
<1>2. CASE proc' = [proc EXCEPT ![j] = child] /\ writers' = Inherited(writers, j, C)
  <2>1. \A p \in Pipes : /\ Server \in writers'[p] <=> Server \in writers[p]
                         /\ writers[p] \subseteq writers'[p]
                         /\ writers'[p] \subseteq writers[p] \cup {j}
    BY <1>2, ServerAssumption DEF Inherited
  <2>2. \A k \in Judges : proc'[k] = IF k = j THEN child ELSE proc[k]
    BY <1>1, <1>2
  <2>3. HeldByLiving'
    BY <2>1, <2>2 DEF HeldByLiving
  <2>4. HeldByServer'
    BY <1>1, <2>1, PipesOf DEF HeldByServer, CmdHeld, OutHeld, CmdOpen
  <2>5. CompilerHolds'
    <3>1. SUFFICES ASSUME NEW k \in Judges, proc'[k] = "compiler"
                   PROVE  k \in writers'[<<k, "cmd">>]
      BY DEF CompilerHolds
    <3>2. CASE k = j
      <4>1. C = {} /\ Server \in writers[<<j, "cmd">>]
        BY <2>2, <3>1, <3>2 DEF HeldByServer, CmdOpen
      <4>2. QED BY <1>2, <3>2, <4>1, PipesOf DEF Inherited
    <3>3. CASE k # j
      BY <2>1, <2>2, <3>1, <3>3, PipesOf DEF CompilerHolds
    <3>4. QED BY <3>2, <3>3
  <2>6. QED BY <2>3, <2>4, <2>5
<1>3. CASE UNCHANGED osVars
  <2>1. UNCHANGED <<proc, writers>>
    BY <1>3 DEF osVars
  <2>2. HeldByServer'
    BY <1>1, <2>1 DEF HeldByServer, CmdHeld, OutHeld, CmdOpen
  <2>3. QED BY <2>1, <2>2 DEF HeldByLiving, CompilerHolds
<1>4. QED BY <1>2, <1>3 DEF Fork

\* HoldInv is preserved: the server closes an end.
LEMMA CloseStep ==
  ASSUME TypeInv, HoldInv, NEW j \in Judges, UNCHANGED proc,
         \/ CloseEnd(j, "cmd") /\ pc[j] = "cmdClose" /\ pc' = [pc EXCEPT ![j] = "cmdWait"]
         \/ CloseEnd(j, "out") /\ pc[j] = "close" /\ pc' = [pc EXCEPT ![j] = "feed"]
         \/ CloseEnd(j, "in") /\ pc[j] = "feed" /\ pc' = [pc EXCEPT ![j] = "poll"]
  PROVE  HoldInv'
<1> DEFINE e == IF pc[j] = "cmdClose" THEN "cmd" ELSE IF pc[j] = "close" THEN "out" ELSE "in"
<1>1. pc \in [Judges -> Steps] /\ writers \in [Pipes -> SUBSET Holders]
  BY DEF TypeInv, TypeOK, TypeOS
<1>2. writers' = [writers EXCEPT ![<<j, e>>] = writers[<<j, e>>] \ {Server}]
  BY DEF CloseEnd
<1>3. \A p \in Pipes : writers'[p] = IF p = <<j, e>> THEN writers[p] \ {Server} ELSE writers[p]
  BY <1>1, <1>2
<1>4. \A p \in Pipes : \A k \in Judges : k \in writers'[p] <=> k \in writers[p]
  BY <1>3, ServerAssumption
<1>5. \A k \in Judges : CmdHeld(k)' /\ OutHeld(k)' /\ CmdOpen(k)'
  <2>1. SUFFICES ASSUME NEW k \in Judges PROVE CmdHeld(k)' /\ OutHeld(k)' /\ CmdOpen(k)'
    OBVIOUS
  <2>2. CmdHeld(k) /\ OutHeld(k) /\ CmdOpen(k)
    BY DEF HoldInv, HeldByServer
  <2>3. CASE k # j
    <3>1. \A p \in {<<k, "cmd">>, <<k, "out">>} : writers'[p] = writers[p]
      BY <1>3, <2>3, PipesOf
    <3>2. pc'[k] = pc[k]
      BY <1>1, <2>3
    <3>3. QED BY <2>2, <3>1, <3>2 DEF CmdHeld, OutHeld, CmdOpen
  <2>4. CASE k = j
    BY <1>1, <1>3, <2>2, <2>4, PipesOf DEF CmdHeld, OutHeld, CmdOpen
  <2>5. QED BY <2>3, <2>4
<1>6. QED BY <1>4, <1>5, PlainStep

\* A new pipe is held by the server only.
LEMMA OpenStep ==
  ASSUME TypeInv, HoldInv, NEW j \in Judges, UNCHANGED proc, proc[j] = "none",
         \/ /\ pc[j] = "cmdPipe" /\ pc' = [pc EXCEPT ![j] = "cmdFork"]
            /\ writers' = [writers EXCEPT ![<<j, "cmd">>] = {Server}]
         \/ /\ pc[j] = "pipes" /\ pc' = [pc EXCEPT ![j] = "fork"]
            /\ writers' = [writers EXCEPT ![<<j, "in">>] = {Server}, ![<<j, "out">>] = {Server}]
         \/ /\ pc[j] = "pipes" /\ pc' = [pc EXCEPT ![j] = "clean"]
            /\ writers' = [writers EXCEPT ![<<j, "in">>] = {Server}]
  PROVE  HoldInv'
<1>1. pc \in [Judges -> Steps] /\ writers \in [Pipes -> SUBSET Holders]
  BY DEF TypeInv, TypeOK, TypeOS
<1>2. \A p \in Pipes : \/ writers'[p] = writers[p]
                       \/ writers'[p] = {Server} /\ p \in {<<j, "cmd">>, <<j, "in">>, <<j, "out">>}
  BY <1>1, PipesOf
<1>3. HeldByLiving'
  BY <1>2, ServerAssumption DEF HoldInv, HeldByLiving
<1>4. HeldByServer'
  <2>1. SUFFICES ASSUME NEW k \in Judges PROVE CmdHeld(k)' /\ OutHeld(k)' /\ CmdOpen(k)'
    BY DEF HeldByServer
  <2>2. CmdHeld(k) /\ OutHeld(k) /\ CmdOpen(k)
    BY DEF HoldInv, HeldByServer
  <2>3. CASE k # j
    BY <1>1, <1>2, <2>2, <2>3, PipesOf DEF CmdHeld, OutHeld, CmdOpen
  <2>4. CASE k = j
    BY <1>1, <2>2, <2>4, PipesOf DEF CmdHeld, OutHeld, CmdOpen
  <2>5. QED BY <2>3, <2>4
<1>5. CompilerHolds'
  <2>1. SUFFICES ASSUME NEW k \in Judges, proc[k] = "compiler" PROVE k \in writers'[<<k, "cmd">>]
    BY DEF CompilerHolds
  <2>2. k # j /\ k \in writers[<<k, "cmd">>]
    BY <2>1 DEF HoldInv, CompilerHolds
  <2>3. QED BY <1>2, <2>2, PipesOf
<1>6. QED BY <1>3, <1>4, <1>5 DEF HoldInv

\* HoldInv is preserved by every step.
LEMMA HoldStep == ASSUME TypeInv, HoldInv, [Next]_vars PROVE HoldInv'
<1>pc. pc \in [Judges -> Steps]
  BY DEF TypeInv, TypeOK
<1>ch. \A j \in Judges : pc[j] \notin Compiling \cup Running => proc[j] = "none"
  BY DEF TypeInv, ChildInv
<1> USE DEF Goto
<1>1. ASSUME NEW j \in Judges, Submit(j) PROVE HoldInv'
  <2>1. UNCHANGED <<proc, writers>>
    BY <1>1 DEF Submit, osVars
  <2>2. /\ \A k \in Judges \ {j} : pc'[k] = pc[k]
        /\ pc[j] \notin {"cmdFork", "cmdClose", "fork", "close"} /\ pc'[j] # "cmdFork"
    BY <1>1, <1>pc DEF Submit
  <2>3. QED BY <2>1, <2>2, QuietStep
<1>2. ASSUME NEW j \in Judges, MakeTempDir(j) PROVE HoldInv'
  <2>1. UNCHANGED <<proc, writers>>
    BY <1>2 DEF MakeTempDir, osVars, CompileError
  <2>2. /\ \A k \in Judges \ {j} : pc'[k] = pc[k]
        /\ pc[j] \notin {"cmdFork", "cmdClose", "fork", "close"} /\ pc'[j] # "cmdFork"
    BY <1>2, <1>pc DEF MakeTempDir, CompileError
  <2>3. QED BY <2>1, <2>2, QuietStep
<1>3. ASSUME NEW j \in Judges, WriteSource(j) PROVE HoldInv'
  <2>1. UNCHANGED <<proc, writers>>
    BY <1>3 DEF WriteSource, osVars, CompileError
  <2>2. /\ \A k \in Judges \ {j} : pc'[k] = pc[k]
        /\ pc[j] \notin {"cmdFork", "cmdClose", "fork", "close"} /\ pc'[j] # "cmdFork"
    BY <1>3, <1>pc DEF WriteSource, CompileError
  <2>3. QED BY <2>1, <2>2, QuietStep
<1>4. ASSUME NEW j \in Judges, OpenCommandPipe(j) PROVE HoldInv'
  <2>1. UNCHANGED proc /\ pc[j] = "cmdPipe"
    BY <1>4 DEF OpenCommandPipe
  <2>2. proc[j] = "none"
    BY <1>ch, <2>1 DEF Compiling, Running
  <2>3. CASE UNCHANGED writers /\ pc' = [pc EXCEPT ![j] = "stat"]
    BY <1>pc, <2>1, <2>3, QuietStep
  <2>4. CASE ~(UNCHANGED writers /\ pc' = [pc EXCEPT ![j] = "stat"])
    BY <1>4, <2>1, <2>2, <2>4, OpenStep DEF OpenCommandPipe
  <2>5. QED BY <2>3, <2>4
<1>5. ASSUME NEW j \in Judges, ForkCompiler(j) PROVE HoldInv'
  <2>1. pc[j] = "cmdFork" /\ pc' = [pc EXCEPT ![j] = "cmdClose"] /\ Fork(j, "compiler", {})
    BY <1>5 DEF ForkCompiler
  <2>2. proc[j] = "none" /\ "compiler" \in Alive
    BY <1>ch, <2>1 DEF Compiling, Running, Alive
  <2>3. QED BY <2>1, <2>2, ForkStep
<1>6. ASSUME NEW j \in Judges, CloseCommandPipe(j) PROVE HoldInv'
  BY <1>6, CloseStep DEF CloseCommandPipe
<1>7. ASSUME NEW j \in Judges, WaitCompiler(j) PROVE HoldInv'
  <2>1. /\ UNCHANGED writers
        /\ \A k \in Judges : proc'[k] = proc[k] \/ (proc[k] \in Zombies /\ proc'[k] = "none")
    BY <1>7, AwaitedType, ReapedEffect DEF WaitCompiler, NoChild, NotYet, osVars, TypeInv, TypeOK
  <2>2. /\ \A k \in Judges \ {j} : pc'[k] = pc[k]
        /\ pc[j] \notin {"cmdFork", "cmdClose", "fork", "close"} /\ pc'[j] # "cmdFork"
    BY <1>7, <1>pc DEF WaitCompiler
  <2>3. QED BY <2>1, <2>2, ReapStep
<1>8. ASSUME NEW j \in Judges, ReadCommand(j) PROVE HoldInv'
  <2>1. /\ \A k \in Judges \ {j} : pc'[k] = pc[k]
        /\ pc[j] \notin {"cmdFork", "cmdClose", "fork", "close"} /\ pc'[j] # "cmdFork"
    BY <1>8, <1>pc DEF ReadCommand
  <2>2. CASE KillAndReap(j, noPid[j])
    BY <2>1, <2>2, AwaitedType, KillStep
  <2>3. CASE UNCHANGED osVars
    BY <2>1, <2>3, QuietStep DEF osVars
  <2>4. QED BY <1>8, <2>2, <2>3 DEF ReadCommand
<1>9. ASSUME NEW j \in Judges, StatProgram(j) PROVE HoldInv'
  <2>1. UNCHANGED <<proc, writers>>
    BY <1>9 DEF StatProgram, osVars, CompileError
  <2>2. /\ \A k \in Judges \ {j} : pc'[k] = pc[k]
        /\ pc[j] \notin {"cmdFork", "cmdClose", "fork", "close"} /\ pc'[j] # "cmdFork"
    BY <1>9, <1>pc DEF StatProgram, CompileError
  <2>3. QED BY <2>1, <2>2, QuietStep
<1>10. ASSUME NEW j \in Judges, OpenPipes(j) PROVE HoldInv'
  <2>1. UNCHANGED proc /\ pc[j] = "pipes"
    BY <1>10 DEF OpenPipes
  <2>2. proc[j] = "none"
    BY <1>ch, <2>1 DEF Compiling, Running
  <2>3. CASE UNCHANGED writers /\ pc' = [pc EXCEPT ![j] = "clean"]
    BY <1>pc, <2>1, <2>3, QuietStep
  <2>4. CASE ~(UNCHANGED writers /\ pc' = [pc EXCEPT ![j] = "clean"])
    BY <1>10, <2>1, <2>2, <2>4, OpenStep DEF OpenPipes
  <2>5. QED BY <2>3, <2>4
<1>11. ASSUME NEW j \in Judges, ForkProgram(j) PROVE HoldInv'
  <2>1. pc[j] = "fork" /\ pc' = [pc EXCEPT ![j] = "close"] /\ Fork(j, "program", {<<j, "in">>})
    BY <1>11 DEF ForkProgram
  <2>2. proc[j] = "none" /\ "program" \in Alive
    BY <1>ch, <2>1 DEF Compiling, Running, Alive
  <2>3. QED BY <2>1, <2>2, ForkStep
<1>12. ASSUME NEW j \in Judges, CloseChildEnds(j) PROVE HoldInv'
  BY <1>12, CloseStep DEF CloseChildEnds
<1>13. ASSUME NEW j \in Judges, FeedInput(j) PROVE HoldInv'
  BY <1>13, CloseStep DEF FeedInput
<1>14. ASSUME NEW j \in Judges, PollProgram(j) PROVE HoldInv'
  <2>1. /\ UNCHANGED writers
        /\ \A k \in Judges : proc'[k] = proc[k] \/ (proc[k] \in Zombies /\ proc'[k] = "none")
    BY <1>14, AwaitedType, ReapedEffect DEF PollProgram, NoChild, NotYet, osVars, TypeInv, TypeOK
  <2>2. /\ \A k \in Judges \ {j} : pc'[k] = pc[k]
        /\ pc[j] \notin {"cmdFork", "cmdClose", "fork", "close"} /\ pc'[j] # "cmdFork"
    BY <1>14, <1>pc DEF PollProgram
  <2>3. QED BY <2>1, <2>2, ReapStep
<1>15. ASSUME NEW j \in Judges, CheckElapsed(j) PROVE HoldInv'
  <2>1. /\ \A k \in Judges \ {j} : pc'[k] = pc[k]
        /\ pc[j] \notin {"cmdFork", "cmdClose", "fork", "close"} /\ pc'[j] # "cmdFork"
    BY <1>15, <1>pc DEF CheckElapsed
  <2>2. CASE KillAndReap(j, noPid[j])
    BY <2>1, <2>2, AwaitedType, KillStep
  <2>3. CASE UNCHANGED osVars
    BY <2>1, <2>3, QuietStep DEF osVars
  <2>4. QED BY <1>15, <2>2, <2>3 DEF CheckElapsed
<1>16. ASSUME NEW j \in Judges, Drain(j) PROVE HoldInv'
  <2>1. UNCHANGED <<proc, writers>>
    BY <1>16 DEF Drain, osVars
  <2>2. /\ \A k \in Judges \ {j} : pc'[k] = pc[k]
        /\ pc[j] \notin {"cmdFork", "cmdClose", "fork", "close"} /\ pc'[j] # "cmdFork"
    BY <1>16, <1>pc DEF Drain
  <2>3. QED BY <2>1, <2>2, QuietStep
<1>17. ASSUME NEW j \in Judges, RemoveTempDir(j) PROVE HoldInv'
  <2>1. UNCHANGED <<proc, writers>>
    BY <1>17 DEF RemoveTempDir, osVars
  <2>2. /\ \A k \in Judges \ {j} : pc'[k] = pc[k]
        /\ pc[j] \notin {"cmdFork", "cmdClose", "fork", "close"} /\ pc'[j] # "cmdFork"
    BY <1>17, <1>pc DEF RemoveTempDir
  <2>3. QED BY <2>1, <2>2, QuietStep
<1>18. ASSUME NEW j \in Judges, CompilerExit(j) PROVE HoldInv'
  <2>1. PICK z \in Zombies : Exit(j, z)
    BY <1>18 DEF CompilerExit, Zombies
  <2>2. UNCHANGED pc
    BY <1>18 DEF CompilerExit, local
  <2>3. QED BY <2>1, <2>2, ExitStep
<1>19. ASSUME NEW j \in Judges, ProgramExit(j) PROVE HoldInv'
  <2>1. PICK z \in Zombies : Exit(j, z)
    BY <1>19 DEF ProgramExit, Zombies, Ends, GoesOn
  <2>2. UNCHANGED pc
    BY <1>19 DEF ProgramExit, local
  <2>3. QED BY <2>1, <2>2, ExitStep
<1>20. ASSUME NEW j \in Judges, KernelLimit(j) PROVE HoldInv'
  <2>1. PICK z \in Zombies : Exit(j, z)
    BY <1>20 DEF KernelLimit, Zombies
  <2>2. UNCHANGED pc
    BY <1>20 DEF KernelLimit, local
  <2>3. QED BY <2>1, <2>2, ExitStep
<1>21. CASE Tick
  BY <1>21 DEF Tick, local, osVars, HoldInv, HeldByLiving, HeldByServer, CmdHeld, OutHeld,
               CmdOpen, CompilerHolds
<1>22. CASE UNCHANGED vars
  BY <1>22 DEF vars, HoldInv, HeldByLiving, HeldByServer, CmdHeld, OutHeld, CmdOpen, CompilerHolds
<1>24. CASE LeftMoves
  <2>1. /\ UNCHANGED <<pc, proc>>
        /\ \A p \in Pipes : \A k : k # Left => (k \in writers'[p] <=> k \in writers[p])
    BY <1>24, LeftEffect DEF local, TypeInv, TypeOK
  <2>2. \A j \in Judges : CmdHeld(j)' /\ OutHeld(j)' /\ CmdOpen(j)'
    BY <2>1, PipesOf, ServerAssumption DEF HoldInv, HeldByServer, CmdHeld, OutHeld, CmdOpen
  <2>3. QED BY <2>1, <2>2, PlainStep, ServerAssumption
<1>25. QED
  BY <1>1, <1>2, <1>3, <1>4, <1>5, <1>6, <1>7, <1>8, <1>9, <1>10,
     <1>11, <1>12, <1>13, <1>14, <1>15, <1>16, <1>17, <1>18, <1>19, <1>20, <1>21, <1>22, <1>24
  DEF Next, Thread, Child, LeftMoves

\* HoldInv is an invariant.
LEMMA HoldInvariant == Spec => []HoldInv
<1>1. Init => HoldInv
  BY PipesOf DEF Init, InitOS, HoldInv, HeldByLiving, HeldByServer, CmdHeld, OutHeld, CmdOpen,
                 CompilerHolds
<1>2. TypeInv /\ HoldInv /\ [Next]_vars => HoldInv'
  BY HoldStep
<1>3. QED BY <1>1, <1>2, TypeInvariant, PTL DEF Spec

\* A thread that reads from a pipe waits for live children and what programs left
\* behind only (run_cmd 49, 57-60, judge_single 202-203, 228-239).
THEOREM BlockedOnLiveChildren == Spec => []BlockedOnLive
<1>1. ASSUME TypeInv, HoldInv PROVE BlockedOnLive
  <2>1. \A p \in Pipes : \A k \in writers[p] : k \in Judges \/ k \in {Server, Left}
    BY <1>1 DEF TypeInv, TypeOK, TypeOS, Holders
  <2>2. QED BY <1>1, <2>1, PipesOf DEF HoldInv, HeldByLiving, HeldByServer, CmdHeld, OutHeld,
                                         BlockedOnLive, Lives
<1>2. QED BY <1>1, TypeInvariant, HoldInvariant, PTL

-----------------------------------------------------------------------------
(***************************************************************************)
(* What a request of the judge leaves behind, who takes the wait status of *)
(* a child, and when a verdict TLE is given.                               *)
(***************************************************************************)

\* The files of a request exist only while it is judged.
Files(j) == pc[j] \in {"idle", "begin", "done"} => ~tmp[j] /\ ~bin[j]

\* The index is reset until the first case begins.
Early(j) == pc[j] \notin CaseSteps \cup {"clean", "done"} => idx[j] = 0

\* The server holds the end of an input pipe until it has written the input,
\* or for good, when the second pipe() fails: the next request finds it held.
InHeld(j) ==
  Server \in writers[<<j, "in">>] =>
    /\ pc[j] \notin {"poll", "check", "drain"}
    /\ pc[j] \in {"clean", "done"} => answer[j].status = "RE" \/ idx[j] = 0

\* CleanExit alone is not inductive: it rests on what each step before the
\* return has undone.
LeftAt(j) == Files(j) /\ Early(j) /\ InHeld(j)
LeftInv == \A j \in Judges : LeftAt(j)

\* What a step of another thread, a child or the clock changes of a thread.
Apart(j) ==
  /\ pc'[j] = pc[j] /\ idx'[j] = idx[j] /\ answer'[j] = answer[j]
  /\ tmp'[j] = tmp[j] /\ bin'[j] = bin[j]
  /\ Server \in writers'[<<j, "in">>] => Server \in writers[<<j, "in">>]

\* What a thread leaves behind does not change by steps apart from it.
LEMMA ApartKeeps == ASSUME NEW j \in Judges, LeftAt(j), Apart(j) PROVE LeftAt(j)'
  BY DEF LeftAt, Files, Early, InHeld, Apart

\* No child that is made, ends or is killed, gives the server a write end.
NothingOpened == \A p \in Pipes : Server \in writers'[p] => Server \in writers[p]

\* A fork gives the server no write end.
LEMMA ForkOpensNone ==
  ASSUME TypeOS, NEW j \in Judges, NEW child, NEW C, Fork(j, child, C) PROVE NothingOpened
  BY ServerAssumption DEF Fork, Inherited, osVars, NothingOpened

\* A kill gives the server no write end.
LEMMA KillOpensNone ==
  ASSUME TypeOS, NEW j \in Judges, NEW b, KillAndReap(j, b) PROVE NothingOpened
  BY AwaitedType, KillEffect DEF Without, NothingOpened

\* A close gives the server no write end and takes one.
LEMMA CloseOpensNone ==
  ASSUME TypeOS, NEW j \in Judges, NEW e \in PipeOf, CloseEnd(j, e)
  PROVE  /\ NothingOpened
         /\ Server \notin writers'[<<j, e>>]
<1>1. <<j, e>> \in Pipes /\ writers \in [Pipes -> SUBSET Holders]
  BY DEF Pipes, TypeOS
<1>2. QED BY <1>1 DEF CloseEnd, NothingOpened

\* LeftInv is preserved by every step.
LEMMA LeftStep == ASSUME TypeInv, LeftInv, [Next]_vars PROVE LeftInv'
<1>t. /\ pc \in [Judges -> Steps] /\ idx \in [Judges -> 0..MaxCases]
      /\ tmp \in [Judges -> BOOLEAN] /\ bin \in [Judges -> BOOLEAN]
      /\ answer \in [Judges -> Answers] /\ TypeOS
      /\ writers \in [Pipes -> SUBSET Holders]
  BY DEF TypeInv, TypeOK, TypeOS
<1>a. \A j \in Judges : LeftAt(j)
  BY DEF LeftInv
<1>p. \A j \in Judges : <<j, "in">> \in Pipes
  BY PipesOf
<1>s. Answer("RE", 0).status = "RE" /\ \A k : Answer("RE", k).status = "RE"
  BY DEF Answer
<1> USE DEF Goto
<1>1. ASSUME NEW j \in Judges, Submit(j) PROVE LeftInv'
  <2>1. \A k \in Judges \ {j} : Apart(k)
    BY <1>1, <1>t DEF Submit, Apart, osVars
  <2>2. LeftAt(j)'
    BY <1>1, <1>t, <1>a DEF Submit, LeftAt, Files, Early, InHeld, osVars
  <2>3. QED BY <1>a, <2>1, <2>2, ApartKeeps DEF LeftInv
<1>2. ASSUME NEW j \in Judges, MakeTempDir(j) PROVE LeftInv'
  <2>1. \A k \in Judges \ {j} : Apart(k)
    BY <1>2, <1>t DEF MakeTempDir, Apart, CompileError, osVars
  <2>2. LeftAt(j)'
    BY <1>2, <1>t, <1>a DEF MakeTempDir, LeftAt, Files, Early, InHeld, CaseSteps, Running,
          CompileError, osVars
  <2>3. QED BY <1>a, <2>1, <2>2, ApartKeeps DEF LeftInv
<1>3. ASSUME NEW j \in Judges, WriteSource(j) PROVE LeftInv'
  <2>1. \A k \in Judges \ {j} : Apart(k)
    BY <1>3, <1>t DEF WriteSource, Apart, CompileError, osVars
  <2>2. LeftAt(j)'
    BY <1>3, <1>t, <1>a DEF WriteSource, LeftAt, Files, Early, InHeld, CaseSteps, Running,
          CompileError, osVars
  <2>3. QED BY <1>a, <2>1, <2>2, ApartKeeps DEF LeftInv
<1>4. ASSUME NEW j \in Judges, OpenCommandPipe(j) PROVE LeftInv'
  <2>1. \A k \in Judges \ {j} : Apart(k)
    BY <1>4, <1>t, PipesOf DEF OpenCommandPipe, Apart
  <2>2. LeftAt(j)'
    BY <1>4, <1>t, <1>a, PipesOf DEF OpenCommandPipe, LeftAt, Files, Early, InHeld, CaseSteps,
          Running
  <2>3. QED BY <1>a, <2>1, <2>2, ApartKeeps DEF LeftInv
<1>5. ASSUME NEW j \in Judges, ForkCompiler(j) PROVE LeftInv'
  <2>0. NothingOpened
    BY <1>5, <1>t, ForkOpensNone DEF ForkCompiler
  <2>1. \A k \in Judges \ {j} : Apart(k)
    BY <1>5, <1>t, <1>p, <2>0 DEF ForkCompiler, Apart, NothingOpened
  <2>2. LeftAt(j)'
    BY <1>5, <1>t, <1>a, <1>p, <2>0 DEF ForkCompiler, LeftAt, Files, Early, InHeld, CaseSteps,
          Running, NothingOpened
  <2>3. QED BY <1>a, <2>1, <2>2, ApartKeeps DEF LeftInv
<1>6. ASSUME NEW j \in Judges, CloseCommandPipe(j) PROVE LeftInv'
  <2>0. NothingOpened
    BY <1>6, <1>t, CloseOpensNone DEF CloseCommandPipe, PipeOf
  <2>1. \A k \in Judges \ {j} : Apart(k)
    BY <1>6, <1>t, <1>p, <2>0 DEF CloseCommandPipe, Apart, NothingOpened
  <2>2. LeftAt(j)'
    BY <1>6, <1>t, <1>a, <1>p, <2>0 DEF CloseCommandPipe, LeftAt, Files, Early, InHeld,
          CaseSteps, Running, NothingOpened
  <2>3. QED BY <1>a, <2>1, <2>2, ApartKeeps DEF LeftInv
<1>7. ASSUME NEW j \in Judges, WaitCompiler(j) PROVE LeftInv'
  <2>0. NothingOpened
    BY <1>7, <1>t, AwaitedType, ReapedEffect DEF WaitCompiler, NoChild, NotYet, osVars,
          NothingOpened
  <2>1. \A k \in Judges \ {j} : Apart(k)
    BY <1>7, <1>t, <1>p, <2>0 DEF WaitCompiler, Apart, NothingOpened
  <2>2. LeftAt(j)'
    BY <1>7, <1>t, <1>a, <1>p, <2>0 DEF WaitCompiler, LeftAt, Files, Early, InHeld, CaseSteps,
          Running, NothingOpened
  <2>3. QED BY <1>a, <2>1, <2>2, ApartKeeps DEF LeftInv
<1>8. ASSUME NEW j \in Judges, ReadCommand(j) PROVE LeftInv'
  <2>0. NothingOpened
    BY <1>8, <1>t, AwaitedType, KillOpensNone DEF ReadCommand, osVars, NothingOpened
  <2>1. \A k \in Judges \ {j} : Apart(k)
    BY <1>8, <1>t, <1>p, <2>0 DEF ReadCommand, Apart, NothingOpened
  <2>2. LeftAt(j)'
    BY <1>8, <1>t, <1>a, <1>p, <2>0 DEF ReadCommand, LeftAt, Files, Early, InHeld, CaseSteps,
          Running, NothingOpened
  <2>3. QED BY <1>a, <2>1, <2>2, ApartKeeps DEF LeftInv
<1>9. ASSUME NEW j \in Judges, StatProgram(j) PROVE LeftInv'
  <2>1. \A k \in Judges \ {j} : Apart(k)
    BY <1>9, <1>t DEF StatProgram, Apart, CompileError, osVars
  <2>2. LeftAt(j)'
    BY <1>9, <1>t, <1>a DEF StatProgram, LeftAt, Files, Early, InHeld, CaseSteps, Running,
          CompileError, osVars
  <2>3. QED BY <1>a, <2>1, <2>2, ApartKeeps DEF LeftInv
<1>10. ASSUME NEW j \in Judges, OpenPipes(j) PROVE LeftInv'
  <2>1. \A k \in Judges \ {j} : Apart(k)
    BY <1>10, <1>t, PipesOf, <1>s DEF OpenPipes, Apart
  <2>2. LeftAt(j)'
    BY <1>10, <1>t, <1>a, PipesOf, <1>s DEF OpenPipes, LeftAt, Files, Early, InHeld, CaseSteps,
          Running
  <2>3. QED BY <1>a, <2>1, <2>2, ApartKeeps DEF LeftInv
<1>11. ASSUME NEW j \in Judges, ForkProgram(j) PROVE LeftInv'
  <2>0. NothingOpened
    BY <1>11, <1>t, ForkOpensNone DEF ForkProgram
  <2>1. \A k \in Judges \ {j} : Apart(k)
    BY <1>11, <1>t, <1>p, <2>0 DEF ForkProgram, Apart, NothingOpened
  <2>2. LeftAt(j)'
    BY <1>11, <1>t, <1>a, <1>p, <2>0 DEF ForkProgram, LeftAt, Files, Early, InHeld, CaseSteps,
          Running, NothingOpened
  <2>3. QED BY <1>a, <2>1, <2>2, ApartKeeps DEF LeftInv
<1>12. ASSUME NEW j \in Judges, CloseChildEnds(j) PROVE LeftInv'
  <2>0. NothingOpened
    BY <1>12, <1>t, CloseOpensNone DEF CloseChildEnds, PipeOf
  <2>1. \A k \in Judges \ {j} : Apart(k)
    BY <1>12, <1>t, <1>p, <2>0 DEF CloseChildEnds, Apart, NothingOpened
  <2>2. LeftAt(j)'
    BY <1>12, <1>t, <1>a, <1>p, <2>0 DEF CloseChildEnds, LeftAt, Files, Early, InHeld, CaseSteps,
          Running, NothingOpened
  <2>3. QED BY <1>a, <2>1, <2>2, ApartKeeps DEF LeftInv
<1>13. ASSUME NEW j \in Judges, FeedInput(j) PROVE LeftInv'
  <2>0. NothingOpened /\ Server \notin writers'[<<j, "in">>]
    BY <1>13, <1>t, CloseOpensNone DEF FeedInput, PipeOf
  <2>1. \A k \in Judges \ {j} : Apart(k)
    BY <1>13, <1>t, <1>p, <2>0 DEF FeedInput, Apart, NothingOpened
  <2>2. LeftAt(j)'
    BY <1>13, <1>t, <1>a, <2>0 DEF FeedInput, LeftAt, Files, Early, InHeld, CaseSteps, Running
  <2>3. QED BY <1>a, <2>1, <2>2, ApartKeeps DEF LeftInv
<1>14. ASSUME NEW j \in Judges, PollProgram(j) PROVE LeftInv'
  <2>0. NothingOpened
    BY <1>14, <1>t, AwaitedType, ReapedEffect DEF PollProgram, NoChild, NotYet, osVars,
          NothingOpened
  <2>1. \A k \in Judges \ {j} : Apart(k)
    BY <1>14, <1>t, <1>p, <2>0 DEF PollProgram, Apart, NothingOpened
  <2>2. LeftAt(j)'
    BY <1>14, <1>t, <1>a, <1>p, <2>0 DEF PollProgram, LeftAt, Files, Early, InHeld, CaseSteps,
          Running, NothingOpened
  <2>3. QED BY <1>a, <2>1, <2>2, ApartKeeps DEF LeftInv
<1>15. ASSUME NEW j \in Judges, CheckElapsed(j) PROVE LeftInv'
  <2>0. NothingOpened
    BY <1>15, <1>t, AwaitedType, KillOpensNone DEF CheckElapsed, osVars, NothingOpened
  <2>1. \A k \in Judges \ {j} : Apart(k)
    BY <1>15, <1>t, <1>p, <2>0 DEF CheckElapsed, Apart, NothingOpened
  <2>2. LeftAt(j)'
    BY <1>15, <1>t, <1>a, <1>p, <2>0 DEF CheckElapsed, LeftAt, Files, Early, InHeld, CaseSteps,
          Running, NothingOpened
  <2>3. QED BY <1>a, <2>1, <2>2, ApartKeeps DEF LeftInv
<1>16. ASSUME NEW j \in Judges, Drain(j) PROVE LeftInv'
  <2>1. \A k \in Judges \ {j} : Apart(k)
    BY <1>16, <1>t DEF Drain, Apart, osVars
  <2>2. LeftAt(j)'
    BY <1>16, <1>t, <1>a DEF Drain, LeftAt, Files, Early, InHeld, CaseSteps, Running, osVars
  <2>3. QED BY <1>a, <2>1, <2>2, ApartKeeps DEF LeftInv
<1>17. ASSUME NEW j \in Judges, RemoveTempDir(j) PROVE LeftInv'
  <2>1. \A k \in Judges \ {j} : Apart(k)
    BY <1>17, <1>t DEF RemoveTempDir, Apart, osVars
  <2>2. LeftAt(j)'
    BY <1>17, <1>t, <1>a DEF RemoveTempDir, LeftAt, Files, Early, InHeld, CaseSteps, Running, osVars
  <2>3. QED BY <1>a, <2>1, <2>2, ApartKeeps DEF LeftInv
<1>18. ASSUME NEW j \in Judges, CompilerExit(j) PROVE LeftInv'
  <2>0. NothingOpened
    BY <1>18 DEF CompilerExit, Exit, Without, NothingOpened
  <2>c. pc[j] \in Compiling
    BY <1>18 DEF CompilerExit, TypeInv, ChildInv
  <2>1. \A k \in Judges \ {j} : Apart(k)
    BY <1>18, <1>t, <1>p, <2>0 DEF CompilerExit, Apart, NothingOpened
  <2>2. LeftAt(j)'
    BY <1>18, <1>t, <1>a, <1>p, <2>0, <2>c DEF CompilerExit, LeftAt, Files, Early, InHeld,
          CaseSteps, Running, Compiling, NothingOpened
  <2>3. QED BY <1>a, <2>1, <2>2, ApartKeeps DEF LeftInv
<1>19. ASSUME NEW j \in Judges, ProgramExit(j) PROVE LeftInv'
  <2>0. NothingOpened
    BY <1>19 DEF ProgramExit, Exit, Without, NothingOpened
  <2>1. \A k \in Judges \ {j} : Apart(k)
    BY <1>19, <1>t, <1>p, <2>0 DEF ProgramExit, local, Apart, NothingOpened
  <2>2. LeftAt(j)'
    BY <1>19, <1>t, <1>a, <1>p, <2>0 DEF ProgramExit, local, LeftAt, Files, Early, InHeld,
          NothingOpened
  <2>3. QED BY <1>a, <2>1, <2>2, ApartKeeps DEF LeftInv
<1>20. ASSUME NEW j \in Judges, KernelLimit(j) PROVE LeftInv'
  <2>0. NothingOpened
    BY <1>20 DEF KernelLimit, Exit, Without, NothingOpened
  <2>1. \A k \in Judges \ {j} : Apart(k)
    BY <1>20, <1>t, <1>p, <2>0 DEF KernelLimit, local, Apart, NothingOpened
  <2>2. LeftAt(j)'
    BY <1>20, <1>t, <1>a, <1>p, <2>0 DEF KernelLimit, local, LeftAt, Files, Early, InHeld,
          NothingOpened
  <2>3. QED BY <1>a, <2>1, <2>2, ApartKeeps DEF LeftInv
<1>21. CASE Tick
  BY <1>21, <1>a DEF Tick, local, osVars, LeftInv, LeftAt, Files, Early, InHeld
<1>22. CASE UNCHANGED vars
  BY <1>22, <1>a DEF vars, LeftInv, LeftAt, Files, Early, InHeld
<1>24. CASE LeftMoves
  <2>1. \A k \in Judges : Apart(k)
    BY <1>24, <1>t, <1>p, LeftEffect, ServerAssumption DEF local, Apart
  <2>2. QED BY <1>a, <2>1, ApartKeeps DEF LeftInv
<1>25. QED
  BY <1>1, <1>2, <1>3, <1>4, <1>5, <1>6, <1>7, <1>8, <1>9, <1>10,
     <1>11, <1>12, <1>13, <1>14, <1>15, <1>16, <1>17, <1>18, <1>19, <1>20, <1>21, <1>22, <1>24
  DEF Next, Thread, Child, LeftMoves

\* LeftInv is an invariant.
LEMMA LeftInvariant == Spec => []LeftInv
<1>1. Init => LeftInv
  BY PipesOf DEF Init, InitOS, LeftInv, LeftAt, Files, Early, InHeld
<1>2. TypeInv /\ LeftInv /\ [Next]_vars => LeftInv'
  BY LeftStep
<1>3. QED BY <1>1, <1>2, TypeInvariant, PTL DEF Spec

\* A request that is over has left no child, no directory and no descriptor, but
\* for the input pipe of a case whose second pipe() failed (judge_single 190,
\* compile_and_judge 284-327).
THEOREM NothingLeft == Spec => []CleanExit
<1>1. ASSUME TypeInv, HoldInv, LeftInv PROVE CleanExit
  <2>1. \A j \in Judges : pc[j] = "done" => proc[j] = "none"
    BY <1>1 DEF TypeInv, ChildInv, Compiling, Running
  <2>2. \A j \in Judges : pc[j] = "done" =>
          Server \notin writers[<<j, "cmd">>] /\ Server \notin writers[<<j, "out">>]
    BY <1>1 DEF HoldInv, HeldByServer, CmdHeld, OutHeld
  <2>3. QED BY <1>1, <2>1, <2>2 DEF CleanExit, LeftInv, LeftAt, Files, InHeld
<1>2. QED BY <1>1, TypeInvariant, HoldInvariant, LeftInvariant, PTL

-----------------------------------------------------------------------------
\* Only the thread that forked a child takes its wait status, or one whose own
\* fork has failed.
OwnTaken ==
  \A j \in Judges : proc[j] # "none" /\ proc'[j] = "none" =>
    \E k \in Judges : pc'[k] # pc[k] /\ (k = j \/ noPid[k])

\* A thread that waits moves on, and takes from the children it may wait for.
LEMMA TakenBy ==
  ASSUME NEW j \in Judges, pc'[j] # pc[j],
         \A k \in Judges : k \notin Awaited(j, noPid[j]) => proc'[k] = proc[k]
  PROVE  OwnTaken
  BY DEF OwnTaken, Awaited

\* A child is taken by its own thread unless a fork has failed.
LEMMA OwnTakenStep == ASSUME TypeInv, [Next]_vars PROVE OwnTaken
<1>t. /\ pc \in [Judges -> Steps] /\ TypeOS
      /\ proc \in [Judges -> Alive \cup Zombies \cup {"none"}]
  BY DEF TypeInv, TypeOK, TypeOS
<1>z. "none" \notin Alive \cup Zombies
  BY DEF Alive, Zombies
<1> USE DEF Goto
<1>1. CASE proc' = proc
  BY <1>1 DEF OwnTaken
<1>2. ASSUME NEW j \in Judges, NEW c \in Alive \cup Zombies, proc' = [proc EXCEPT ![j] = c]
      PROVE  OwnTaken
  BY <1>2, <1>t, <1>z DEF OwnTaken
<1>3. ASSUME NEW j \in Judges, ForkCompiler(j) \/ ForkProgram(j) PROVE OwnTaken
  BY <1>1, <1>2, <1>3 DEF ForkCompiler, ForkProgram, Fork, osVars, Alive
<1>4. ASSUME NEW j \in Judges, WaitCompiler(j) PROVE OwnTaken
  <2>1. \A k \in Judges : k \notin Awaited(j, noPid[j]) => proc'[k] = proc[k]
    BY <1>4, <1>t, AwaitedType, ReapedEffect DEF WaitCompiler, NoChild, NotYet, osVars
  <2>2. pc'[j] # pc[j]
    BY <1>4, <1>t DEF WaitCompiler
  <2>3. QED BY <2>1, <2>2, TakenBy
<1>5. ASSUME NEW j \in Judges, ReadCommand(j) PROVE OwnTaken
  <2>1. \A k \in Judges : k \notin Awaited(j, noPid[j]) => proc'[k] = proc[k]
    BY <1>5, <1>t, KillLeaves DEF ReadCommand, osVars
  <2>2. pc'[j] # pc[j]
    BY <1>5, <1>t DEF ReadCommand
  <2>3. QED BY <2>1, <2>2, TakenBy
<1>6. ASSUME NEW j \in Judges, PollProgram(j) PROVE OwnTaken
  <2>1. \A k \in Judges : k \notin Awaited(j, noPid[j]) => proc'[k] = proc[k]
    BY <1>6, <1>t, AwaitedType, ReapedEffect DEF PollProgram, NoChild, NotYet, osVars
  <2>2. pc'[j] # pc[j]
    BY <1>6, <1>t DEF PollProgram
  <2>3. QED BY <2>1, <2>2, TakenBy
<1>7. ASSUME NEW j \in Judges, CheckElapsed(j) PROVE OwnTaken
  <2>1. \A k \in Judges : k \notin Awaited(j, noPid[j]) => proc'[k] = proc[k]
    BY <1>7, <1>t, KillLeaves DEF CheckElapsed, osVars
  <2>2. pc'[j] # pc[j]
    BY <1>7, <1>t DEF CheckElapsed
  <2>3. QED BY <2>1, <2>2, TakenBy
<1>8. ASSUME NEW j \in Judges, Child(j) PROVE OwnTaken
  <2>1. \E z \in Zombies : Exit(j, z)
    BY <1>8 DEF Child, CompilerExit, ProgramExit, KernelLimit, Ends, GoesOn, Zombies
  <2>2. QED BY <1>2, <2>1 DEF Exit
<1>9. ASSUME NEW j \in Judges,
             \/ Submit(j) \/ MakeTempDir(j) \/ WriteSource(j) \/ OpenCommandPipe(j)
             \/ CloseCommandPipe(j) \/ StatProgram(j) \/ OpenPipes(j) \/ CloseChildEnds(j)
             \/ FeedInput(j) \/ Drain(j) \/ RemoveTempDir(j)
      PROVE  OwnTaken
  BY <1>1, <1>9 DEF Submit, MakeTempDir, WriteSource, OpenCommandPipe, CloseCommandPipe,
     StatProgram, OpenPipes, CloseChildEnds, FeedInput, Drain, RemoveTempDir, osVars
<1>10. CASE Tick \/ UNCHANGED vars
  BY <1>1, <1>10 DEF Tick, vars, osVars
<1>11. CASE LeftMoves
  BY <1>1, <1>11, <1>t, LeftEffect
<1>12. QED BY <1>3, <1>4, <1>5, <1>6, <1>7, <1>8, <1>9, <1>10, <1>11 DEF Next, Thread, LeftMoves

\* No thread loses a child its wait status to another, unless that one's fork
\* has failed (judge.cc 55, 72, 214, 220).
THEOREM OwnChildrenOnly == Spec => OnlyOwnReap
<1>1. TypeInv /\ [Next]_vars =>
        [\A j \in Judges : proc[j] # "none" /\ proc'[j] = "none" =>
           \E k \in Judges : pc'[k] # pc[k] /\ (k = j \/ noPid[k])]_vars
  BY OwnTakenStep DEF OwnTaken
<1>2. QED BY <1>1, TypeInvariant, PTL DEF Spec, OnlyOwnReap

-----------------------------------------------------------------------------
\* Without failed forks a thread that polls has its own child, and a kill comes
\* after the limit.
LateAt(j) ==
  /\ ~noPid[j]
  /\ pc[j] \in Running => proc[j] # "none"
  /\ pc[j] = "drain" => how[j] # "lost" /\ (how[j] = "killed" => clock[j] > RealLimit)
LateInv == \A j \in Judges : LateAt(j)

\* A step of another thread leaves the child alone, and the clock of a thread
\* that drains stands still.
AwayFrom(j) ==
  /\ pc'[j] = pc[j] /\ noPid'[j] = noPid[j] /\ how'[j] = how[j]
  /\ proc'[j] = proc[j] \/ proc'[j] \in Zombies
  /\ pc[j] = "drain" => clock'[j] = clock[j]

\* What a thread knows of its lateness does not change by steps away from it.
LEMMA AwayKeeps == ASSUME NEW j \in Judges, LateAt(j), AwayFrom(j) PROVE LateAt(j)'
  BY DEF LateAt, AwayFrom, Zombies

\* LateInv is preserved by every step.
LEMMA LateStep ==
  ASSUME "fork" \notin MayFail, TypeInv, LateInv, [Next]_vars PROVE LateInv'
<1>t. /\ pc \in [Judges -> Steps] /\ noPid \in [Judges -> BOOLEAN]
      /\ how \in [Judges -> Outcomes] /\ clock \in [Judges -> 0..MaxClock] /\ TypeOS
      /\ proc \in [Judges -> Alive \cup Zombies \cup {"none"}]
  BY DEF TypeInv, TypeOK, TypeOS
<1>a. \A j \in Judges : LateAt(j)
  BY DEF LateInv
<1>w. \A j \in Judges : ~noPid[j] /\ Awaited(j, noPid[j]) = {j}
  BY <1>a DEF LateAt, Awaited
<1>z. "none" \notin Zombies \cup Alive /\ "lost" \notin Zombies /\ "killed" \notin Zombies
  BY DEF Alive, Zombies
<1> USE DEF Goto
<1>1. ASSUME NEW j \in Judges,
             \/ Submit(j) \/ MakeTempDir(j) \/ WriteSource(j) \/ OpenCommandPipe(j)
             \/ StatProgram(j) \/ OpenPipes(j) \/ Drain(j) \/ RemoveTempDir(j)
      PROVE  LateInv'
  <2>1. \A k \in Judges \ {j} : AwayFrom(k)
    BY <1>1, <1>t DEF Submit, MakeTempDir, WriteSource, OpenCommandPipe, StatProgram, OpenPipes,
       Drain, RemoveTempDir, CompileError, osVars, AwayFrom
  <2>2. ~noPid'[j] /\ pc'[j] \notin Running \cup {"drain"}
    BY <1>1, <1>t, <1>w DEF Submit, MakeTempDir, WriteSource, OpenCommandPipe, StatProgram,
       OpenPipes, Drain, RemoveTempDir, CompileError, Running
  <2>3. LateAt(j)'
    BY <2>2 DEF LateAt
  <2>4. QED BY <1>a, <2>1, <2>3, AwayKeeps DEF LateInv
<1>2. ASSUME NEW j \in Judges, ForkCompiler(j) \/ ForkProgram(j) PROVE LateInv'
  <2>1. PICK c \in Alive : proc' = [proc EXCEPT ![j] = c]
    BY <1>2 DEF ForkCompiler, ForkProgram, Fork, Alive
  <2>2. noPid' = [noPid EXCEPT ![j] = FALSE] /\ UNCHANGED <<how, clock>>
    BY <1>2 DEF ForkCompiler, ForkProgram, Fork
  <2>3. /\ \A k \in Judges \ {j} : pc'[k] = pc[k]
        /\ pc'[j] # "drain"
    BY <1>2, <1>t DEF ForkCompiler, ForkProgram
  <2>4. \A k \in Judges \ {j} : AwayFrom(k)
    BY <1>t, <2>1, <2>2, <2>3 DEF AwayFrom
  <2>5. LateAt(j)'
    BY <1>t, <1>z, <2>1, <2>2, <2>3 DEF LateAt
  <2>6. QED BY <1>a, <2>4, <2>5, AwayKeeps DEF LateInv
<1>3. ASSUME NEW j \in Judges, CloseCommandPipe(j) \/ CloseChildEnds(j) \/ FeedInput(j)
      PROVE  LateInv'
  <2>1. \A k \in Judges \ {j} : AwayFrom(k)
    BY <1>3, <1>t DEF CloseCommandPipe, CloseChildEnds, FeedInput, AwayFrom
  <2>2. LateAt(j)'
    BY <1>3, <1>t, <1>a DEF CloseCommandPipe, CloseChildEnds, FeedInput, LateAt, Running
  <2>3. QED BY <1>a, <2>1, <2>2, AwayKeeps DEF LateInv
<1>4. ASSUME NEW j \in Judges, WaitCompiler(j) PROVE LateInv'
  <2>1. \A k \in Judges \ {j} : proc'[k] = proc[k]
    BY <1>4, <1>t, <1>w, ReapedEffect DEF WaitCompiler, NoChild, NotYet, osVars
  <2>2. \A k \in Judges \ {j} : AwayFrom(k)
    BY <1>4, <1>t, <2>1 DEF WaitCompiler, AwayFrom
  <2>3. LateAt(j)'
    BY <1>4, <1>t, <1>w DEF WaitCompiler, LateAt, Running
  <2>4. QED BY <1>a, <2>2, <2>3, AwayKeeps DEF LateInv
<1>5. ASSUME NEW j \in Judges, ReadCommand(j) PROVE LateInv'
  <2>1. \A k \in Judges \ {j} : proc'[k] = proc[k]
    <3>1. KillAndReap(j, noPid[j]) \/ UNCHANGED <<proc, writers>>
      BY <1>5 DEF ReadCommand, osVars
    <3>2. QED BY <1>t, <1>w, <3>1, KillOwn
  <2>2. \A k \in Judges \ {j} : AwayFrom(k)
    BY <1>5, <1>t, <2>1 DEF ReadCommand, AwayFrom
  <2>3. LateAt(j)'
    BY <1>5, <1>t, <1>w DEF ReadCommand, LateAt, Running
  <2>4. QED BY <1>a, <2>2, <2>3, AwayKeeps DEF LateInv
<1>6. ASSUME NEW j \in Judges, PollProgram(j) PROVE LateInv'
  <2>1. pc[j] = "poll" /\ proc[j] # "none"
    BY <1>6, <1>a DEF PollProgram, LateAt, Running
  <2>2. ~NoChild({j})
    BY <2>1 DEF NoChild, Children
  <2>3. \A k \in Judges \ {j} : proc'[k] = proc[k]
    BY <1>6, <1>t, <1>w, ReapedEffect DEF PollProgram, NoChild, NotYet, osVars
  <2>4. \A k \in Judges \ {j} : AwayFrom(k)
    BY <1>6, <1>t, <2>3 DEF PollProgram, AwayFrom
  <2>5. LateAt(j)'
    <3>1. CASE Reaped({j}) /\ pc' = [pc EXCEPT ![j] = "drain"] /\ how' = [how EXCEPT ![j] = proc[j]]
      <4>1. proc[j] \in Zombies
        BY <1>t, <3>1, ReapedEffect
      <4>2. how'[j] \in Zombies /\ pc'[j] = "drain"
        BY <1>t, <3>1, <4>1
      <4>3. ~noPid'[j]
        BY <1>6, <1>w DEF PollProgram
      <4>4. QED BY <1>z, <4>2, <4>3 DEF LateAt, Running
    <3>2. CASE pc' = [pc EXCEPT ![j] = "check"] /\ NotYet({j})
      BY <1>6, <1>t, <1>w, <2>1, <3>2 DEF PollProgram, NotYet, osVars, LateAt, Running
    <3>3. QED BY <1>6, <1>w, <2>2, <3>1, <3>2 DEF PollProgram
  <2>6. QED BY <1>a, <2>4, <2>5, AwayKeeps DEF LateInv
<1>7. ASSUME NEW j \in Judges, CheckElapsed(j) PROVE LateInv'
  <2>1. \A k \in Judges \ {j} : proc'[k] = proc[k]
    <3>1. KillAndReap(j, noPid[j]) \/ UNCHANGED <<proc, writers>>
      BY <1>7 DEF CheckElapsed, osVars
    <3>2. QED BY <1>t, <1>w, <3>1, KillOwn
  <2>2. \A k \in Judges \ {j} : AwayFrom(k)
    BY <1>7, <1>t, <2>1 DEF CheckElapsed, AwayFrom
  <2>3. LateAt(j)'
    BY <1>7, <1>t, <1>w, <1>a DEF CheckElapsed, Elapsed, LateAt, Running, osVars
  <2>4. QED BY <1>a, <2>2, <2>3, AwayKeeps DEF LateInv
<1>8. ASSUME NEW j \in Judges, Child(j) PROVE LateInv'
  <2>1. PICK z \in Zombies : proc' = [proc EXCEPT ![j] = z]
    BY <1>8 DEF Child, CompilerExit, ProgramExit, KernelLimit, Ends, GoesOn, Zombies, Exit
  <2>2. UNCHANGED <<pc, noPid, how, clock>>
    BY <1>8 DEF Child, CompilerExit, ProgramExit, KernelLimit, local
  <2>3. \A k \in Judges : AwayFrom(k)
    BY <1>t, <2>1, <2>2 DEF AwayFrom
  <2>4. QED BY <1>a, <2>3, AwayKeeps DEF LateInv
<1>9. CASE Tick
  <2>1. \A k \in Judges : pc[k] = "drain" => clock'[k] = clock[k]
    BY <1>9 DEF Tick, Timed
  <2>2. \A k \in Judges : AwayFrom(k)
    BY <1>9, <2>1 DEF Tick, local, osVars, AwayFrom
  <2>3. QED BY <1>a, <2>2, AwayKeeps DEF LateInv
<1>10. CASE UNCHANGED vars
  BY <1>10, <1>a DEF vars, LateInv, LateAt
<1>11. CASE LeftMoves
  <2>1. \A k \in Judges : AwayFrom(k)
    BY <1>11, <1>t, LeftEffect DEF local, AwayFrom
  <2>2. QED BY <1>a, <2>1, AwayKeeps DEF LateInv
<1>12. QED
  BY <1>1, <1>2, <1>3, <1>4, <1>5, <1>6, <1>7, <1>8, <1>9, <1>10, <1>11 DEF Next, Thread, LeftMoves

\* LateInv is an invariant where fork does not fail.
LEMMA LateInvariant == ASSUME "fork" \notin MayFail PROVE Spec => []LateInv
<1>1. Init => LateInv
  BY DEF Init, InitOS, LateInv, LateAt, Running
<1>2. TypeInv /\ LateInv /\ [Next]_vars => LateInv'
  BY LateStep
<1>3. QED BY <1>1, <1>2, TypeInvariant, PTL DEF Spec

\* Unless a fork fails, TLE is given only to a program that has run beyond the
\* real time limit or was ended by SIGXCPU (judge_single 211-256).
THEOREM TleIsLate == ASSUME "fork" \notin MayFail PROVE Spec => TleMeansLate
<1>1. Spec => []LateInv
  BY LateInvariant
<1>2. TypeInv /\ LateInv /\ [Next]_vars =>
        [\A j \in Judges :
           pc[j] = "drain" /\ pc'[j] = "clean" /\ answer'[j].status = "TLE" =>
             clock[j] > RealLimit \/ how[j] = "XCPU"]_vars
  <2>1. SUFFICES ASSUME TypeInv, LateInv, Next, NEW j \in Judges,
                        pc[j] = "drain", pc'[j] = "clean", answer'[j].status = "TLE"
                 PROVE  clock[j] > RealLimit \/ how[j] = "XCPU"
    OBVIOUS
  <2>2. pc \in [Judges -> Steps] /\ answer \in [Judges -> Answers]
    BY <2>1 DEF TypeInv, TypeOK
  <2>3. Drain(j)
    <3>1. CASE Tick
      BY <2>1, <3>1 DEF Tick, local
    <3>2. ASSUME NEW k \in Judges, Child(k) PROVE FALSE
      BY <2>1, <3>2 DEF Child, CompilerExit, ProgramExit, KernelLimit, local
    <3>3. ASSUME NEW k \in Judges, Submit(k) PROVE FALSE
      BY <2>1, <2>2, <3>3 DEF Submit
    <3>4. ASSUME NEW k \in Judges, Thread(k) PROVE k = j /\ Drain(k)
      <4>1. pc'[k] # pc[k] /\ \A i \in Judges \ {k} : pc'[i] = pc[i]
        BY <2>2, <3>4 DEF Thread, Goto, MakeTempDir, WriteSource, OpenCommandPipe, ForkCompiler,
           CloseCommandPipe, WaitCompiler, ReadCommand, StatProgram, CompileError, OpenPipes,
           ForkProgram, CloseChildEnds, FeedInput, PollProgram, CheckElapsed, Drain, RemoveTempDir
      <4>2. k = j
        BY <2>1, <4>1
      <4>3. QED
        BY <2>1, <3>4, <4>2 DEF Thread, Goto, MakeTempDir, WriteSource, OpenCommandPipe,
           ForkCompiler, CloseCommandPipe, WaitCompiler, ReadCommand, StatProgram, CompileError,
           OpenPipes, ForkProgram, CloseChildEnds, FeedInput, PollProgram, CheckElapsed,
           RemoveTempDir
    <3>5. CASE LeftMoves
      BY <2>1, <3>5, LeftEffect DEF local, TypeInv, TypeOK
    <3>6. QED BY <2>1, <3>1, <3>2, <3>3, <3>4, <3>5 DEF Next, LeftMoves
  <2>4. Verdict(j) = "TLE"
    BY <2>1, <2>2, <2>3 DEF Drain, Goto, Answer
  <2>5. how[j] \in {"killed", "lost", "XCPU"}
    BY <2>4 DEF Verdict
  <2>6. QED BY <2>1, <2>5 DEF LateInv, LateAt
<1>3. QED BY <1>1, <1>2, TypeInvariant, PTL DEF Spec, TleMeansLate

=============================================================================
