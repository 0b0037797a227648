-------------------------------- MODULE Judge --------------------------------
(***************************************************************************)
(* judge.cc: compile_and_judge run by several threads of the server at the *)
(* same time.  One action per step between two system calls that other     *)
(* threads, children or the clock may see or disturb.                      *)
(***************************************************************************)
EXTENDS Submissions, Processes

CONSTANTS MayFail,        \* the system calls that may fail
          BlankExpected,  \* the expected output is blank (so printing nothing matches)
          CpuSoft, CpuHard,       \* RLIMIT_CPU of a program, in ticks
          RealLimit,      \* JUDGE_REAL_TIMEOUT_MS, in ticks
          CompileLimit,   \* JUDGE_COMPILE_TIMEOUT_SEC, in ticks
          Prompt          \* the machine is not loaded: every thread and child
                          \* that can go on does so before the clock ticks

ASSUME JudgeAssumption ==
  /\ MayFail \subseteq {"mkdtemp", "open", "pipe", "fork"}
  /\ BlankExpected \in BOOLEAN /\ Prompt \in BOOLEAN
  /\ CpuSoft \in Nat /\ CpuHard \in Nat /\ RealLimit \in Nat /\ CompileLimit \in Nat
  /\ 0 < CpuSoft /\ CpuSoft < CpuHard

VARIABLES
  pc,       \* the step the thread is at
  sub,      \* the code and the cases it was given
  idx,      \* the case it runs (i + 1 of the loop)
  noPid,    \* its last fork returned -1, and pid is -1
  got,      \* the last waitpid returned something else than 0
  how,      \* how the run of the case ended
  clock,    \* the ticks since the last steady_clock::now() in start
  cpu,      \* the CPU ticks of its program
  bin,      \* the executable exists in the temporary directory
  tmp,      \* the temporary directory exists
  answer    \* the JudgeResult

local == <<pc, sub, idx, noPid, got, how, bin, tmp, answer>>
vars == <<pc, sub, idx, noPid, got, how, clock, cpu, bin, tmp, answer, proc, writers>>

Steps == {"idle", "begin", "write", "cmdPipe", "cmdFork", "cmdClose", "cmdWait",
          "cmdRead", "stat", "pipes", "fork", "close", "feed", "poll", "check",
          "drain", "clean", "done"}
Outcomes == Zombies \cup {"killed", "lost", "none"}
MaxClock == (IF RealLimit > CompileLimit THEN RealLimit ELSE CompileLimit) + 1

TypeOK ==
  /\ TypeOS
  /\ pc \in [Judges -> Steps]
  /\ sub \in [Judges -> Submissions \cup {[compile |-> "error", runs |-> <<>>]}]
  /\ idx \in [Judges -> 0..MaxCases]
  /\ noPid \in [Judges -> BOOLEAN] /\ got \in [Judges -> BOOLEAN]
  /\ how \in [Judges -> Outcomes]
  /\ clock \in [Judges -> 0..MaxClock]
  /\ cpu \in [Judges -> 0..CpuHard]
  /\ bin \in [Judges -> BOOLEAN] /\ tmp \in [Judges -> BOOLEAN]
  /\ answer \in [Judges -> Answers]

Init ==
  /\ InitOS
  /\ pc = [j \in Judges |-> "idle"]
  /\ sub = [j \in Judges |-> [compile |-> "error", runs |-> <<>>]]
  /\ idx = [j \in Judges |-> 0]
  /\ noPid = [j \in Judges |-> FALSE] /\ got = [j \in Judges |-> FALSE]
  /\ how = [j \in Judges |-> "none"]
  /\ clock = [j \in Judges |-> 0] /\ cpu = [j \in Judges |-> 0]
  /\ bin = [j \in Judges |-> FALSE] /\ tmp = [j \in Judges |-> FALSE]
  /\ answer = [j \in Judges |-> NoAnswer]

Goto(j, from, to) == pc[j] = from /\ pc' = [pc EXCEPT ![j] = to]
Run(j) == sub[j].runs[idx[j]]      \* what the program does on the case at hand

-----------------------------------------------------------------------------
\* compile_and_judge up to the compilation.

\* A request of the thread calls compile_and_judge.
Submit(j) ==
  /\ pc[j] \in {"idle", "done"}
  /\ pc' = [pc EXCEPT ![j] = "begin"]
  /\ \E s \in Submissions : sub' = [sub EXCEPT ![j] = s]
  /\ idx' = [idx EXCEPT ![j] = 0]
  /\ answer' = [answer EXCEPT ![j] = NoAnswer]
  /\ UNCHANGED <<noPid, got, how, clock, cpu, bin, tmp, osVars>>

\* Mutant: the early return forgets rm_temp_dir.
CompileErrorKeepsDir(j, from) ==
  /\ Goto(j, from, "done")
  /\ answer' = [answer EXCEPT ![j] = Answer("CE", 0)]
  /\ UNCHANGED <<tmp, bin>>

\* The thread gives up with a compilation error, and removes its directory.
CompileError(j, from) ==
  /\ Goto(j, from, "done")
  /\ answer' = [answer EXCEPT ![j] = Answer("CE", 0)]
  /\ tmp' = [tmp EXCEPT ![j] = FALSE]
  /\ bin' = [bin EXCEPT ![j] = FALSE]

\* No case at all is a compilation error too; otherwise mkdtemp.
MakeTempDir(j) ==
  /\ \/ /\ sub[j].runs # <<>>
        /\ Goto(j, "begin", "write")
        /\ tmp' = [tmp EXCEPT ![j] = TRUE]
        /\ UNCHANGED <<bin, answer>>
     \/ /\ sub[j].runs = <<>> \/ "mkdtemp" \in MayFail
        /\ CompileError(j, "begin")
  /\ UNCHANGED <<sub, idx, noPid, got, how, clock, cpu, osVars>>

WriteSource(j) ==
  /\ \/ Goto(j, "write", "cmdPipe") /\ UNCHANGED <<tmp, bin, answer>>
     \/ "open" \in MayFail /\ CompileError(j, "write")
  /\ UNCHANGED <<sub, idx, noPid, got, how, clock, cpu, osVars>>

\* run_cmd: without a pipe the compiler never starts, and there is no program.
OpenCommandPipe(j) ==
  /\ \/ /\ Goto(j, "cmdPipe", "cmdFork")
        /\ writers' = [writers EXCEPT ![<<j, "cmd">>] = {Server}]
     \/ "pipe" \in MayFail /\ Goto(j, "cmdPipe", "stat") /\ UNCHANGED writers
  /\ UNCHANGED <<sub, idx, noPid, got, how, clock, cpu, bin, tmp, answer, proc>>

\* fork: a child with copies of the server's write ends, or pid = -1.
Fork(j, child, closed) ==
  \/ /\ proc' = [proc EXCEPT ![j] = child]
     /\ writers' = Inherited(writers, j, closed)
     /\ noPid' = [noPid EXCEPT ![j] = FALSE]
  \/ /\ "fork" \in MayFail
     /\ noPid' = [noPid EXCEPT ![j] = TRUE]
     /\ UNCHANGED osVars

\* Mutant: the server keeps its copy.
KeepEnd(j, e) == j = j /\ e = e /\ UNCHANGED writers

\* The server closes its copy of a write end.
CloseEnd(j, e) == writers' = [writers EXCEPT ![<<j, e>>] = @ \ {Server}]

ForkCompiler(j) ==
  /\ Goto(j, "cmdFork", "cmdClose")
  /\ Fork(j, "compiler", {})
  /\ UNCHANGED <<sub, idx, got, how, clock, cpu, bin, tmp, answer>>

CloseCommandPipe(j) ==
  /\ Goto(j, "cmdClose", "cmdWait")
  /\ CloseEnd(j, "cmd")
  /\ clock' = [clock EXCEPT ![j] = 0]
  /\ UNCHANGED <<sub, idx, noPid, got, how, cpu, bin, tmp, answer, proc>>

\* waitpid(pid, &status, WNOHANG): a child of the set S is taken, there is none
\* (ECHILD), or none of them is dead yet.
Reaped(S) == \E k \in Dead(S) : Reap(k)
NoChild(S) == Children(S) = {} /\ UNCHANGED osVars
NotYet(S) == Children(S) # {} /\ Dead(S) = {} /\ UNCHANGED osVars

WaitCompiler(j) ==
  /\ Goto(j, "cmdWait", "cmdRead")
  /\ LET S == Awaited(j, noPid[j]) IN
       \/ (Reaped(S) \/ NoChild(S)) /\ got' = [got EXCEPT ![j] = TRUE]
       \/ NotYet(S) /\ got' = [got EXCEPT ![j] = FALSE]
  /\ UNCHANGED <<sub, idx, noPid, how, clock, cpu, bin, tmp, answer>>

\* Mutants: the limit is tested with >=, or not at all.
ElapsedEarly(j, limit) == clock[j] >= limit
ElapsedNever(j, limit) == clock[j] > limit /\ FALSE

\* More than the limit has passed since start.
Elapsed(j, limit) == clock[j] > limit

\* The read blocks until every holder of the write end has closed it; only
\* then is the clock looked at.  Locals that are dead after the loop are reset.
ReadCommand(j) ==
  /\ Closed(<<j, "cmd">>)
  /\ \/ /\ got[j]
        /\ Goto(j, "cmdRead", "stat")
        /\ UNCHANGED osVars
     \/ /\ ~got[j] /\ Elapsed(j, CompileLimit)
        /\ Goto(j, "cmdRead", "stat")
        /\ KillAndReap(j, noPid[j])
     \/ /\ ~got[j] /\ ~Elapsed(j, CompileLimit)
        /\ Goto(j, "cmdRead", "cmdWait")
        /\ UNCHANGED osVars
  /\ clock' = [clock EXCEPT ![j] = IF pc'[j] = "stat" THEN 0 ELSE @]
  /\ got' = [got EXCEPT ![j] = FALSE]
  /\ noPid' = [noPid EXCEPT ![j] = @ /\ pc'[j] # "stat"]
  /\ UNCHANGED <<sub, idx, how, cpu, bin, tmp, answer>>

StatProgram(j) ==
  /\ \/ /\ bin[j]
        /\ Goto(j, "stat", "pipes")
        /\ idx' = [idx EXCEPT ![j] = 1]
        /\ UNCHANGED <<tmp, bin, answer>>
     \/ ~bin[j] /\ CompileError(j, "stat") /\ UNCHANGED idx
  /\ UNCHANGED <<sub, noPid, got, how, clock, cpu, osVars>>

-----------------------------------------------------------------------------
\* judge_single.

\* Either pipe may fail; when the second does, the first stays open.
OpenPipes(j) ==
  /\ \/ /\ Goto(j, "pipes", "fork")
        /\ writers' = [writers EXCEPT ![<<j, "in">>] = {Server}, ![<<j, "out">>] = {Server}]
        /\ UNCHANGED answer
     \/ /\ "pipe" \in MayFail
        /\ Goto(j, "pipes", "clean")
        /\ writers' \in {writers, [writers EXCEPT ![<<j, "in">>] = {Server}]}
        /\ answer' = [answer EXCEPT ![j] = Answer("RE", idx[j])]
  /\ UNCHANGED <<sub, idx, noPid, got, how, clock, cpu, bin, tmp, proc>>

ForkProgram(j) ==
  /\ Goto(j, "fork", "close")
  /\ Fork(j, "program", {<<j, "in">>})
  /\ cpu' = [cpu EXCEPT ![j] = 0]
  /\ UNCHANGED <<sub, idx, got, how, clock, bin, tmp, answer>>

CloseChildEnds(j) ==
  /\ Goto(j, "close", "feed")
  /\ CloseEnd(j, "out")
  /\ UNCHANGED <<sub, idx, noPid, got, how, clock, cpu, bin, tmp, answer, proc>>

\* A test case's input is a TEXT column, at most 65535 bytes: it fits in the
\* pipe, so the write never blocks.
FeedInput(j) ==
  /\ Goto(j, "feed", "poll")
  /\ CloseEnd(j, "in")
  /\ clock' = [clock EXCEPT ![j] = 0]
  /\ UNCHANGED <<sub, idx, noPid, got, how, cpu, bin, tmp, answer, proc>>

\* r = waitpid(pid, &status, WNOHANG) sets r and status: how[j] is the wait
\* status when r = pid, "lost" when it is anything else.  With pid = -1, r = -1
\* (no child at all) equals pid, and status is read uninitialized.
PollProgram(j) ==
  /\ LET S == Awaited(j, noPid[j]) IN
       \/ /\ Goto(j, "poll", "drain")
          /\ \/ /\ Reaped(S)
                /\ how' = [how EXCEPT ![j] = IF noPid[j] THEN "lost" ELSE proc[j]]
             \/ /\ NoChild(S)
                /\ \E h \in IF noPid[j] THEN Zombies ELSE {"lost"} :
                     how' = [how EXCEPT ![j] = h]
       \/ Goto(j, "poll", "check") /\ NotYet(S) /\ UNCHANGED how
  /\ UNCHANGED <<sub, idx, noPid, got, clock, cpu, bin, tmp, answer>>

CheckElapsed(j) ==
  /\ \/ /\ Elapsed(j, RealLimit)
        /\ Goto(j, "check", "drain")
        /\ KillAndReap(j, noPid[j])
        /\ how' = [how EXCEPT ![j] = "killed"]
     \/ /\ ~Elapsed(j, RealLimit)
        /\ Goto(j, "check", "poll")
        /\ UNCHANGED <<how, osVars>>
  /\ UNCHANGED <<sub, idx, noPid, got, clock, cpu, bin, tmp, answer>>

\* Mutant: the outputs are not compared.
OutputIgnored(j) == j = j

\* A child that never ran has printed nothing.
OutputMatches(j) == IF noPid[j] THEN BlankExpected ELSE Run(j).right

\* The verdict on a case, from the wait status and then the output.
Verdict(j) ==
  CASE how[j] \in {"killed", "lost", "XCPU"} -> "TLE"
    [] how[j] = "KILL" -> "MLE"
    [] how[j] \in {"fault", "exit1"} -> "RE"
    [] OTHER -> IF OutputMatches(j) THEN "AC" ELSE "WA"

\* Mutant: the loop over the cases ends one too early.
LastCaseEarly(j) == idx[j] + 1 >= Len(sub[j].runs)

LastCase(j) == idx[j] = Len(sub[j].runs)

\* The output is read to its end, which every holder of the write end delays.
Drain(j) ==
  /\ Closed(<<j, "out">>)
  /\ LET v == Verdict(j)
         more == v = "AC" /\ ~LastCase(j) IN
       /\ Goto(j, "drain", IF more THEN "pipes" ELSE "clean")
       /\ idx' = [idx EXCEPT ![j] = IF more THEN @ + 1 ELSE @]
       /\ answer' = [answer EXCEPT ![j] =
            IF more THEN @ ELSE Answer(v, IF v = "AC" THEN 0 ELSE idx[j])]
  /\ how' = [how EXCEPT ![j] = "none"]
  /\ noPid' = [noPid EXCEPT ![j] = FALSE]
  /\ clock' = [clock EXCEPT ![j] = 0]
  /\ cpu' = [cpu EXCEPT ![j] = 0]
  /\ UNCHANGED <<sub, got, bin, tmp, osVars>>

RemoveTempDir(j) ==
  /\ Goto(j, "clean", "done")
  /\ tmp' = [tmp EXCEPT ![j] = FALSE]
  /\ bin' = [bin EXCEPT ![j] = FALSE]
  /\ UNCHANGED <<sub, idx, noPid, got, how, clock, cpu, answer, osVars>>

-----------------------------------------------------------------------------
\* The children, the kernel and the clock.

\* g++ ends by itself unless it hangs; only a successful one leaves a program.
CompilerExit(j) ==
  /\ proc[j] = "compiler"
  /\ sub[j].compile # "hang"
  /\ Exit(j, IF sub[j].compile = "ok" THEN "exit0" ELSE "exit1")
  /\ bin' = [bin EXCEPT ![j] = sub[j].compile = "ok"]
  /\ UNCHANGED <<pc, sub, idx, noPid, got, how, clock, cpu, tmp, answer>>

\* A program goes on to its ending once its output fits in the pipe, which
\* nobody reads before it has ended, and its input is complete if it reads it.
GoesOn(j) ==
  /\ proc[j] = "program"
  /\ ~Run(j).long
  /\ Run(j).reads => Closed(<<j, "in">>)

Ends(j) == GoesOn(j) /\ Run(j).ends \in {"exit0", "exit1", "fault", "hog"}

\* RLIMIT_AS makes an allocation beyond the limit fail, and the program aborts.
ProgramExit(j) ==
  /\ Ends(j)
  /\ Exit(j, IF Run(j).ends = "hog" THEN "fault" ELSE Run(j).ends)
  /\ UNCHANGED <<local, clock, cpu>>

\* RLIMIT_CPU: SIGXCPU at the soft limit, SIGKILL at the hard one.
Computes(j) == GoesOn(j) /\ Run(j).ends \in {"spin", "spinOn"}

\* Mutant: the hard limit is set a second too far.
CpuLimitLate(j) == IF Run(j).ends = "spinOn" THEN CpuHard + 1 ELSE CpuSoft

CpuLimit(j) == IF Run(j).ends = "spinOn" THEN CpuHard ELSE CpuSoft
OverLimit(j) == Computes(j) /\ cpu[j] >= CpuLimit(j)

KernelLimit(j) ==
  /\ OverLimit(j)
  /\ Exit(j, IF Run(j).ends = "spinOn" THEN "KILL" ELSE "XCPU")
  /\ UNCHANGED <<local, clock, cpu>>

\* clone is an allowed call, and RLIMIT_NPROC does not bind a server that runs
\* as root, which chroot needs.
ProgramClone(j) ==
  /\ proc[j] = "program" /\ Run(j).clones
  /\ Clone(j)
  /\ UNCHANGED <<local, clock, cpu>>

\* A process left behind ends, or closes an end it holds, when it likes.
LeftCloses(p) == LetGo(p) /\ UNCHANGED <<local, clock, cpu>>

\* Nothing of thread j can go on before time passes: it blocks in a read or
\* sleeps between two polls, and so does its child.
ThreadRests(j) ==
  \/ pc[j] \in {"idle", "done"}
  \/ pc[j] = "cmdRead" /\ ~Closed(<<j, "cmd">>)
  \/ pc[j] = "drain" /\ ~Closed(<<j, "out">>)
  \/ /\ pc[j] = "poll" /\ clock[j] <= RealLimit
     /\ Children(Awaited(j, noPid[j])) # {} /\ Dead(Awaited(j, noPid[j])) = {}
ChildRests(j) ==
  /\ ~(proc[j] = "compiler" /\ sub[j].compile # "hang")
  /\ ~Ends(j) /\ ~OverLimit(j)

Timed == {"cmdWait", "cmdRead", "poll", "check"}

\* The clock advances for every loop that looks at it, and so does the CPU time
\* of the programs that compute and get a processor (all, on an idle machine).
Tick ==
  /\ Prompt => \A j \in Judges : ThreadRests(j) /\ ChildRests(j)
  /\ clock' = [j \in Judges |->
       IF pc[j] \in Timed /\ clock[j] < MaxClock THEN clock[j] + 1 ELSE clock[j]]
  /\ LET C == {j \in Judges : Computes(j) /\ cpu[j] < CpuLimit(j)} IN
       \E S \in (IF Prompt THEN {C} ELSE SUBSET C) :
         cpu' = [j \in Judges |-> IF j \in S THEN cpu[j] + 1 ELSE cpu[j]]
  /\ UNCHANGED <<local, osVars>>

-----------------------------------------------------------------------------
Thread(j) ==
  \/ MakeTempDir(j) \/ WriteSource(j)
  \/ OpenCommandPipe(j) \/ ForkCompiler(j) \/ CloseCommandPipe(j)
  \/ WaitCompiler(j) \/ ReadCommand(j) \/ StatProgram(j)
  \/ OpenPipes(j) \/ ForkProgram(j) \/ CloseChildEnds(j) \/ FeedInput(j)
  \/ PollProgram(j) \/ CheckElapsed(j) \/ Drain(j) \/ RemoveTempDir(j)
Child(j) == CompilerExit(j) \/ ProgramExit(j) \/ KernelLimit(j)

Next ==
  \/ \E j \in Judges : Submit(j) \/ Thread(j) \/ Child(j) \/ ProgramClone(j)
  \/ \E p \in Pipes : LeftCloses(p)
  \/ Tick

Spec == Init /\ [][Next]_vars

\* Threads and children that can go on are scheduled, and time passes.  What a
\* program leaves behind need not end.
Fairness == WF_vars(Tick) /\ \A j \in Judges : WF_vars(Thread(j)) /\ WF_vars(Child(j))
FairSpec == Spec /\ Fairness

-----------------------------------------------------------------------------
(***************************************************************************)
(* What the judge is meant to guarantee.                                   *)
(***************************************************************************)

\* A submission is accepted only if every case was run by a child of its own
\* and solved, whatever fails and whoever takes whose wait status (judge_single
\* 241-265, the loop of compile_and_judge).  A blank expected output is the
\* exception: then a program that never started may be accepted.
AcSound ==
  ~BlankExpected =>
    \A j \in Judges :
      pc[j] \in {"clean", "done"} /\ answer[j].status = "AC" =>
        \A i \in 1..Len(sub[j].runs) : Correct(sub[j].runs[i])

\* When a request is over its child has been waited for, its directory is gone
\* and the server holds no write end of its pipes, but for the input pipe of a
\* case whose second pipe() failed (judge_single 190, compile_and_judge 284-327).
CleanExit ==
  \A j \in Judges : pc[j] = "done" =>
    /\ proc[j] = "none" /\ ~tmp[j] /\ ~bin[j]
    /\ Server \notin writers[<<j, "cmd">>] \cup writers[<<j, "out">>]
    /\ Server \in writers[<<j, "in">>] => answer[j].status = "RE" \/ idx[j] = 0

\* A thread that reads from a child's pipe waits for live children and for what
\* programs left behind, never for the server itself or for a dead child: nobody
\* waits for a write end that no exit will close (judge.cc 57, 64, 233).
Lives(k) == k = Left \/ (k \in Judges /\ proc[k] \in Alive)
BlockedOnLive ==
  \A j \in Judges :
    /\ pc[j] = "cmdRead" => \A k \in writers[<<j, "cmd">>] : Lives(k)
    /\ pc[j] = "drain" => \A k \in writers[<<j, "out">>] : Lives(k)

\* A child is waited for by the thread that forked it, or else by one whose own
\* fork failed: no other thread can lose a child its wait status (55, 72, 214, 220).
OnlyOwnReap ==
  [][\A j \in Judges : proc[j] # "none" /\ proc'[j] = "none" =>
       \E k \in Judges : pc'[k] # pc[k] /\ (k = j \/ noPid[k])]_vars

\* A case is given TLE only after the real time limit or SIGXCPU (API.md 253).
TleMeansLate ==
  [][\A j \in Judges :
       pc[j] = "drain" /\ pc'[j] = "clean" /\ answer'[j].status = "TLE" =>
         clock[j] > RealLimit \/ how[j] = "XCPU"]_vars

\* Every answer is one the abstract specification allows: the verdict of the
\* first case that is not accepted, explained by what the program did.
Promised == INSTANCE Grading WITH
  phase <- [j \in Judges |-> IF pc[j] \in {"idle", "done"} THEN "free" ELSE "judging"],
  answer <- [j \in Judges |-> IF pc[j] = "done" THEN answer[j] ELSE NoAnswer]
ImplementsGrading == Promised!Spec

\* The verdict that the documents give a program: API.md 247-256, and SPEC.md
\* 206 and 493, by which the size of an output up to 1 MB does not matter and an
\* allocation beyond 128 MB is MLE.
DocumentedVerdict(b) ==
  CASE b.ends \in {"block", "spin"} -> "TLE"
    [] b.ends \in {"spinOn", "hog"} -> "MLE"
    [] b.ends \in {"exit1", "fault"} -> "RE"
    [] OTHER -> IF b.right THEN "AC" ELSE "WA"
Failing(s) == {i \in 1..Len(s.runs) : DocumentedVerdict(s.runs[i]) # "AC"}
JudgedAsDocumented(j) ==
  LET bad == Failing(sub[j]) IN
    IF bad = {} THEN answer[j] = Answer("AC", 0)
    ELSE \E i \in bad : /\ \A k \in bad : i <= k
                        /\ answer[j] = Answer(DocumentedVerdict(sub[j].runs[i]), i)

\* The programs that the judge does not give the documented verdict: what they
\* print does not fit in a pipe (judge.cc 231), or they allocate too much (150).
Disputed(b) == b.long \/ b.ends = "hog"

\* On an idle machine every other submission gets the documented verdict of its
\* first case that is not accepted.
ExactVerdict ==
  \A j \in Judges :
    /\ pc[j] = "done" /\ sub[j].compile = "ok" /\ sub[j].runs # <<>>
    /\ \A i \in 1..Len(sub[j].runs) : ~Disputed(sub[j].runs[i])
    => JudgedAsDocumented(j)

\* A program that solves every case is accepted (API.md 251).
CorrectAccepted ==
  \A j \in Judges : pc[j] = "done" /\ sub[j].compile = "ok" /\ sub[j].runs # <<>> =>
    ((\A i \in 1..Len(sub[j].runs) : Correct(sub[j].runs[i])) => answer[j].status = "AC")

\* Every request is answered, as long as every compilation ends and no program
\* leaves a process behind.
Answered == \A j \in Judges : pc[j] = "begin" ~> pc[j] = "done"

\* A compilation is over some time after it has begun, by itself or by the limit
\* of 30 s that SPEC.md 256 says there is.
CompileTimeoutEnds == \A j \in Judges : pc[j] = "cmdWait" ~> pc[j] = "stat"

=============================================================================
