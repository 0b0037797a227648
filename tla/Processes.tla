------------------------------ MODULE Processes ------------------------------
(***************************************************************************)
(* The services of the operating system the judge uses: child processes,   *)
(* their wait statuses, and who holds the write end of each pipe.  One     *)
(* server process holds all the threads, so a fork in any thread copies    *)
(* every write end the server has open at that moment; pipe() is called    *)
(* without O_CLOEXEC, so the copies survive execve and are closed only     *)
(* when the child exits.  A judge thread has at most one child.            *)
(***************************************************************************)
EXTENDS Naturals

CONSTANTS Judges,     \* the threads of the server that judge
          Server,     \* the server process, as a holder of write ends
          Left        \* the processes that judged programs leave behind, all in one

ASSUME ServerAssumption == Server \notin Judges /\ Left \notin Judges /\ Server # Left

VARIABLES proc,       \* proc[j]: the child thread j forked
          writers     \* writers[<<j, e>>]: the processes holding the write
                      \* end of j's pipe e
osVars == <<proc, writers>>

\* The pipes of a thread: the compiler's output, a program's input and output.
PipeOf == {"cmd", "in", "out"}
Pipes == Judges \X PipeOf
Holders == Judges \cup {Server, Left}     \* j stands for the child of thread j

\* A child that has exited is a zombie until it is waited for, and keeps its
\* wait status: exited with 0, exited with another code, or ended by SIGABRT or
\* SIGSEGV ("fault"), by SIGXCPU or by SIGKILL.
Zombies == {"exit0", "exit1", "fault", "XCPU", "KILL"}
Alive == {"compiler", "program"}

TypeOS ==
  /\ proc \in [Judges -> Alive \cup Zombies \cup {"none"}]
  /\ writers \in [Pipes -> SUBSET Holders]

InitOS ==
  /\ proc = [j \in Judges |-> "none"]
  /\ writers = [p \in Pipes |-> {}]

\* The process S no longer holds any write end.
Without(w, S) == [p \in Pipes |-> w[p] \ S]

\* fork: the child of j gets the write ends the server has open, less those it
\* closes at once.
Inherited(w, j, closed) ==
  [p \in Pipes |-> IF Server \in w[p] /\ p \notin closed THEN w[p] \cup {j} ELSE w[p]]

\* The child of j ends with the given wait status.
Exit(j, status) ==
  /\ proc' = [proc EXCEPT ![j] = status]
  /\ writers' = Without(writers, {j})

\* The child of j clones itself; the clone holds what the child holds, is no
\* child of the server and outlives its parent.
Clone(j) ==
  /\ writers' = [p \in Pipes |-> IF j \in writers[p] THEN writers[p] \cup {Left} ELSE writers[p]]
  /\ UNCHANGED proc

\* The last process left behind that holds the end closes it.
LetGo(p) ==
  /\ Left \in writers[p]
  /\ writers' = [writers EXCEPT ![p] = @ \ {Left}]
  /\ UNCHANGED proc

Closed(p) == writers[p] = {}      \* a read at the end of the pipe returns 0

\* Mutant: every waitpid waits for any child.
AwaitedAny(j, anyChild) == IF anyChild THEN Judges ELSE Judges \cup {j}

\* waitpid(pid, &status, WNOHANG).  After a failed fork pid is -1, which waits
\* for any child of the server.
Awaited(j, anyChild) == IF anyChild THEN Judges ELSE {j}
Children(S) == {k \in S : proc[k] # "none"}
Dead(S) == {k \in S : proc[k] \in Zombies}

Reap(k) == /\ proc' = [proc EXCEPT ![k] = "none"]
           /\ UNCHANGED writers

\* Those that kill(pid, SIGKILL) hits, besides the children: with pid = -1,
\* every process but the server.
Others(anyChild) == IF anyChild THEN {Left} ELSE {}

\* Mutant: the killed child is not waited for.
KillOnly(j, anyChild) ==
  LET hit == {k \in Awaited(j, anyChild) : proc[k] \in Alive}
  IN  /\ writers' = Without(writers, hit \cup Others(anyChild))
      /\ proc' = [k \in Judges |-> IF k \in hit THEN "KILL" ELSE proc[k]]

\* kill(pid, SIGKILL) and then waitpid(pid, &status, 0), which takes one of the
\* awaited children, if there is one.
KillAndReap(j, anyChild) ==
  LET S == Awaited(j, anyChild)
      hit == {k \in S : proc[k] \in Alive}
      killed == [k \in Judges |-> IF k \in hit THEN "KILL" ELSE proc[k]]
  IN  /\ writers' = Without(writers, hit \cup Others(anyChild))
      /\ \/ /\ Children(S) = {}
            /\ proc' = killed
         \/ \E k \in Children(S) : proc' = [killed EXCEPT ![k] = "none"]

=============================================================================
