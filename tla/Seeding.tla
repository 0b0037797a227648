------------------------------- MODULE Seeding -------------------------------
(***************************************************************************)
(* The start of the server: main puts the first problems into the tables,  *)
(* one statement after the other, and then listens.  Until it does nobody  *)
(* else uses the connection, so that a statement and its result are one    *)
(* step.  The process may be killed at any moment and started again: the   *)
(* tables stay, and whatever handlers had in hand is gone.                 *)
(***************************************************************************)
EXTENDS Catalogue, Sequences

\* The problems main inserts and how many test cases each gets: the code has
\* "Sum A+B" with three, "ToDelete" with none and "ToEdit" with one.
CONSTANT Seeds

ASSUME SeedingAssumption ==
  /\ Seeds \in Seq([text : SeedTexts, cases : Nat])
  /\ \A i \in DOMAIN Seeds : 0..(Seeds[i].cases - 1) \subseteq Positions

VARIABLES main,     \* the next statement of main
          seed,     \* the problem of Seeds it is at
          made,     \* pid: the id of the problem it has inserted
          given,    \* how many test cases that has got
          first     \* where this start found the AUTO_INCREMENT counter

mainVars == <<main, seed, made, given, first>>
allVars == <<vars, mainVars>>

TypeInvariant ==
  /\ TypeOK
  /\ main \in {"seek", "insert", "case", "serve"}
  /\ seed \in 1..(Len(Seeds) + 1)
  /\ made \in ProblemIds \cup {0} /\ given \in Nat
  /\ first \in 1..newProblem

Start ==
  /\ main' = "seek" /\ seed' = 1 /\ made' = 0 /\ given' = 0
  /\ first' = newProblem

InitAll ==
  /\ Init
  /\ main = "seek" /\ seed = 1 /\ made = 0 /\ given = 0 /\ first = 1

-----------------------------------------------------------------------------
\* Once the problem has n of its test cases.
AfterCases(n) ==
  IF n < Seeds[seed].cases
    THEN main' = "case" /\ given' = n /\ UNCHANGED seed
    ELSE main' = "seek" /\ given' = 0 /\ seed' = seed + 1

\* Mutant: a problem without its test cases does not count.
SeekWhole ==
  /\ up /\ main = "seek" /\ seed <= Len(Seeds)
  /\ IF \E p \in ProblemIds :
          problems[p] = Seeds[seed].text /\ Cardinality(CasesOf(p)) = Seeds[seed].cases
       THEN seed' = seed + 1 /\ UNCHANGED main
       ELSE main' = "insert" /\ UNCHANGED seed
  /\ UNCHANGED <<tables, handler, connVars, made, given, first>>

\* get_problem_by_title: what has the title is taken for seeded.
Seek ==
  /\ up /\ main = "seek" /\ seed <= Len(Seeds)
  /\ IF \E p \in ProblemIds : problems[p] = Seeds[seed].text
       THEN seed' = seed + 1 /\ UNCHANGED main
       ELSE main' = "insert" /\ UNCHANGED seed
  /\ UNCHANGED <<tables, handler, connVars, made, given, first>>

\* insert_problem, and mysql_insert_id: nobody else uses the connection yet.
InsertSeed ==
  /\ up /\ main = "insert" /\ newProblem <= MaxProblems
  /\ problems' = [problems EXCEPT ![newProblem] = Seeds[seed].text]
  /\ newProblem' = newProblem + 1
  /\ made' = newProblem
  /\ AfterCases(0)
  /\ UNCHANGED <<cases, newCase, handler, connVars, first>>

\* Mutant: every test case gets the same position.
InsertSeedCaseFlat ==
  /\ up /\ main = "case" /\ newCase <= MaxCases
  /\ cases' = [cases EXCEPT ![newCase] = [problem |-> made, position |-> 0]]
  /\ newCase' = newCase + 1
  /\ AfterCases(given + 1)
  /\ UNCHANGED <<problems, newProblem, handler, connVars, made, first>>

\* insert_test_case, with positions from 0.
InsertSeedCase ==
  /\ up /\ main = "case" /\ newCase <= MaxCases
  /\ cases' = [cases EXCEPT ![newCase] = [problem |-> made, position |-> given]]
  /\ newCase' = newCase + 1
  /\ AfterCases(given + 1)
  /\ UNCHANGED <<problems, newProblem, handler, connVars, made, first>>

Listen ==
  /\ main = "seek" /\ seed > Len(Seeds)
  /\ main' = "serve"
  /\ UNCHANGED <<vars, seed, made, given, first>>

\* The handlers run only while the server listens.
Handle == main = "serve" /\ Next /\ UNCHANGED mainVars

\* Without its connection main ends at its next statement.
LoseInStart == main # "serve" /\ LoseConnection /\ UNCHANGED mainVars

\* The process ends, and is started again.
Crash ==
  /\ Start
  /\ NewHandle(TRUE)
  /\ pc' = [w \in Workers |-> "free"] /\ sent' = [w \in Workers |-> FALSE]
  /\ req' = [w \in Workers |-> NoRequest] /\ list' = [w \in Workers |-> <<>>]
  /\ UNCHANGED tables

NextAll == Seek \/ InsertSeed \/ InsertSeedCase \/ Listen \/ Handle \/ LoseInStart \/ Crash

SpecAll == InitAll /\ [][NextAll]_allVars

-----------------------------------------------------------------------------
\* When the server begins to listen every title of main has a problem, and what
\* this start inserted has all its test cases, in their order, whatever earlier
\* starts and administrators have left in the tables (server.cc 126-144).
SeedsServed ==
  [][main # "serve" /\ main' = "serve" =>
       /\ \A i \in DOMAIN Seeds : \E p \in ProblemIds : problems[p] = Seeds[i].text
       /\ \A p \in first..(newProblem - 1) : \E i \in DOMAIN Seeds :
            /\ problems[p] = Seeds[i].text
            /\ LET s == InOrder(CasesOf(p)) IN
                 /\ Len(s) = Seeds[i].cases
                 /\ \A k \in DOMAIN s : cases[s[k]].position = k - 1]_allVars

\* However often the server is killed in its start, no seed is there twice, as
\* long as no administrator uses its title (server.cc 126-144).
SeededOnce ==
  \A t \in SeedTexts \ Texts : Cardinality({p \in ProblemIds : problems[p] = t}) <= 1

=============================================================================
