--------------------------- MODULE CatalogueProofs ---------------------------
(***************************************************************************)
(* Proofs about Seeding, with all of Catalogue, for any number of threads, *)
(* texts, positions, seeds and ids.                                        *)
(***************************************************************************)
EXTENDS Seeding, Induction, SequenceTheorems

\* The step of one handler.
Step(w) ==
  \/ Arrive(w) \/ Select(w) \/ ListProblems(w) \/ GetProblem(w) \/ GetTestCases(w)
  \/ JudgeCopy(w) \/ Write(w) \/ DropResult(w)

\* What a handler that will write has checked, or main.
Asked ==
  \A w \in Workers :
    /\ pc[w] # "free" /\ req[w].op # "dropCase" => req[w].id \in ProblemIds
    /\ pc[w] # "free" /\ req[w].op = "dropCase" => req[w].id \in CaseIds
    /\ pc[w] = "insert" => req[w].op \in {"create", "addCase"}
    /\ pc[w] = "insert" /\ req[w].op = "create" => req[w].text # NoText
    /\ pc[w] = "update" => req[w].op = "edit" /\ req[w].text # NoText
    /\ pc[w] \in {"problem", "cases"} => req[w].op # "dropCase"
    /\ req[w].op = "addCase" => req[w].position \in Positions
    /\ sent[w] => pc[w] \notin {"free", "judge"}

\* The handlers wait while main seeds, and the test cases it adds belong to the
\* problem it has inserted.
Alone == main # "serve" => \A w \in Workers : pc[w] = "free"
Seeded ==
  /\ main \in {"insert", "case"} => seed \in DOMAIN Seeds
  /\ main = "insert" => \A p \in ProblemIds : problems[p] # Seeds[seed].text
  /\ main = "case" =>
       made \in ProblemIds /\ problems[made] # NoText /\ given < Seeds[seed].cases

\* The type without the bounds on ids that RoomFor keeps.
TablesOK ==
  /\ problems \in [ProblemIds -> Texts \cup SeedTexts \cup {NoText}]
  /\ cases \in [CaseIds -> Rows \cup {NoCase}]
  /\ newProblem \in Nat \ {0} /\ newCase \in Nat \ {0}

Calls == {"free", "list", "problem", "cases", "insert", "update", "delete", "judge"}
HandlersOK ==
  /\ pc \in [Workers -> Calls] /\ sent \in [Workers -> BOOLEAN]
  /\ req \in [Workers -> Requests]
  /\ DOMAIN list = Workers

MainOK ==
  /\ main \in {"seek", "insert", "case", "serve"}
  /\ seed \in 1..(Len(Seeds) + 1)
  /\ made \in ProblemIds \cup {0} /\ given \in Nat
  /\ first \in 1..newProblem

RowsOK == TablesOK /\ HandlersOK /\ MainOK

\* Each title of main that no administrator may use has at most one problem.
TitleOnce ==
  \A p, q \in ProblemIds :
    problems[p] = problems[q] /\ problems[p] \in SeedTexts \ Texts => p = q

Sound == RowsOK /\ Asked /\ Alone /\ Seeded /\ NoOrphans /\ TitleOnce

\* A seed of main has a text, and a position for each of its cases.
LEMMA SeedFacts ==
  ASSUME NEW i \in DOMAIN Seeds
  PROVE  /\ Seeds[i].text \in SeedTexts /\ Seeds[i].text # NoText
         /\ Seeds[i].cases \in Nat
         /\ \A k \in Nat : k < Seeds[i].cases => k \in Positions
         /\ i \in 1..Len(Seeds)
<1>1. Seeds \in Seq([text : SeedTexts, cases : Nat])
  BY SeedingAssumption
<1>0. Seeds[i] \in [text : SeedTexts, cases : Nat] /\ i \in 1..Len(Seeds)
  BY <1>1, LenProperties, ElementOfSeq
<1>2. 0..(Seeds[i].cases - 1) \subseteq Positions
  BY SeedingAssumption
<1>3. Seeds[i].text \in SeedTexts /\ Seeds[i].cases \in Nat
  BY <1>0
<1>4. \A k \in Nat : k < Seeds[i].cases => k \in 0..(Seeds[i].cases - 1)
  BY <1>3
<1>5. QED
  BY <1>0, <1>2, <1>3, <1>4, CatalogueAssumption

-----------------------------------------------------------------------------
\* How a handler goes on in a step that is not the arrival of a request.
Going(w) ==
  \/ pc[w] # "judge" /\ Sent(w)
  \/ Answer(w)
  \/ pc[w] = "problem" /\ \E to \in {"cases", "delete"} : Goto(w, to) /\ UNCHANGED list
  \/ pc[w] = "cases" /\ Goto(w, "judge") /\ \E rows : list' = [list EXCEPT ![w] = rows]

LEMMA StepIs ==
  ASSUME NEW w \in Workers, Step(w), ~Arrive(w)
  PROVE  /\ pc[w] # "free" /\ Going(w)
         /\ pc[w] \in {"insert", "update"} => Sent(w) \/ Answer(w)
         /\ UNCHANGED tables \/ Write(w)
BY DEF Step, Select, ListProblems, GetProblem, GetTestCases, JudgeCopy, Write, DropResult, Going

\* The tables change by a statement that writes, of one handler.
LEMMA HandleIs ==
  ASSUME Handle
  PROVE  UNCHANGED tables \/ \E w \in Workers : Executed(w)
BY DEF Handle, Next, LoseConnection, CallsOverlap, Arrive, Select, ListProblems, GetProblem,
  GetTestCases, JudgeCopy, Write, DropResult, NotExecuted

\* The other handlers are where they were.
LEMMA Frame ==
  ASSUME HandlersOK, NEW w \in Workers, Step(w), NEW v \in Workers \ {w}
  PROVE  pc'[v] = pc[v] /\ sent'[v] = sent[v] /\ req'[v] = req[v] /\ list'[v] = list[v]
<1>1. CASE Arrive(w)
  BY <1>1 DEF Arrive, HandlersOK
<1>2. CASE Going(w)
  BY <1>2 DEF Going, Sent, Answer, Goto, HandlersOK
<1>3. QED
  BY <1>1, <1>2, StepIs

\* The handlers after a step of one of them.
LEMMA HandlersKeep ==
  ASSUME Sound, NEW w \in Workers, Step(w)
  PROVE  HandlersOK' /\ Asked'
<1>1. CASE Arrive(w)
  <2>1. CASE UNCHANGED <<pc, req>>
    BY <1>1, <2>1 DEF Arrive, Sound, RowsOK, HandlersOK, Asked
  <2>2. PICK op \in Ops, id \in 1..(MaxProblems + MaxCases), text \in Texts \cup {OddText, NoText},
             position \in Positions :
          /\ id \in (IF op = "dropCase" THEN CaseIds ELSE ProblemIds)
          /\ ~UNCHANGED <<pc, req>> =>
               /\ ~(op \in {"create", "edit", "addCase", "submit"} /\ text = NoText)
               /\ pc' = [pc EXCEPT ![w] = FirstCall(op)]
               /\ req' = [req EXCEPT ![w] =
                            [op |-> op, id |-> id, text |-> text, position |-> position]]
    BY <1>1 DEF Arrive
  <2>3. [op |-> op, id |-> id, text |-> text, position |-> position] \in Requests
    BY CatalogueAssumption DEF Requests
  <2>4. FirstCall(op) \in {"list", "problem", "cases", "insert", "update", "delete"}
        /\ (FirstCall(op) = "insert" <=> op \in {"create", "addCase"})
        /\ (FirstCall(op) = "update" <=> op = "edit")
        /\ (op = "dropCase" => FirstCall(op) = "delete")
    BY DEF FirstCall, Ops
  <2>5. CASE ~UNCHANGED <<pc, req>>
    <3>1. UNCHANGED <<sent, list>>
      BY <1>1 DEF Arrive
    <3>2. HandlersOK'
      BY <2>2, <2>3, <2>4, <2>5, <3>1 DEF Sound, RowsOK, HandlersOK, Calls
    <3>3. Asked'
      BY <2>2, <2>4, <2>5, <3>1 DEF Sound, RowsOK, HandlersOK, Asked
    <3>4. QED
      BY <3>2, <3>3
  <2>6. QED
    BY <2>1, <2>5
<1>2. CASE ~Arrive(w)
  <2>1. NoRequest \in Requests
    BY DEF NoRequest, Requests, Ops
  <2>g. Going(w)
    BY <1>2, StepIs
  <2>2. HandlersOK'
    <3>1. CASE Sent(w)
      BY <3>1 DEF Sent, Sound, RowsOK, HandlersOK
    <3>2. CASE Answer(w)
      BY <2>1, <3>2 DEF Answer, Sound, RowsOK, HandlersOK, Calls
    <3>3. ASSUME NEW to \in Calls, Goto(w, to), DOMAIN list' = DOMAIN list PROVE HandlersOK'
      BY <3>3 DEF Goto, Sound, RowsOK, HandlersOK
    <3>4. QED
      BY <2>g, <3>1, <3>2, <3>3 DEF Going, Calls
  <2>3. /\ pc[w] # "free"
        /\ \/ pc'[w] = "free" /\ req'[w] = NoRequest /\ ~sent'[w]
           \/ pc'[w] = pc[w] /\ req'[w] = req[w] /\ pc[w] # "judge"
           \/ pc'[w] \in {"cases", "delete", "judge"} /\ req'[w] = req[w] /\ ~sent'[w]
              /\ pc[w] \in {"problem", "cases"}
    BY <1>2, StepIs DEF Going, Sent, Answer, Goto, Sound, RowsOK, HandlersOK
  <2>4. ASSUME NEW v \in Workers \ {w}
        PROVE  pc'[v] = pc[v] /\ sent'[v] = sent[v] /\ req'[v] = req[v]
    BY Frame DEF Sound, RowsOK
  <2>5. Asked'
    BY <2>3, <2>4 DEF Sound, Asked, NoRequest
  <2>6. QED
    BY <2>2, <2>5
<1>3. QED
  BY <1>1, <1>2

-----------------------------------------------------------------------------
\* The tables after each statement that writes.
LEMMA InsertProblemKeeps ==
  ASSUME Sound, NEW w \in Workers, InsertProblem(w)
  PROVE  TablesOK' /\ NoOrphans' /\ TitleOnce' /\ newProblem <= newProblem'
<1>1. req[w].text \in Texts \cup {OddText} /\ req[w].op = "create"
  BY DEF InsertProblem, Sound, RowsOK, HandlersOK, Asked, Requests
<1>2. cases' = cases /\ newCase' = newCase
      /\ \/ problems' = problems /\ newProblem' = newProblem
         \/ /\ req[w].text \in Texts /\ newProblem' = newProblem + 1
            /\ problems' = [problems EXCEPT ![newProblem] = req[w].text]
  BY <1>1 DEF InsertProblem
<1>3. TablesOK' /\ newProblem <= newProblem'
  BY <1>2 DEF Sound, RowsOK, TablesOK
<1>4. NoOrphans'
  BY <1>2, CatalogueAssumption DEF Sound, RowsOK, TablesOK, NoOrphans, Rows
<1>5. TitleOnce'
  BY <1>2 DEF Sound, RowsOK, TablesOK, TitleOnce
<1>6. QED
  BY <1>3, <1>4, <1>5

LEMMA InsertTestCaseKeeps ==
  ASSUME Sound, NEW w \in Workers, InsertTestCase(w)
  PROVE  TablesOK' /\ NoOrphans' /\ TitleOnce' /\ newProblem <= newProblem'
<1>1. NewCase(w) \in Rows
  BY DEF InsertTestCase, Sound, RowsOK, HandlersOK, Asked, NewCase, Rows
<1>2. problems' = problems /\ newProblem' = newProblem /\ newCase' = newCase + 1
      /\ \/ cases' = cases
         \/ problems[req[w].id] # NoText /\ cases' = [cases EXCEPT ![newCase] = NewCase(w)]
  BY DEF InsertTestCase
<1>3. TablesOK' /\ newProblem <= newProblem'
  BY <1>1, <1>2 DEF Sound, RowsOK, TablesOK
<1>4. NoOrphans'
  BY <1>2 DEF Sound, RowsOK, TablesOK, NoOrphans, NewCase
<1>5. QED
  BY <1>2, <1>3, <1>4 DEF Sound, TitleOnce

LEMMA UpdateProblemKeeps ==
  ASSUME Sound, NEW w \in Workers, UpdateProblem(w)
  PROVE  TablesOK' /\ NoOrphans' /\ TitleOnce' /\ newProblem <= newProblem'
<1>1. req[w].text \in Texts \cup {OddText} /\ req[w].id \in ProblemIds
  BY DEF UpdateProblem, Sound, RowsOK, HandlersOK, Asked, Requests
<1>2. cases' = cases /\ newCase' = newCase /\ newProblem' = newProblem
      /\ \/ problems' = problems
         \/ /\ req[w].text \in Texts
            /\ problems' = [problems EXCEPT ![req[w].id] = req[w].text]
  BY <1>1 DEF UpdateProblem, Sound, RowsOK, TablesOK
<1>3. TablesOK' /\ newProblem <= newProblem'
  BY <1>2 DEF Sound, RowsOK, TablesOK
<1>4. NoOrphans'
  BY <1>2, CatalogueAssumption DEF Sound, RowsOK, TablesOK, NoOrphans, Rows
<1>5. TitleOnce'
  BY <1>1, <1>2 DEF Sound, RowsOK, TablesOK, TitleOnce
<1>6. QED
  BY <1>3, <1>4, <1>5

\* The two DELETEs, the first with its cascade.
LEMMA DeletesKeep ==
  ASSUME Sound, NEW w \in Workers, DeleteProblem(w) \/ DeleteTestCase(w)
  PROVE  TablesOK' /\ NoOrphans' /\ TitleOnce' /\ newProblem <= newProblem'
<1>1. newProblem' = newProblem /\ newCase' = newCase
      /\ problems' \in [ProblemIds -> Texts \cup SeedTexts \cup {NoText}]
      /\ cases' \in [CaseIds -> Rows \cup {NoCase}]
  BY DEF DeleteProblem, DeleteTestCase, Sound, RowsOK, TablesOK
<1>2. \A p \in ProblemIds : problems'[p] \in {problems[p], NoText}
  BY DEF DeleteProblem, DeleteTestCase, Sound, RowsOK, TablesOK
<1>3. \A c \in CaseIds : cases'[c] # NoCase =>
        cases'[c] = cases[c] /\ problems'[cases[c].problem] = problems[cases[c].problem]
  BY DEF DeleteProblem, DeleteTestCase, Sound, RowsOK, TablesOK, Rows
<1>4. TablesOK' /\ newProblem <= newProblem'
  BY <1>1 DEF Sound, RowsOK, TablesOK
<1>5. NoOrphans'
  BY <1>3 DEF Sound, NoOrphans
<1>6. TitleOnce'
  BY <1>2, CatalogueAssumption DEF Sound, TitleOnce
<1>7. QED
  BY <1>4, <1>5, <1>6

\* Sound is preserved: the handlers.
LEMMA HandleKeeps == ASSUME Sound, Handle PROVE Sound'
<1>1. TablesOK' /\ NoOrphans' /\ TitleOnce' /\ newProblem <= newProblem'
  <2>1. CASE UNCHANGED tables
    BY <2>1 DEF tables, Sound, RowsOK, TablesOK, NoOrphans, TitleOnce
  <2>2. QED
    BY <2>1, HandleIs, InsertProblemKeeps, InsertTestCaseKeeps, UpdateProblemKeeps, DeletesKeep
      DEF Executed
<1>2. HandlersOK' /\ Asked'
  <2>1. CASE UNCHANGED handler
    BY <2>1 DEF handler, Sound, RowsOK, HandlersOK, Asked
  <2>2. QED
    BY <2>1, HandlersKeep DEF Handle, Next, Step, LoseConnection, CallsOverlap
<1>3. MainOK' /\ Alone' /\ Seeded'
  BY <1>1 DEF Handle, mainVars, Sound, RowsOK, TablesOK, MainOK, Alone, Seeded
<1>4. QED
  BY <1>1, <1>2, <1>3 DEF Sound, RowsOK

-----------------------------------------------------------------------------
\* Sound is preserved: main looks for a seed's title.
LEMMA SeekKeeps == ASSUME Sound, Seek PROVE Sound'
<1>1. seed \in DOMAIN Seeds /\ Len(Seeds) \in Nat
  BY SeedingAssumption, LenProperties DEF Seek, Sound, RowsOK, TablesOK, HandlersOK, MainOK
<1>2. RowsOK' /\ seed' \in {seed, seed + 1} /\ main' \in {"seek", "insert"}
  BY <1>1 DEF Seek, Sound, RowsOK, TablesOK, HandlersOK, MainOK, tables, handler
<1>3. Seeded'
  BY <1>1 DEF Seek, Sound, Seeded, tables
<1>4. Asked' /\ Alone' /\ NoOrphans' /\ TitleOnce'
  BY <1>2 DEF Seek, Sound, Asked, Alone, NoOrphans, TitleOnce, tables, handler
<1>5. QED
  BY <1>2, <1>3, <1>4 DEF Sound

\* Sound is preserved: main inserts a seed's problem.
LEMMA InsertSeedKeeps == ASSUME Sound, InsertSeed PROVE Sound'
<1>1. seed \in DOMAIN Seeds /\ seed \in 1..Len(Seeds) /\ Len(Seeds) \in Nat
  BY SeedingAssumption, LenProperties, SeedFacts DEF InsertSeed, Sound, Seeded
<1>2. newProblem \in ProblemIds
  BY CatalogueAssumption DEF InsertSeed, Sound, RowsOK, TablesOK, HandlersOK, MainOK, ProblemIds
<1> DEFINE text == Seeds[seed].text
<1>3. text \in SeedTexts /\ text # NoText /\ \A p \in ProblemIds : problems[p] # text
  BY <1>1, SeedFacts DEF InsertSeed, Sound, Seeded
<1>4. problems' = [problems EXCEPT ![newProblem] = text] /\ made' = newProblem
  BY DEF InsertSeed
<1> HIDE DEF text
<1>5. main' \in {"case", "seek"} /\ given' \in Nat /\ seed' \in 1..(Len(Seeds) + 1)
      /\ (main' = "case" => seed' = seed /\ given' < Seeds[seed].cases)
  BY <1>1 DEF InsertSeed, AfterCases, Sound, RowsOK, TablesOK, HandlersOK, MainOK
<1>6. RowsOK'
  BY <1>2, <1>3, <1>4, <1>5 DEF InsertSeed, Sound, RowsOK, TablesOK, HandlersOK, MainOK, handler
<1>7. Seeded'
  BY <1>1, <1>2, <1>3, <1>4, <1>5 DEF Sound, Seeded, RowsOK, TablesOK, HandlersOK, MainOK
<1>8. TitleOnce'
  BY <1>2, <1>3, <1>4 DEF Sound, RowsOK, TablesOK, HandlersOK, MainOK, TitleOnce
<1>9. NoOrphans'
  BY <1>2, <1>3, <1>4 DEF InsertSeed, Sound, RowsOK, TablesOK, HandlersOK, MainOK, NoOrphans, Rows
<1>10. Asked' /\ Alone'
  BY <1>5 DEF InsertSeed, Sound, Asked, Alone, handler
<1>11. QED
  BY <1>6, <1>7, <1>8, <1>9, <1>10 DEF Sound

\* Sound is preserved: main inserts one of its cases.
LEMMA InsertSeedCaseKeeps == ASSUME Sound, InsertSeedCase PROVE Sound'
<1>1. seed \in DOMAIN Seeds /\ seed \in 1..Len(Seeds) /\ Len(Seeds) \in Nat
  BY SeedingAssumption, LenProperties, SeedFacts DEF InsertSeedCase, Sound, Seeded
<1>2. made \in ProblemIds /\ problems[made] # NoText /\ given \in Positions
  BY <1>1, SeedFacts DEF InsertSeedCase, Sound, RowsOK, TablesOK, HandlersOK, MainOK, Seeded
<1>3. main' \in {"case", "seek"} /\ given' \in Nat /\ seed' \in 1..(Len(Seeds) + 1)
      /\ (main' = "case" => seed' = seed /\ given' < Seeds[seed].cases)
  BY <1>1 DEF InsertSeedCase, AfterCases, Sound, RowsOK, TablesOK, HandlersOK, MainOK
<1>4. RowsOK'
  <2>1. [problem |-> made, position |-> given] \in Rows
    BY <1>2 DEF Rows
  <2>2. cases' \in [CaseIds -> Rows \cup {NoCase}]
    BY <2>1 DEF InsertSeedCase, Sound, RowsOK, TablesOK, HandlersOK, MainOK
  <2>3. QED
    BY <1>3, <2>2 DEF InsertSeedCase, Sound, RowsOK, TablesOK, HandlersOK, MainOK, handler
<1>5. Seeded'
  BY <1>1, <1>2, <1>3 DEF InsertSeedCase, Sound, Seeded
<1>6. NoOrphans'
  BY <1>2 DEF InsertSeedCase, Sound, RowsOK, TablesOK, HandlersOK, MainOK, NoOrphans
<1>7. Asked' /\ Alone' /\ TitleOnce'
  BY <1>3 DEF InsertSeedCase, Sound, Asked, Alone, TitleOnce, handler
<1>8. QED
  BY <1>4, <1>5, <1>6, <1>7 DEF Sound

\* Sound is preserved: the process is killed and started again.
LEMMA CrashKeeps == ASSUME Sound, Crash PROVE Sound'
<1>1. NoRequest \in Requests
  BY DEF NoRequest, Requests, Ops
<1>2. RowsOK'
  BY <1>1, SeedingAssumption, LenProperties DEF Crash, Start, Sound, RowsOK, TablesOK, HandlersOK,
    MainOK, Calls, tables
<1>3. QED
  BY <1>2 DEF Crash, Start, Sound, Asked, Alone, Seeded, NoOrphans, TitleOnce, tables, NoRequest

\* Sound is preserved by every step.
LEMMA SoundStep == ASSUME Sound, [NextAll]_allVars PROVE Sound'
<1>1. CASE Listen \/ LoseInStart
  BY <1>1 DEF Listen, LoseInStart, LoseConnection, Sound, RowsOK, TablesOK, HandlersOK, MainOK,
    Asked, Alone, Seeded, NoOrphans, TitleOnce, vars, tables, handler, mainVars
<1>2. CASE UNCHANGED allVars
  BY <1>2 DEF allVars, vars, mainVars, Sound, RowsOK, TablesOK, HandlersOK, MainOK, Asked, Alone,
    Seeded, NoOrphans, TitleOnce
<1>3. QED
  BY <1>1, <1>2, HandleKeeps, SeekKeeps, InsertSeedKeeps, InsertSeedCaseKeeps, CrashKeeps
    DEF NextAll

\* Sound is an invariant.
LEMMA SoundInvariant == SpecAll => []Sound
<1>1. InitAll => Sound
  <2> SUFFICES ASSUME InitAll PROVE Sound
    OBVIOUS
  <2>1. NoRequest \in Requests
    BY DEF NoRequest, Requests, Ops
  <2>2. RowsOK
    BY <2>1, SeedingAssumption, LenProperties DEF InitAll, Init, RowsOK, TablesOK, HandlersOK,
      MainOK, Calls
  <2>3. QED
    BY <2>2, CatalogueAssumption DEF InitAll, Init, Sound, Asked, Alone, Seeded, NoOrphans,
      TitleOnce, NoRequest
<1>2. Sound /\ [NextAll]_allVars => Sound'
  BY SoundStep
<1>3. QED
  BY <1>1, <1>2, PTL DEF SpecAll

\* An id that is used up, and whose row is gone, is never a row's again: no late
\* edit, late test case or new problem brings it back (server.cc 349-500).
THEOREM DeletedStays == SpecAll => StaysDeleted
<1> DEFINE Stays ==
      /\ \A p \in ProblemIds : p < newProblem /\ problems[p] = NoText => problems'[p] = NoText
      /\ \A c \in CaseIds : c < newCase /\ cases[c] = NoCase => cases'[c] = NoCase
<1>1. Sound /\ [NextAll]_allVars => [Stays]_vars
  <2> SUFFICES ASSUME Sound, [NextAll]_allVars PROVE Stays \/ UNCHANGED vars
    OBVIOUS
  <2>1. ASSUME UNCHANGED <<problems, cases>> PROVE Stays
    BY <2>1
  <2>2. ASSUME NEW w \in Workers, InsertProblem(w) PROVE Stays
    <3>1. \A p \in ProblemIds : p # newProblem => problems'[p] = problems[p]
      BY <2>2 DEF InsertProblem, Sound, RowsOK, TablesOK, HandlersOK, MainOK
    <3>2. cases' = cases
      BY <2>2 DEF InsertProblem
    <3>3. QED
      BY <3>1, <3>2 DEF Sound, RowsOK, TablesOK, HandlersOK, MainOK, ProblemIds
  <2>3. ASSUME InsertSeedCase \/ \E w \in Workers : InsertTestCase(w) PROVE Stays
    <3>1. \A c \in CaseIds : c # newCase => cases'[c] = cases[c]
      BY <2>3 DEF InsertTestCase, InsertSeedCase, Sound, RowsOK, TablesOK, HandlersOK, MainOK
    <3>2. problems' = problems
      BY <2>3 DEF InsertTestCase, InsertSeedCase
    <3>3. QED
      BY <3>1, <3>2 DEF Sound, RowsOK, TablesOK, HandlersOK, MainOK, CaseIds
  <2>4. ASSUME NEW w \in Workers, UpdateProblem(w) PROVE Stays
    BY <2>4 DEF UpdateProblem, Sound, RowsOK, TablesOK, HandlersOK, MainOK
  <2>5. ASSUME NEW w \in Workers, DeleteProblem(w) \/ DeleteTestCase(w) PROVE Stays
    BY <2>5 DEF DeleteProblem, DeleteTestCase, Sound, RowsOK, TablesOK, HandlersOK, MainOK
  <2>6. CASE InsertSeed
    <3>1. \A p \in ProblemIds : p # newProblem => problems'[p] = problems[p]
      BY <2>6 DEF InsertSeed, Sound, RowsOK, TablesOK, HandlersOK, MainOK
    <3>2. cases' = cases
      BY <2>6 DEF InsertSeed
    <3>3. QED
      BY <3>1, <3>2 DEF Sound, RowsOK, TablesOK, HandlersOK, MainOK, ProblemIds
  <2>7. ASSUME Handle PROVE Stays
    BY <2>1, <2>2, <2>3, <2>4, <2>5, <2>7, HandleIs DEF Executed, tables
  <2>8. QED
    <3>1. Seek \/ Listen \/ LoseInStart \/ Crash \/ UNCHANGED allVars =>
            UNCHANGED <<problems, cases>>
      BY DEF Seek, Listen, LoseInStart, LoseConnection, Crash, tables, vars, allVars
    <3>2. QED
      BY <2>1, <2>3, <2>6, <2>7, <3>1 DEF NextAll
<1>2. QED
  BY <1>1, SoundInvariant, PTL DEF SpecAll, StaysDeleted

\* However handlers that add, edit and delete interleave, and whenever the process is
\* killed, no test case is left without its problem (server.cc 423-481).
THEOREM NoneOrphaned == SpecAll => []NoOrphans
<1>1. Sound => NoOrphans
  BY DEF Sound
<1>2. QED
  BY <1>1, SoundInvariant, PTL

\* A title that only main uses is never there twice, however often the server is
\* killed in its start (server.cc 126-144).
THEOREM SeededOnceHolds == SpecAll => []SeededOnce
<1>1. ASSUME Sound PROVE SeededOnce
  <2> SUFFICES ASSUME NEW t \in SeedTexts \ Texts
               PROVE  Cardinality({p \in ProblemIds : problems[p] = t}) <= 1
    BY DEF SeededOnce
  <2> DEFINE P == {p \in ProblemIds : problems[p] = t}
  <2>1. CASE P = {}
    BY <2>1, FS_EmptySet
  <2>2. ASSUME NEW p \in P PROVE Cardinality(P) <= 1
    <3>1. \A q \in P : q = p
      BY <1>1 DEF Sound, TitleOnce
    <3>2. P = {p}
      BY <3>1
    <3> HIDE DEF P
    <3>3. Cardinality(P) = 1
      BY <3>2, FS_Singleton, Zenon
    <3>4. QED
      BY <3>3
  <2>3. QED
    BY <2>1, <2>2
<1>2. QED
  BY <1>1, SoundInvariant, PTL


-----------------------------------------------------------------------------
\* The handlers that are about to insert leave each other, and main, the ids they
\* need below the bounds.
Bounded ==
  /\ newProblem + Inserting("create") <= MaxProblems + 1
  /\ newCase + Inserting("addCase") <= MaxCases + 1

IsInserting(w, op) == pc[w] = "insert" /\ ~sent[w] /\ req[w].op = op

\* The number of inserting handlers is one, and 0 when there are none.
LEMMA InsertingIsCount ==
  ASSUME NEW op
  PROVE  Inserting(op) \in Nat /\ ((\A w \in Workers : ~IsInserting(w, op)) => Inserting(op) = 0)
<1> DEFINE W == {w \in Workers : IsInserting(w, op)}
<1>1. IsFiniteSet(W)
  BY CatalogueAssumption, FS_Subset
<1>2. Inserting(op) = Cardinality(W)
  BY DEF Inserting, IsInserting
<1>3. Cardinality(W) \in Nat /\ (W = {} => Cardinality(W) = 0)
  BY <1>1, FS_CardinalityType, FS_EmptySet
<1>4. QED
  BY <1>2, <1>3

\* One handler's step changes a count by one at most.
LEMMA CountStep ==
  ASSUME NEW w \in Workers, NEW op,
         \A v \in Workers \ {w} : pc'[v] = pc[v] /\ sent'[v] = sent[v] /\ req'[v] = req[v]
  PROVE  /\ IsInserting(w, op) /\ ~IsInserting(w, op)' => Inserting(op)' = Inserting(op) - 1
         /\ ~IsInserting(w, op) /\ IsInserting(w, op)' => Inserting(op)' = Inserting(op) + 1
         /\ (IsInserting(w, op) <=> IsInserting(w, op)') => Inserting(op)' = Inserting(op)
<1> DEFINE W == {v \in Workers : IsInserting(v, op)}
           X == {v \in Workers : IsInserting(v, op)'}
<1>1. IsFiniteSet(W)
  BY CatalogueAssumption, FS_Subset
<1>2. Inserting(op) = Cardinality(W) /\ Inserting(op)' = Cardinality(X)
  BY DEF Inserting, IsInserting
<1>3. \A v \in Workers \ {w} : IsInserting(v, op)' <=> IsInserting(v, op)
  BY DEF IsInserting
<1>4. CASE IsInserting(w, op) /\ ~IsInserting(w, op)'
  <2>1. X = W \ {w} /\ w \in W
    BY <1>3, <1>4
  <2> HIDE DEF W, X
  <2>2. QED
    BY <1>1, <1>2, <1>4, <2>1, FS_RemoveElement
<1>5. CASE ~IsInserting(w, op) /\ IsInserting(w, op)'
  <2>1. X = W \cup {w} /\ w \notin W
    BY <1>3, <1>5
  <2> HIDE DEF W, X
  <2>2. QED
    BY <1>1, <1>2, <1>5, <2>1, FS_AddElement
<1>6. CASE IsInserting(w, op) <=> IsInserting(w, op)'
  <2>1. X = W
    BY <1>3, <1>6
  <2>2. QED
    BY <1>2, <1>6, <2>1
<1>7. QED
  BY <1>4, <1>5, <1>6

\* What a step of a handler, after its request has arrived, does to the counters: it
\* gives out an id only to itself, and does not ask for one again.
LEMMA GivesOut ==
  ASSUME Sound, NEW w \in Workers, Step(w), ~Arrive(w), NEW op \in {"create", "addCase"}
  PROVE  /\ ~IsInserting(w, op)'
         /\ newProblem' \in {newProblem, newProblem + 1} /\ newCase' \in {newCase, newCase + 1}
         /\ newProblem' # newProblem => IsInserting(w, "create")
         /\ newCase' # newCase => IsInserting(w, "addCase")
<1>1. CASE UNCHANGED tables /\ ~Write(w)
  <2>1. UNCHANGED <<newProblem, newCase>>
    BY <1>1 DEF tables
  <2>2. pc'[w] # "insert"
    <3>1. CASE Sent(w)
      <4>1. pc[w] \in {"list", "problem", "cases"} /\ pc'[w] = pc[w]
        BY <1>1, <3>1 DEF Step, Arrive, Select, ListProblems, GetProblem, GetTestCases, JudgeCopy,
          DropResult, Sent, Answer, Goto, Sound, RowsOK, HandlersOK
      <4>2. QED
        BY <4>1
    <3>2. CASE ~Sent(w)
      BY <3>2, StepIs DEF Going, Answer, Goto, Sound, RowsOK, HandlersOK
    <3>3. QED
      BY <3>1, <3>2
  <2>3. QED
    BY <2>1, <2>2 DEF IsInserting
<1>2. CASE Write(w)
  <2>1. pc[w] \in {"insert", "update", "delete"} /\ ~sent[w] /\ (Sent(w) \/ Answer(w))
        /\ (Executed(w) \/ NotExecuted)
    BY <1>2 DEF Write
  <2>2. ~IsInserting(w, op)'
    BY <2>1 DEF Sent, Answer, IsInserting, Sound, RowsOK, HandlersOK
  <2>3. CASE NotExecuted
    BY <2>2, <2>3 DEF NotExecuted, tables
  <2>4. CASE Executed(w)
    BY <2>1, <2>2, <2>4 DEF Executed, InsertProblem, InsertTestCase, UpdateProblem,
      DeleteProblem, DeleteTestCase, IsInserting
  <2>5. QED
    BY <2>1, <2>3, <2>4
<1>3. QED
  BY <1>1, <1>2, StepIs

\* The counters leave room for the handlers about to insert.
LEMMA BoundedInvariant == SpecAll => []Bounded
<1> USE CatalogueAssumption
<1>1. InitAll => Bounded
  <2> SUFFICES ASSUME InitAll PROVE Bounded
    OBVIOUS
  <2>1. Inserting("create") = 0 /\ Inserting("addCase") = 0
    BY InsertingIsCount DEF InitAll, Init, IsInserting
  <2>2. QED
    BY <2>1 DEF InitAll, Init, Bounded
<1>2. Sound /\ Bounded /\ [NextAll]_allVars => Bounded'
  <2> SUFFICES ASSUME Sound, Bounded, [NextAll]_allVars PROVE Bounded'
    OBVIOUS
  <2> USE DEF Bounded
  <2>1. Inserting("create") \in Nat /\ Inserting("addCase") \in Nat
        /\ newProblem \in Nat /\ newCase \in Nat
    BY InsertingIsCount DEF Sound, RowsOK, TablesOK
  <2>2. ASSUME NEW w \in Workers, Step(w)
        PROVE  \A v \in Workers \ {w} : pc'[v] = pc[v] /\ sent'[v] = sent[v] /\ req'[v] = req[v]
    BY <2>2, Frame DEF Sound, RowsOK
  <2>3. ASSUME NEW w \in Workers, Arrive(w) PROVE Bounded'
    <3>1. newProblem' = newProblem /\ newCase' = newCase /\ pc[w] = "free"
      BY <2>3 DEF Arrive, tables
    <3>2. /\ IsInserting(w, "create")' =>
               newProblem + Inserting("create") <= MaxProblems /\ ~IsInserting(w, "addCase")'
          /\ IsInserting(w, "addCase")' =>
               newCase + Inserting("addCase") <= MaxCases /\ ~IsInserting(w, "create")'
      BY <2>3, <3>1 DEF Arrive, RoomFor, IsInserting, Sound, RowsOK, HandlersOK
    <3>3. ~IsInserting(w, "create") /\ ~IsInserting(w, "addCase")
      BY <3>1 DEF IsInserting
    <3>4. QED
      BY <2>1, <2>2, <2>3, <3>1, <3>2, <3>3, CountStep DEF Step
  <2>4. ASSUME NEW w \in Workers, Step(w), ~Arrive(w) PROVE Bounded'
    <3>1. /\ ~IsInserting(w, "create")' /\ ~IsInserting(w, "addCase")'
          /\ newProblem' \in {newProblem, newProblem + 1} /\ newCase' \in {newCase, newCase + 1}
          /\ newProblem' # newProblem => IsInserting(w, "create")
          /\ newCase' # newCase => IsInserting(w, "addCase")
      BY <2>4, GivesOut
    <3>2. /\ IsInserting(w, "create") => Inserting("create")' = Inserting("create") - 1
          /\ IsInserting(w, "addCase") => Inserting("addCase")' = Inserting("addCase") - 1
          /\ ~IsInserting(w, "create") => Inserting("create")' = Inserting("create")
          /\ ~IsInserting(w, "addCase") => Inserting("addCase")' = Inserting("addCase")
      BY <2>2, <2>4, <3>1, CountStep
    <3>3. QED
      BY <2>1, <3>1, <3>2
  <2>5. CASE InsertSeed \/ InsertSeedCase \/ Crash
    <3>1. \A w \in Workers : pc'[w] = "free"
      BY <2>5 DEF InsertSeed, InsertSeedCase, Crash, handler, Sound, Alone
    <3>2. Inserting("create")' = 0 /\ Inserting("addCase")' = 0
      <4>1. \A op : {w \in Workers : pc'[w] = "insert" /\ ~sent'[w] /\ req'[w].op = op} = {}
        BY <3>1
      <4>2. QED
        BY <4>1, FS_EmptySet DEF Inserting
    <3>3. /\ newProblem' = newProblem \/ (newProblem' = newProblem + 1 /\ newProblem <= MaxProblems)
          /\ newCase' = newCase \/ (newCase' = newCase + 1 /\ newCase <= MaxCases)
      BY <2>5 DEF InsertSeed, InsertSeedCase, Crash, tables
    <3>4. QED
      BY <2>1, <3>2, <3>3
  <2>6. CASE LoseConnection \/ CallsOverlap \/ Seek \/ Listen \/ UNCHANGED allVars
    <3>1. UNCHANGED <<newProblem, newCase, pc, sent, req>>
      BY <2>6 DEF LoseConnection, CallsOverlap, Seek, Listen, allVars, vars, tables, handler
    <3>2. QED
      BY <3>1 DEF Inserting
  <2>7. QED
    BY <2>3, <2>4, <2>5, <2>6 DEF NextAll, Handle, LoseInStart, Next, Step
<1>3. QED
  BY <1>1, <1>2, SoundInvariant, PTL DEF SpecAll

-----------------------------------------------------------------------------
\* A row has an id that was given out.
Used ==
  /\ \A p \in ProblemIds : problems[p] # NoText => p < newProblem
  /\ \A c \in CaseIds : cases[c] # NoCase => c < newCase

\* A step keeps a row or deletes it, and rows it makes have new ids.
RowsLast ==
  /\ newProblem <= newProblem' /\ newCase <= newCase'
  /\ \A c \in CaseIds : c < newCase => cases'[c] \in {cases[c], NoCase}

\* Ids that are in use are below the counters: preserved by every step.
LEMMA UsedStep == ASSUME Sound, Used, [NextAll]_allVars PROVE Used' /\ RowsLast
<1>t. /\ problems \in [ProblemIds -> Texts \cup SeedTexts \cup {NoText}]
      /\ cases \in [CaseIds -> Rows \cup {NoCase}]
      /\ newProblem \in Nat /\ newCase \in Nat
      /\ ProblemIds \subseteq Nat /\ CaseIds \subseteq Nat
  BY CatalogueAssumption DEF Sound, RowsOK, TablesOK, ProblemIds, CaseIds
<1> USE DEF Used, RowsLast
<1>1. ASSUME UNCHANGED tables PROVE Used' /\ RowsLast
  BY <1>1, <1>t DEF tables
<1>2. ASSUME UNCHANGED <<cases, newCase>>, newProblem' = newProblem + 1,
             \A p \in ProblemIds : p # newProblem => problems'[p] = problems[p]
      PROVE  Used' /\ RowsLast
  BY <1>2, <1>t
<1>3. ASSUME UNCHANGED <<problems, newProblem>>, newCase' = newCase + 1,
             \A c \in CaseIds : c # newCase => cases'[c] = cases[c]
      PROVE  Used' /\ RowsLast
  BY <1>3, <1>t
<1>4. ASSUME NEW w \in Workers, InsertProblem(w) PROVE Used' /\ RowsLast
  BY <1>1, <1>2, <1>4, <1>t DEF InsertProblem, tables
<1>5. ASSUME NEW w \in Workers, InsertTestCase(w) PROVE Used' /\ RowsLast
  BY <1>3, <1>5, <1>t DEF InsertTestCase
<1>6. ASSUME NEW w \in Workers, UpdateProblem(w) PROVE Used' /\ RowsLast
  <2>1. UNCHANGED <<cases, newCase, newProblem>>
    BY <1>6 DEF UpdateProblem
  <2>2. \A p \in ProblemIds : problems'[p] # NoText => problems[p] # NoText
    BY <1>6, <1>t DEF UpdateProblem
  <2>3. QED BY <1>t, <2>1, <2>2
<1>7. ASSUME NEW w \in Workers, DeleteProblem(w) \/ DeleteTestCase(w) PROVE Used' /\ RowsLast
  <2>1. UNCHANGED <<newCase, newProblem>>
    BY <1>7 DEF DeleteProblem, DeleteTestCase
  <2>2. \A p \in ProblemIds : problems'[p] \in {problems[p], NoText}
    BY <1>7, <1>t DEF DeleteProblem, DeleteTestCase
  <2>3. \A c \in CaseIds : cases'[c] \in {cases[c], NoCase}
    BY <1>7, <1>t DEF DeleteProblem, DeleteTestCase
  <2>4. QED BY <1>t, <2>1, <2>2, <2>3
<1>8. CASE InsertSeed
  BY <1>2, <1>8, <1>t DEF InsertSeed
<1>9. CASE InsertSeedCase
  BY <1>3, <1>9, <1>t DEF InsertSeedCase
<1>10. CASE Handle
  BY <1>1, <1>4, <1>5, <1>6, <1>7, <1>10, HandleIs DEF Executed
<1>11. CASE Seek \/ Listen \/ LoseInStart \/ Crash \/ UNCHANGED allVars
  BY <1>1, <1>11 DEF Seek, Listen, LoseInStart, LoseConnection, Crash, allVars, vars, tables
<1>12. QED
  BY <1>8, <1>9, <1>10, <1>11 DEF NextAll

\* Ids that are in use are below the counters.
LEMMA UsedInvariant == SpecAll => []Used
<1>1. InitAll => Used
  BY DEF InitAll, Init, Used
<1>2. Sound /\ Used /\ [NextAll]_allVars => Used'
  BY UsedStep
<1>3. QED BY <1>1, <1>2, SoundInvariant, PTL DEF SpecAll

-----------------------------------------------------------------------------
\* What ORDER BY position, id returns.  Two rows are never equal in that order.
Positioned(C) == C \in SUBSET CaseIds /\ \A c \in C : cases[c].position \in Int

Ordered(s, C) ==
  /\ s \in [1..Cardinality(C) -> C]
  /\ \A i, j \in 1..Cardinality(C) : i < j => Before(s[i], s[j])

\* Sets of ids of cases are finite.
LEMMA CaseIdsFinite ==
  ASSUME NEW C \in SUBSET CaseIds
  PROVE  IsFiniteSet(C) /\ Cardinality(C) \in Nat /\ (Cardinality(C) = 0 <=> C = {})
<1>1. IsFiniteSet(CaseIds)
  BY CatalogueAssumption, FS_Interval DEF CaseIds
<1>2. QED BY <1>1, FS_Subset, FS_CardinalityType, FS_EmptySet

\* Some test cases, if any, have a last one.
LEMMA LastCaseExists ==
  ASSUME NEW C, Positioned(C), C # {}
  PROVE  \E m \in C : \A c \in C \ {m} : Before(c, m)
<1> DEFINE T == {n \in Nat : \A D \in SUBSET CaseIds :
                   Positioned(D) /\ Cardinality(D) = n + 1 =>
                     \E m \in D : \A c \in D \ {m} : Before(c, m)}
<1>1. 0 \in T
  <2>1. SUFFICES ASSUME NEW D \in SUBSET CaseIds, Cardinality(D) = 1
                 PROVE  \E m \in D : \A c \in D \ {m} : Before(c, m)
    OBVIOUS
  <2>2. PICK m : D = {m}
    BY <2>1, CaseIdsFinite, FS_Singleton
  <2>3. QED BY <2>2
<1>2. ASSUME NEW n \in T PROVE n + 1 \in T
  <2>1. SUFFICES ASSUME NEW D \in SUBSET CaseIds, Positioned(D), Cardinality(D) = n + 2
                 PROVE  \E m \in D : \A c \in D \ {m} : Before(c, m)
    OBVIOUS
  <2>2. PICK x : x \in D
    BY <2>1, CaseIdsFinite
  <2>3. Cardinality(D \ {x}) = n + 1
    BY <2>1, <2>2, CaseIdsFinite, FS_RemoveElement
  <2>4. Positioned(D \ {x})
    BY <2>1 DEF Positioned
  <2>5. PICK m \in D \ {x} : \A c \in (D \ {x}) \ {m} : Before(c, m)
    BY <1>2, <2>3, <2>4
  <2>6. \A c \in D : c \in Nat /\ cases[c].position \in Int
    BY <2>1, CatalogueAssumption DEF Positioned, CaseIds
  <2>7. CASE Before(x, m)
    BY <2>5, <2>7
  <2>8. CASE ~Before(x, m)
    <3>1. Before(m, x)
      BY <2>2, <2>5, <2>6, <2>8 DEF Before
    <3>2. \A c \in (D \ {x}) \ {m} : Before(c, x)
      BY <2>2, <2>5, <2>6, <3>1 DEF Before
    <3>3. QED BY <2>2, <3>1, <3>2
  <2>9. QED BY <2>7, <2>8
<1> HIDE DEF T
<1>3. T = Nat
  BY <1>1, <1>2, AllNat DEF T
<1>4. Cardinality(C) \in Nat /\ Cardinality(C) # 0
  BY CaseIdsFinite DEF Positioned
<1>5. Cardinality(C) - 1 \in T
  BY <1>3, <1>4
<1>6. QED BY <1>4, <1>5 DEF T, Positioned

\* So they can be listed in order, each once.
LEMMA OrderedExists == ASSUME NEW C, Positioned(C) PROVE \E s : Ordered(s, C)
<1> DEFINE T == {n \in Nat : \A D \in SUBSET CaseIds :
                   Positioned(D) /\ Cardinality(D) = n => \E s : Ordered(s, D)}
<1>1. 0 \in T
  <2>1. SUFFICES ASSUME NEW D \in SUBSET CaseIds, Cardinality(D) = 0 PROVE \E s : Ordered(s, D)
    OBVIOUS
  <2>2. Ordered([i \in 1..0 |-> i], D)
    BY <2>1 DEF Ordered
  <2>3. QED BY <2>2
<1>2. ASSUME NEW n \in T PROVE n + 1 \in T
  <2>1. SUFFICES ASSUME NEW D \in SUBSET CaseIds, Positioned(D), Cardinality(D) = n + 1
                 PROVE  \E s : Ordered(s, D)
    OBVIOUS
  <2>2. PICK m \in D : \A c \in D \ {m} : Before(c, m)
    <3>1. D # {}
      BY <2>1, CaseIdsFinite
    <3>2. QED BY <2>1, <3>1, LastCaseExists
  <2>3. Cardinality(D \ {m}) = n
    BY <2>1, <2>2, CaseIdsFinite, FS_RemoveElement
  <2>4. Positioned(D \ {m})
    BY <2>1 DEF Positioned
  <2>5. PICK s : Ordered(s, D \ {m})
    BY <1>2, <2>3, <2>4
  <2> DEFINE t == [i \in 1..(n + 1) |-> IF i = n + 1 THEN m ELSE s[i]]
  <2>n. n \in Nat
    BY <1>2
  <2>s. s \in [1..n -> D \ {m}]
    BY <2>3, <2>5 DEF Ordered
  <2>6. \A i \in 1..n : t[i] = s[i] /\ s[i] \in D \ {m}
    <3>1. SUFFICES ASSUME NEW i \in 1..n PROVE t[i] = s[i] /\ s[i] \in D \ {m}
      OBVIOUS
    <3>2. i # n + 1 /\ i \in 1..(n + 1)
      BY <2>n
    <3>3. QED BY <2>s, <3>2
  <2>7. t \in [1..(n + 1) -> D] /\ t[n + 1] = m
    BY <2>2, <2>6
  <2>8. \A i, j \in 1..(n + 1) : i < j => Before(t[i], t[j])
    <3>1. SUFFICES ASSUME NEW i \in 1..(n + 1), NEW j \in 1..(n + 1), i < j
                   PROVE  Before(t[i], t[j])
      OBVIOUS
    <3>2. i \in 1..n
      BY <3>1
    <3>3. CASE j = n + 1
      BY <2>2, <2>6, <2>7, <3>2, <3>3
    <3>4. CASE j # n + 1
      <4>1. j \in 1..n
        BY <3>4
      <4>2. QED BY <2>3, <2>5, <2>6, <3>1, <3>2, <4>1 DEF Ordered
    <3>5. QED BY <3>3, <3>4
  <2>9. Ordered(t, D)
    BY <2>1, <2>7, <2>8 DEF Ordered
  <2>10. QED BY <2>9
<1> HIDE DEF T
<1>3. T = Nat
  BY <1>1, <1>2, AllNat DEF T
<1>4. Cardinality(C) \in T
  BY <1>3, CaseIdsFinite DEF Positioned
<1>5. QED BY <1>4 DEF T, Positioned

\* ORDER BY returns every row of a set once, in order: such a list exists.
LEMMA InOrderLists == ASSUME NEW C, Positioned(C) PROVE Ordered(InOrder(C), C)
<1>1. PICK s : Ordered(s, C)
  BY OrderedExists
<1>2. /\ s \in [1..Cardinality(C) -> C]
      /\ \A i, j \in DOMAIN s : i < j => Before(s[i], s[j])
  BY <1>1 DEF Ordered
<1>3. /\ InOrder(C) \in [1..Cardinality(C) -> C]
      /\ \A i, j \in DOMAIN InOrder(C) : i < j => Before(InOrder(C)[i], InOrder(C)[j])
  BY <1>2 DEF InOrder
<1>4. QED BY <1>3 DEF Ordered

\* The cases of a problem are rows with a position.
LEMMA ProblemCases ==
  ASSUME Sound, NEW p \in ProblemIds PROVE Positioned(CasesOf(p))
<1>1. SUFFICES ASSUME NEW c \in CaseIds PROVE cases[c].position \in Int
  BY DEF Positioned, CasesOf
<1>2. cases[c] \in Rows \cup {NoCase}
  BY DEF Sound, RowsOK, TablesOK
<1>3. CASE cases[c] = NoCase
  BY <1>3 DEF NoCase
<1>4. CASE cases[c] \in Rows
  <2>1. cases[c].position \in Positions
    BY <1>4 DEF Rows
  <2>2. QED BY <2>1, CatalogueAssumption
<1>5. QED BY <1>2, <1>3, <1>4

-----------------------------------------------------------------------------
\* A list of test cases of a problem, each once; rows may have gone since it was
\* read, but none comes back or changes, so it is in order as far as they are there.
GoodList(s, id, rows, next) ==
  /\ \E n \in Nat \ {0} : s \in [1..n -> CaseIds]
  /\ \A i \in DOMAIN s : s[i] < next /\ (rows[s[i]] = NoCase \/ rows[s[i]].problem = id)
  /\ \A i, j \in DOMAIN s : i < j =>
       /\ s[i] # s[j]
       /\ rows[s[i]] # NoCase /\ rows[s[j]] # NoCase =>
            \/ rows[s[i]].position < rows[s[j]].position
            \/ rows[s[i]].position = rows[s[j]].position /\ s[i] < s[j]

\* The handlers whose SELECT has been sent.
Reading(w) == sent[w] /\ pc[w] \in {"list", "problem", "cases"}

\* As long as no calls have overlapped: the result that waits is one that its reader
\* has asked for and not taken...
Awaited ==
  waiting # Nothing =>
    /\ ~shaken /\ waiting.of \in Workers /\ Reading(waiting.of)
    /\ pc[waiting.of] = "cases" =>
         waiting.row = NoRow \/ GoodList(waiting.row, req[waiting.of].id, cases, newCase)
\* ... of two readers at most one still has its own to take...
Mine == ~shaken => \A w \in Workers : Reading(w) /\ w \notin lost => waiting.of = w
\* ... and who has taken its own judges on it.
Listed(w) ==
  ~shaken /\ w \notin lost /\ pc[w] = "judge" => GoodList(list[w], req[w].id, cases, newCase)

ConnOK == ConnTypeOK(Results) /\ list \in [Workers -> Lists \cup {<<>>}]
ListInv == ConnOK /\ Awaited /\ Mine /\ \A w \in Workers : Listed(w)

\* What a SELECT of test cases returns.
LEMMA FreshList ==
  ASSUME Sound, Used, NEW id \in ProblemIds, CasesOf(id) # {}
  PROVE  LET s == InOrder(CasesOf(id)) IN s \in Lists /\ GoodList(s, id, cases, newCase)
<1> DEFINE C == CasesOf(id)
           n == Cardinality(C)
           s == InOrder(C)
<1>t. CaseIds \subseteq Nat /\ newCase \in Nat
  BY CatalogueAssumption DEF Sound, RowsOK, TablesOK, CaseIds
<1>1. Positioned(C) /\ n \in Nat \ {0}
  BY ProblemCases, CaseIdsFinite DEF Positioned
<1>2. Ordered(s, C)
  BY <1>1, InOrderLists
<1>3. /\ s \in [1..n -> C] /\ s \in [1..n -> CaseIds] /\ DOMAIN s = 1..n
      /\ \A i, j \in 1..n : i < j => Before(s[i], s[j])
  BY <1>1, <1>2 DEF Ordered, Positioned
<1>4. \A c \in C : c < newCase /\ cases[c].problem = id
  BY CatalogueAssumption DEF CasesOf, Used, NoCase, ProblemIds
<1>5. \A c, d \in C : Before(c, d) => c # d
  <2>1. SUFFICES ASSUME NEW c \in C PROVE ~Before(c, c)
    OBVIOUS
  <2>2. c \in Nat /\ cases[c].position \in Int
    BY <1>1, <1>t DEF Positioned
  <2>3. QED BY <2>2 DEF Before
<1>6. n \in 1..MaxCases
  <2>1. IsFiniteSet(CaseIds) /\ Cardinality(CaseIds) = MaxCases
    BY CatalogueAssumption, FS_Interval DEF CaseIds
  <2>2. n <= MaxCases
    BY <1>1, <2>1, FS_Subset DEF Positioned
  <2>3. QED BY <1>1, <2>2, CatalogueAssumption
<1> HIDE DEF s, n, C
<1>7. s \in Lists
  BY <1>3, <1>6 DEF Lists
<1>8. GoodList(s, id, cases, newCase)
  BY <1>1, <1>3, <1>4, <1>5 DEF GoodList, Before
<1>9. QED BY <1>7, <1>8 DEF s, C

\* What every SELECT returns.
LEMMA SelectedIs ==
  ASSUME Sound, Used, NEW w \in Workers, pc[w] \in {"list", "problem", "cases"}
  PROVE  /\ Selected(w) \in Results
         /\ pc[w] = "cases" =>
              Selected(w) = NoRow \/ GoodList(Selected(w), req[w].id, cases, newCase)
<1>1. CASE pc[w] = "cases"
  <2>1. req[w].id \in ProblemIds
    BY <1>1 DEF Sound, Asked
  <2>2. Selected(w) = IF CasesOf(req[w].id) # {} THEN InOrder(CasesOf(req[w].id)) ELSE NoRow
    BY <1>1 DEF Selected
  <2>3. QED BY <2>1, <2>2, FreshList DEF Results
<1>2. CASE pc[w] # "cases"
  BY <1>2 DEF Selected, Results
<1>3. QED BY <1>1, <1>2

\* What mysql_store_result returns.
LEMMA ReturnedIs ==
  ASSUME Sound, Used, ConnOK, NEW rows \in Returned
  PROVE  rows \in Results /\ (~shaken => rows = IF up THEN waiting.row ELSE NoRow)
<1>1. CASE shaken
  <2>1. rows \in {OtherRow, NoRow}
          \/ \E p \in ProblemIds : CasesOf(p) # {} /\ rows = InOrder(CasesOf(p))
    BY <1>1 DEF Returned, Stored
  <2>2. QED BY <1>1, <2>1, FreshList DEF Results
<1>2. CASE ~shaken
  BY <1>2 DEF Returned, Stored, ConnOK, ConnTypeOK, Nothing, Results
<1>3. QED BY <1>1, <1>2 DEF ConnOK, ConnTypeOK

\* A good list stays good.
LEMMA GoodStays ==
  ASSUME Sound, Used, [NextAll]_allVars, NEW s, NEW id, GoodList(s, id, cases, newCase)
  PROVE  GoodList(s, id, cases', newCase')
<1>1. RowsLast /\ newCase \in Nat /\ newCase' \in Nat /\ CaseIds \subseteq Nat
  <2>1. Sound'
    BY SoundStep
  <2>2. QED BY <2>1, UsedStep, CatalogueAssumption DEF Sound, RowsOK, TablesOK, CaseIds
<1>2. \A i \in DOMAIN s :
        s[i] \in CaseIds /\ s[i] < newCase' /\ cases'[s[i]] \in {cases[s[i]], NoCase}
  <2>1. SUFFICES ASSUME NEW i \in DOMAIN s
                 PROVE  /\ s[i] \in CaseIds /\ s[i] < newCase'
                        /\ cases'[s[i]] \in {cases[s[i]], NoCase}
    OBVIOUS
  <2>2. s[i] \in CaseIds /\ s[i] < newCase
    BY DEF GoodList
  <2>3. newCase <= newCase' /\ cases'[s[i]] \in {cases[s[i]], NoCase}
    BY <1>1, <2>2 DEF RowsLast
  <2>4. s[i] \in Nat
    BY <1>1, <2>2
  <2>5. s[i] < newCase'
    BY <1>1, <2>2, <2>3, <2>4
  <2>6. QED BY <2>2, <2>3, <2>5
<1>3. QED BY <1>2 DEF GoodList

-----------------------------------------------------------------------------
\* ListInv is preserved where no result is asked for or taken.
LEMMA ListKeepsStill ==
  ASSUME Sound, Used, ListInv, [NextAll]_allVars,
         UNCHANGED <<handler, waiting, lost, shaken>>, up' \in BOOLEAN
  PROVE  ListInv'
<1>1. ConnOK' /\ Mine'
  BY DEF handler, ListInv, ConnOK, ConnTypeOK, Mine, Reading
<1>2. Awaited'
  BY GoodStays DEF handler, ListInv, Awaited, Reading
<1>3. \A w \in Workers : Listed(w)'
  BY GoodStays DEF handler, ListInv, Listed
<1>4. QED BY <1>1, <1>2, <1>3 DEF ListInv

\* What the step of one handler leaves to be shown: the types, and its own result.
LEMMA ListKeeps ==
  ASSUME Sound, Used, ListInv, [NextAll]_allVars, NEW w \in Workers, Step(w),
         ConnOK', shaken' = shaken, lost \ {w} \subseteq lost',
         \/ waiting' = waiting /\ ~Reading(w) /\ ~Reading(w)'
         \/ waiting' = Nothing /\ ~Reading(w)' /\
              (~shaken => \A v \in Workers : Reading(v) /\ v \notin lost' => v = w)
         \/ /\ waiting = Nothing /\ waiting' = [of |-> w, row |-> Selected(w)] /\ ~shaken
            /\ Reading(w)' /\ pc'[w] = pc[w] /\ req'[w] = req[w] /\ UNCHANGED tables,
         Listed(w)'
  PROVE  ListInv'
<1>1. ASSUME NEW v \in Workers \ {w}
      PROVE  pc'[v] = pc[v] /\ sent'[v] = sent[v] /\ req'[v] = req[v] /\ list'[v] = list[v]
  BY Frame DEF Sound, RowsOK
<1>2. ASSUME NEW v \in Workers \ {w} PROVE Reading(v)' <=> Reading(v)
  BY <1>1 DEF Reading
<1>3. ASSUME NEW v \in Workers PROVE Listed(v)'
  <2>1. CASE v = w
    BY <2>1
  <2>2. CASE v # w
    <3>1. Listed(v)
      BY DEF ListInv
    <3>2. QED BY <1>1, <2>2, <3>1, GoodStays DEF Listed
  <2>3. QED BY <2>1, <2>2
<1>4. Nothing.of \notin Workers
  BY CatalogueAssumption DEF Nothing
<1>5. CASE waiting' = waiting /\ ~Reading(w) /\ ~Reading(w)'
  <2>1. Awaited'
    BY <1>1, <1>2, <1>5, GoodStays DEF ListInv, Awaited
  <2>2. Mine'
    BY <1>2, <1>5 DEF ListInv, Mine
  <2>3. QED BY <1>3, <2>1, <2>2 DEF ListInv
<1>6. CASE waiting' = Nothing /\ ~Reading(w)' /\
             (~shaken => \A v \in Workers : Reading(v) /\ v \notin lost' => v = w)
  BY <1>2, <1>3, <1>6 DEF ListInv, Awaited, Mine
<1>7. CASE /\ waiting = Nothing /\ waiting' = [of |-> w, row |-> Selected(w)] /\ ~shaken
           /\ Reading(w)' /\ pc'[w] = pc[w] /\ req'[w] = req[w] /\ UNCHANGED tables
  <2>1. Awaited'
    BY <1>7, SelectedIs DEF Awaited, Reading, tables
  <2>2. Mine'
    BY <1>2, <1>4, <1>7 DEF ListInv, Mine
  <2>3. QED BY <1>3, <2>1, <2>2 DEF ListInv
<1>8. QED BY <1>5, <1>6, <1>7

\* ListInv is preserved: a request arrives.
LEMMA ArriveKeepsList ==
  ASSUME Sound, Used, ListInv, [NextAll]_allVars, NEW w \in Workers, Arrive(w)
  PROVE  ListInv'
<1>1. pc[w] = "free" /\ ~sent[w] /\ sent' = sent /\ pc'[w] # "judge"
  <2>1. \A op \in Ops : FirstCall(op) # "judge"
    BY DEF FirstCall, Ops
  <2>2. QED BY <2>1 DEF Arrive, Sound, RowsOK, HandlersOK, Asked
<1>2. ~Reading(w) /\ ~Reading(w)' /\ Listed(w)'
  BY <1>1 DEF Reading, Listed
<1>3. lost' = lost \ {w} /\ UNCHANGED <<list, up, waiting, shaken>>
  BY DEF Arrive
<1>4. ConnOK'
  BY <1>3 DEF ListInv, ConnOK, ConnTypeOK
<1>5. QED BY <1>2, <1>3, <1>4, ListKeeps DEF Step

\* ListInv is preserved: mysql_query of a SELECT.
LEMMA SelectKeepsList ==
  ASSUME Sound, Used, ListInv, [NextAll]_allVars, NEW w \in Workers, Select(w)
  PROVE  ListInv'
<1>1. CASE Answer(w) /\ (SendFails \/ SendBreaks)
  <2>1. ~Reading(w) /\ ~Reading(w)' /\ Listed(w)'
    BY <1>1 DEF Select, Answer, Reading, Listed, Sound, RowsOK, HandlersOK
  <2>2. up' \in BOOLEAN /\ UNCHANGED <<waiting, lost, shaken>>
    BY <1>1 DEF SendFails, SendBreaks, connVars, ListInv, ConnOK, ConnTypeOK
  <2>3. ConnOK'
    BY <1>1, <2>2 DEF Answer, ListInv, ConnOK, ConnTypeOK
  <2>4. QED BY <2>1, <2>2, <2>3, ListKeeps DEF Step
<1>2. CASE Sent(w) /\ SendSelect(w, Selected(w))
  <2>1. /\ pc[w] \in {"list", "problem", "cases"} /\ ~Reading(w) /\ Reading(w)'
        /\ UNCHANGED <<pc, req, list, tables>> /\ Listed(w)'
    BY <1>2 DEF Select, Sent, Reading, Listed, Sound, RowsOK, HandlersOK
  <2>2. /\ waiting = Nothing /\ UNCHANGED <<up, lost, shaken>>
        /\ waiting' = IF shaken THEN Nothing ELSE [of |-> w, row |-> Selected(w)]
    BY <1>2 DEF SendSelect, CanSend, Ready
  <2>3. ConnOK'
    BY <2>1, <2>2, SelectedIs DEF ListInv, ConnOK, ConnTypeOK
  <2>4. CASE ~shaken
    BY <2>1, <2>2, <2>3, <2>4, ListKeeps DEF Step
  <2>5. CASE shaken
    <3>1. Mine' /\ Awaited' /\ \A v \in Workers : Listed(v)'
      BY <2>2, <2>5 DEF Mine, Awaited, Listed
    <3>2. QED BY <2>3, <3>1 DEF ListInv
  <2>6. QED BY <2>4, <2>5
<1>3. QED BY <1>1, <1>2 DEF Select

\* ListInv is preserved: mysql_store_result.
LEMMA StoreKeepsList ==
  ASSUME Sound, Used, ListInv, [NextAll]_allVars, NEW w \in Workers,
         ListProblems(w) \/ GetProblem(w) \/ GetTestCases(w) \/ DropResult(w)
  PROVE  ListInv'
<1>1. /\ sent[w] /\ ~sent'[w] /\ StoreResult(w) /\ UNCHANGED tables
      /\ \/ list'[w] \in {list[w], <<>>} /\ pc'[w] # "judge"
         \/ pc[w] = "cases" /\ req'[w] = req[w] /\ list'[w] \in Returned \ {OtherRow, NoRow}
  BY DEF ListProblems, GetProblem, GetTestCases, DropResult, Answer, Goto, Sound, RowsOK,
    HandlersOK
<1>2. /\ waiting' = Nothing /\ UNCHANGED <<up, shaken>>
      /\ lost' = IF waiting = Nothing \/ (up /\ waiting.of = w) THEN lost
                 ELSE lost \cup {waiting.of}
  BY <1>1 DEF StoreResult, Ready
<1>3. ConnOK'
  <2>1. list'[w] \in Lists \cup {<<>>}
    BY <1>1, ReturnedIs DEF ListInv, ConnOK, Results
  <2>2. DOMAIN list' = Workers /\ \A v \in Workers \ {w} : list'[v] = list[v]
    BY Frame, HandlersKeep DEF Step, Sound, RowsOK, HandlersOK
  <2>f. \A v \in Workers : list'[v] \in Lists \cup {<<>>}
    BY <2>1, <2>2 DEF ListInv, ConnOK
  <2>3. list' \in [Workers -> Lists \cup {<<>>}]
    <3>1. list' = [v \in Workers |-> list'[v]]
      BY <2>2 DEF ListProblems, GetProblem, GetTestCases, DropResult, Answer, Goto, ListInv, ConnOK
    <3>2. QED BY <2>f, <3>1
  <2>4. QED BY <1>2, <2>3 DEF ListInv, ConnOK, ConnTypeOK
<1>4. ~shaken => \A v \in Workers : Reading(v) /\ v \notin lost' => v = w
  BY <1>2, CatalogueAssumption DEF ListInv, Mine, Nothing
<1>5. Listed(w)'
  <2>1. SUFFICES ASSUME ~shaken, w \notin lost', pc'[w] = "judge"
                 PROVE  GoodList(list'[w], req'[w].id, cases', newCase')
    BY <1>2 DEF Listed
  <2>2. /\ Reading(w) /\ pc[w] = "cases" /\ req'[w] = req[w]
        /\ list'[w] \in Returned \ {OtherRow, NoRow}
    BY <1>1, <2>1 DEF Reading
  <2>3. waiting.of = w /\ waiting # Nothing
    BY <1>2, <2>1, <2>2, CatalogueAssumption DEF ListInv, Mine, Nothing
  <2>4. list'[w] = waiting.row /\ waiting.row # NoRow
    BY <2>1, <2>2, ReturnedIs DEF ListInv
  <2>5. QED BY <1>1, <2>2, <2>3, <2>4 DEF ListInv, Awaited, tables
<1>6. ~Reading(w)' /\ lost \ {w} \subseteq lost'
  BY <1>1, <1>2 DEF Reading
<1>7. QED BY <1>2, <1>3, <1>4, <1>5, <1>6, ListKeeps DEF Step

\* ListInv is preserved: judging ends, or mysql_query of a statement that writes.
LEMMA OthersKeepList ==
  ASSUME Sound, Used, ListInv, [NextAll]_allVars, NEW w \in Workers, JudgeCopy(w) \/ Write(w)
  PROVE  ListInv'
<1>1. pc[w] \notin {"list", "problem", "cases"} /\ (Answer(w) \/ (Sent(w) /\ pc[w] # "judge"))
      /\ up' \in {up, FALSE} /\ UNCHANGED <<waiting, lost, shaken>>
  BY DEF JudgeCopy, Write, SendWrite, SendFails, SendBreaks, connVars
<1>2. ~Reading(w) /\ ~Reading(w)' /\ Listed(w)' /\ ConnOK'
  <2>1. CASE Answer(w)
    BY <1>1, <2>1 DEF Answer, Reading, Listed, Sound, RowsOK, HandlersOK, ListInv, ConnOK,
      ConnTypeOK
  <2>2. CASE Sent(w) /\ pc[w] # "judge"
    BY <1>1, <2>2 DEF Sent, Reading, Listed, ListInv, ConnOK, ConnTypeOK
  <2>3. QED BY <1>1, <2>1, <2>2
<1>3. QED BY <1>1, <1>2, ListKeeps DEF Step

\* Results are taken by who has asked for them, or their loss is known: preserved by
\* every step.
LEMMA ListStep == ASSUME Sound, Used, ListInv, [NextAll]_allVars PROVE ListInv'
<1>1. CASE LoseConnection \/ Seek \/ InsertSeed \/ InsertSeedCase \/ Listen \/ UNCHANGED allVars
  <2>1. UNCHANGED <<handler, waiting, lost, shaken>> /\ up' \in {up, FALSE}
    BY <1>1 DEF LoseConnection, Drop, Seek, InsertSeed, InsertSeedCase, Listen, allVars, vars,
      handler, connVars
  <2>2. QED BY <2>1, ListKeepsStill DEF ListInv, ConnOK, ConnTypeOK
<1>2. CASE CallsOverlap
  BY <1>2 DEF CallsOverlap, Overlap, handler, ListInv, ConnOK, ConnTypeOK, Awaited, Mine, Listed
<1>3. CASE Crash
  BY <1>3 DEF Crash, NewHandle, ListInv, ConnOK, ConnTypeOK, Awaited, Mine, Listed, Reading
<1>4. ASSUME NEW w \in Workers, Step(w) PROVE ListInv'
  BY <1>4, ArriveKeepsList, SelectKeepsList, StoreKeepsList, OthersKeepList DEF Step
<1>5. QED
  BY <1>1, <1>2, <1>3, <1>4 DEF NextAll, Handle, LoseInStart, Next, Step

\* So it is an invariant.
LEMMA ListInvariant == SpecAll => []ListInv
<1>1. InitAll => ListInv
  BY DEF InitAll, Init, ConnInit, ListInv, ConnOK, ConnTypeOK, Awaited, Mine, Listed, Reading
<1>2. Sound /\ Used /\ ListInv /\ [NextAll]_allVars => ListInv'
  BY ListStep
<1>3. QED BY <1>1, <1>2, SoundInvariant, UsedInvariant, PTL DEF SpecAll

\* Every variable of Seeding, Catalogue and Connection keeps its type, and the
\* counters of ids their bounds (db.cc 27-37, 83-151, server.cc 126-144).
THEOREM TypeCorrect == SpecAll => []TypeInvariant
<1>1. ASSUME Sound, Bounded, ListInv PROVE TypeInvariant
  <2>1. Inserting("create") \in Nat /\ Inserting("addCase") \in Nat
    BY InsertingIsCount
  <2>2. newProblem \in 1..(MaxProblems + 1) /\ newCase \in 1..(MaxCases + 1)
    BY <1>1, <2>1, CatalogueAssumption DEF Bounded, Sound, RowsOK, TablesOK
  <2>3. TypeOK
    BY <1>1, <2>2 DEF Sound, RowsOK, TablesOK, HandlersOK, Calls, ListInv, ConnOK, TypeOK
  <2>4. QED
    BY <1>1, <2>3 DEF Sound, RowsOK, MainOK, TypeInvariant
<1>2. QED
  BY <1>1, SoundInvariant, BoundedInvariant, ListInvariant, PTL

\* As long as no two calls on the connection overlap in time, a submission whose
\* result no other call has taken is judged on the test cases of its problem, each
\* once and in the order of their positions, however the calls of handlers that read,
\* add, edit and delete interleave with its own, and whenever the connection or the
\* process ends (server.cc 286-299, db.cc 30-37, 120-139).
THEOREM JudgedInTheirOrder == SpecAll => []JudgedInOrder
<1>1. ListInv => JudgedInOrder
  <2>1. SUFFICES ASSUME NEW w \in Workers, Listed(w), ~shaken, w \notin lost, pc[w] = "judge"
                 PROVE  /\ list[w] # <<>>
                        /\ \A i \in DOMAIN list[w] : LET c == list[w][i] IN
                             cases[c] = NoCase \/ cases[c].problem = req[w].id
                        /\ \A i, j \in DOMAIN list[w] : i < j =>
                             LET c == list[w][i]
                                 d == list[w][j] IN
                               /\ c # d
                               /\ cases[c] # NoCase /\ cases[d] # NoCase => Before(c, d)
    BY DEF ListInv, JudgedInOrder
  <2>2. GoodList(list[w], req[w].id, cases, newCase)
    BY <2>1 DEF Listed
  <2>3. list[w] # <<>>
    <3>1. PICK n \in Nat \ {0} : list[w] \in [1..n -> CaseIds]
      BY <2>2 DEF GoodList
    <3>2. 1 \in DOMAIN list[w]
      BY <3>1
    <3>3. QED BY <3>2
  <2>4. QED BY <2>2, <2>3 DEF GoodList, Before
<1>2. QED BY <1>1, ListInvariant, PTL

-----------------------------------------------------------------------------
\* The problem p has n test cases, at the positions from 0 on.
Numbered(p, n) ==
  /\ \A c \in CasesOf(p) : cases[c].position \in 0..(n - 1)
  /\ \A k \in 0..(n - 1) : \E c \in CasesOf(p) : cases[c].position = k
  /\ \A c, d \in CasesOf(p) : cases[c].position = cases[d].position => c = d

\* What main has done when it is at a seed: every one before it is there, and what
\* this start has inserted is whole, but for the problem it is at.
Whole(p) == \E i \in DOMAIN Seeds : problems[p] = Seeds[i].text /\ Numbered(p, Seeds[i].cases)
SeedInv ==
  main # "serve" =>
    /\ \A i \in DOMAIN Seeds : i < seed => \E p \in ProblemIds : problems[p] = Seeds[i].text
    /\ \A p \in first..(newProblem - 1) : p \in ProblemIds
    /\ \A p \in first..(newProblem - 1) : (main = "case" /\ p = made) \/ Whole(p)
    /\ main = "case" => problems[made] = Seeds[seed].text /\ Numbered(made, given)

\* A list in order of positions that are those from 0 to n - 1 has the k-th at k - 1.
LEMMA StrictlyUp ==
  ASSUME NEW n \in Nat, NEW f \in [1..n -> 0..(n - 1)],
         \A i, j \in 1..n : i < j => f[i] < f[j]
  PROVE  \A k \in 1..n : f[k] = k - 1
<1>1. \A k \in 1..n : k - 1 <= f[k]
  <2> DEFINE T == {k \in Nat : k + 1 \in 1..n => k <= f[k + 1]}
  <2>1. 0 \in T
    OBVIOUS
  <2>2. ASSUME NEW k \in T PROVE k + 1 \in T
    <3>1. SUFFICES ASSUME k + 2 \in 1..n PROVE k + 1 <= f[k + 2]
      BY <2>2
    <3>2. k \in Nat /\ k + 1 \in 1..n /\ k <= f[k + 1]
      BY <2>2, <3>1
    <3>3. f[k + 1] < f[k + 2] /\ f[k + 1] \in Int /\ f[k + 2] \in Int
      BY <3>1, <3>2
    <3>4. QED BY <3>2, <3>3
  <2> HIDE DEF T
  <2>3. T = Nat
    BY <2>1, <2>2, AllNat DEF T
  <2>4. SUFFICES ASSUME NEW k \in 1..n PROVE k - 1 <= f[k]
    OBVIOUS
  <2>5. k - 1 \in T /\ (k - 1) + 1 = k
    BY <2>3
  <2>6. QED BY <2>5 DEF T
<1>2. \A k \in 1..n : f[k] <= k - 1
  <2> DEFINE T == {k \in Nat : n - k \in 1..n => f[n - k] <= n - k - 1}
  <2>1. 0 \in T
    OBVIOUS
  <2>2. ASSUME NEW k \in T PROVE k + 1 \in T
    <3>1. SUFFICES ASSUME n - (k + 1) \in 1..n PROVE f[n - (k + 1)] <= n - (k + 1) - 1
      BY <2>2
    <3>2. k \in Nat /\ n - k \in 1..n /\ f[n - k] <= n - k - 1
      BY <2>2, <3>1
    <3>3. /\ f[n - (k + 1)] < f[n - k]
          /\ f[n - (k + 1)] \in Int /\ f[n - k] \in Int
      BY <3>1, <3>2
    <3>4. QED BY <3>2, <3>3
  <2> HIDE DEF T
  <2>3. T = Nat
    BY <2>1, <2>2, AllNat DEF T
  <2>4. SUFFICES ASSUME NEW k \in 1..n PROVE f[k] <= k - 1
    OBVIOUS
  <2>5. n - k \in T /\ n - (n - k) = k
    BY <2>3
  <2>6. QED BY <2>5 DEF T
<1>3. \A k \in 1..n : f[k] \in Int
  OBVIOUS
<1>4. QED BY <1>1, <1>2, <1>3

\* So the test cases of such a problem are read at their places.
LEMMA ReadInPlace ==
  ASSUME Sound, NEW p \in ProblemIds, NEW n \in Nat, Numbered(p, n)
  PROVE  LET s == InOrder(CasesOf(p)) IN
           Len(s) = n /\ \A k \in DOMAIN s : cases[s[k]].position = k - 1
<1> DEFINE C == CasesOf(p)
           s == InOrder(C)
           g == [c \in C |-> cases[c].position]
<1>1. Positioned(C)
  BY ProblemCases
<1>2. \A c \in C : cases[c].position \in 0..(n - 1)
  BY DEF Numbered
<1>3. g \in [C -> 0..(n - 1)]
  BY <1>2
<1>4. g \in Injection(C, 0..(n - 1)) /\ g \in Surjection(C, 0..(n - 1))
  BY <1>3 DEF Numbered, Injection, IsInjective, Surjection
<1>5. Cardinality(C) = n
  <2>1. Cardinality(C) = Cardinality(0..(n - 1)) /\ Cardinality(0..(n - 1)) = n
    <3>1. IsFiniteSet(0..(n - 1)) /\ Cardinality(0..(n - 1)) = n
      BY FS_Interval
    <3>2. QED BY <1>4, <3>1, FS_Injection
  <2>2. QED BY <2>1
<1>6. Ordered(s, C)
  BY <1>1, InOrderLists
<1>7. s \in [1..n -> C] /\ \A i, j \in 1..n : i < j => Before(s[i], s[j])
  BY <1>5, <1>6 DEF Ordered
<1>8. Len(s) = n
  BY <1>7, LenProperties, SeqDef
<1> DEFINE f == [i \in 1..n |-> cases[s[i]].position]
<1>9. f \in [1..n -> 0..(n - 1)]
  BY <1>2, <1>7
<1>10. \A i, j \in 1..n : i < j => f[i] < f[j]
  <2>1. SUFFICES ASSUME NEW i \in 1..n, NEW j \in 1..n, i < j PROVE f[i] < f[j]
    OBVIOUS
  <2>2. s[i] \in C /\ s[j] \in C /\ Before(s[i], s[j])
    BY <1>7, <2>1
  <2>3. s[i] \in Nat
    BY <1>1, <2>2, CatalogueAssumption DEF Positioned, CaseIds
  <2>4. cases[s[i]].position = cases[s[j]].position => s[i] = s[j]
    BY <2>2 DEF Numbered
  <2>5. QED BY <2>2, <2>3, <2>4 DEF Before
<1> HIDE DEF s, C
<1>11. \A k \in 1..n : f[k] = k - 1
  <2> HIDE DEF f
  <2>1. QED BY <1>9, <1>10, StrictlyUp
<1>12. \A k \in DOMAIN s : cases[s[k]].position = k - 1
  BY <1>7, <1>11
<1>13. QED BY <1>8, <1>12 DEF s, C

-----------------------------------------------------------------------------
\* Between two inserts, and over a search, what is whole stays so.
LEMMA SeekNumbers == ASSUME Sound, SeedInv, Seek PROVE SeedInv'
<1>1. UNCHANGED <<problems, cases, newProblem, first>> /\ main = "seek" /\ main' # "case"
  BY DEF Seek, tables
<1>2. \A p : Whole(p)' <=> Whole(p)
  BY <1>1 DEF Whole, Numbered, CasesOf
<1>3. \A i \in DOMAIN Seeds : i < seed' => \E p \in ProblemIds : problems'[p] = Seeds[i].text
  <2>1. SUFFICES ASSUME NEW i \in DOMAIN Seeds, i < seed', ~(i < seed)
                 PROVE  \E p \in ProblemIds : problems[p] = Seeds[i].text
    BY <1>1 DEF SeedInv
  <2>2. i \in Nat /\ seed \in Nat
    BY SeedFacts, SeedingAssumption, LenProperties DEF Sound, RowsOK, TablesOK, MainOK
  <2>3. seed' \in {seed, seed + 1} /\ (seed' = seed + 1 =>
          \E p \in ProblemIds : problems[p] = Seeds[seed].text)
    BY <2>2 DEF Seek
  <2>4. i = seed /\ seed' # seed
    BY <2>1, <2>2, <2>3
  <2>5. QED BY <2>3, <2>4
<1>4. QED BY <1>1, <1>2, <1>3 DEF SeedInv

\* A new problem has no test cases yet, and nobody's change.
LEMMA InsertSeedNumbers == ASSUME Sound, Used, SeedInv, InsertSeed PROVE SeedInv'
<1>t. /\ newProblem \in ProblemIds /\ newProblem \in Nat /\ first \in 1..newProblem
      /\ seed \in DOMAIN Seeds /\ seed \in Nat /\ \A p \in ProblemIds : p \in Nat
      /\ problems \in [ProblemIds -> Texts \cup SeedTexts \cup {NoText}]
      /\ cases \in [CaseIds -> Rows \cup {NoCase}]
  BY CatalogueAssumption, SeedingAssumption, LenProperties
    DEF InsertSeed, Sound, RowsOK, TablesOK, MainOK, Seeded, ProblemIds
<1>q. PICK q \in ProblemIds : q = newProblem
  BY <1>t
<1>s. Seeds[seed].cases \in Nat /\ Seeds[seed].text # NoText /\ DOMAIN Seeds \subseteq Nat
  BY <1>t, SeedFacts
<1>1. /\ problems' = [problems EXCEPT ![newProblem] = Seeds[seed].text]
      /\ newProblem' = newProblem + 1 /\ made' = newProblem
      /\ UNCHANGED <<cases, first>> /\ main = "insert"
  BY DEF InsertSeed
<1>2. /\ problems'[newProblem] = Seeds[seed].text
      /\ \A p \in ProblemIds : p # newProblem => problems'[p] = problems[p]
  BY <1>1, <1>t
<1>3. \/ main' = "case" /\ given' = 0 /\ seed' = seed
      \/ main' = "seek" /\ seed' = seed + 1 /\ Seeds[seed].cases = 0
  BY <1>s DEF InsertSeed, AfterCases
<1>4. CasesOf(newProblem) = {}
  <2>1. SUFFICES ASSUME NEW c \in CaseIds, cases[c].problem = newProblem PROVE FALSE
    BY DEF CasesOf
  <2>2. cases[c] # NoCase
    BY <1>t, <2>1 DEF NoCase, ProblemIds
  <2>3. problems[newProblem] # NoText
    BY <2>1, <2>2 DEF Sound, NoOrphans
  <2>4. QED BY <1>t, <2>3 DEF Used
<1>5. \A p, n : Numbered(p, n)' <=> Numbered(p, n)
  BY <1>1 DEF Numbered, CasesOf
<1>6. Numbered(newProblem, 0)
  BY <1>4 DEF Numbered
<1>7. \A p \in ProblemIds : p # newProblem /\ Whole(p) => Whole(p)'
  BY <1>2, <1>5 DEF Whole
<1>8. main' = "seek" => Whole(q)'
  BY <1>2, <1>3, <1>5, <1>6, <1>q, <1>t DEF Whole
<1>9. \A i \in DOMAIN Seeds : i < seed' => \E p \in ProblemIds : problems'[p] = Seeds[i].text
  <2>1. SUFFICES ASSUME NEW i \in DOMAIN Seeds, i < seed'
                 PROVE  \E p \in ProblemIds : problems'[p] = Seeds[i].text
    OBVIOUS
  <2>2. CASE i = seed
    BY <1>2, <1>t, <2>2
  <2>3. CASE i # seed
    <3>1. i < seed
      BY <1>3, <1>s, <1>t, <2>1, <2>3
    <3>2. PICK p \in ProblemIds : problems[p] = Seeds[i].text
      BY <1>1, <3>1 DEF SeedInv
    <3>3. p # newProblem
      BY <1>t, <3>2, SeedFacts DEF Used
    <3>4. QED BY <1>2, <3>2, <3>3
  <2>4. QED BY <2>2, <2>3
<1>10. \A p \in first..(newProblem' - 1) : p \in ProblemIds /\ (p = q \/ Whole(p)')
  <2>1. SUFFICES ASSUME NEW p \in first..(newProblem' - 1), p # q
                 PROVE  p \in ProblemIds /\ Whole(p)'
    BY <1>q
  <2>2. p \in first..(newProblem - 1)
    BY <1>1, <1>q, <1>t, <2>1
  <2>3. p \in ProblemIds /\ Whole(p)
    BY <1>1, <2>2 DEF SeedInv
  <2>4. QED BY <1>7, <1>q, <2>1, <2>3
<1>11. main' = "case" =>
         /\ problems'[made'] = Seeds[seed'].text
         /\ Numbered(q, 0)' /\ given' = 0 /\ made' = q
  BY <1>1, <1>2, <1>3, <1>5, <1>6, <1>q
<1>12. first' = first
  BY <1>1
<1>13. main' = "case" => Numbered(made, given)'
  BY <1>11 DEF Numbered
<1>14. \A p \in first'..(newProblem' - 1) : (main' = "case" /\ p = made') \/ Whole(p)'
  BY <1>3, <1>8, <1>10, <1>11, <1>12
<1>15. QED
  BY <1>9, <1>10, <1>11, <1>12, <1>13, <1>14 DEF SeedInv

\* A test case more: it is the only one of the problem at its position.
LEMMA InsertSeedCaseNumbers == ASSUME Sound, Used, SeedInv, InsertSeedCase PROVE SeedInv'
<1>t. /\ newCase \in CaseIds /\ newCase \in Nat /\ given \in Nat /\ seed \in DOMAIN Seeds
      /\ seed \in Nat /\ made \in ProblemIds /\ made # 0
      /\ cases \in [CaseIds -> Rows \cup {NoCase}]
      /\ Seeds[seed].cases \in Nat /\ given < Seeds[seed].cases
  BY SMTT(30), CatalogueAssumption, SeedingAssumption, LenProperties, SeedFacts
    DEF InsertSeedCase, Sound, RowsOK, TablesOK, MainOK, Seeded, CaseIds, ProblemIds
<1>1. /\ cases' = [cases EXCEPT ![newCase] = [problem |-> made, position |-> given]]
      /\ UNCHANGED <<problems, newProblem, first, made>> /\ main = "case"
  BY DEF InsertSeedCase
<1>2. \/ main' = "case" /\ given' = given + 1 /\ seed' = seed
      \/ main' = "seek" /\ seed' = seed + 1 /\ Seeds[seed].cases = given + 1
  BY <1>t DEF InsertSeedCase, AfterCases
<1>3. cases[newCase] = NoCase
  BY <1>t DEF Used
<1>4. /\ cases'[newCase] = [problem |-> made, position |-> given]
      /\ \A c \in CaseIds : c # newCase => cases'[c] = cases[c]
  BY <1>1, <1>t
<1>5. \A p \in ProblemIds : newCase \notin CasesOf(p)
  BY <1>3, CatalogueAssumption DEF CasesOf, NoCase, ProblemIds
<1>6. /\ CasesOf(made)' = CasesOf(made) \cup {newCase}
      /\ \A p \in ProblemIds \ {made} : CasesOf(p)' = CasesOf(p)
  <2>1. \A p \in ProblemIds : CasesOf(p)' = {c \in CaseIds : cases'[c].problem = p}
    BY DEF CasesOf
  <2>2. CasesOf(made)' = {c \in CaseIds : cases'[c].problem = made}
    BY <1>1 DEF CasesOf
  <2>3. cases'[newCase].problem = made
    BY <1>4
  <2>4. CasesOf(made)' = CasesOf(made) \cup {newCase}
    BY <1>4, <1>t, <2>2, <2>3 DEF CasesOf
  <2>5. ASSUME NEW p \in ProblemIds \ {made} PROVE CasesOf(p)' = CasesOf(p)
    BY <1>4, <1>5, <2>1, <2>3 DEF CasesOf
  <2>6. QED BY <2>4, <2>5
<1>7. \A p \in ProblemIds : \A c \in CasesOf(p) : cases'[c] = cases[c]
  BY <1>4, <1>5 DEF CasesOf
<1>8. ASSUME NEW p \in ProblemIds \ {made}, NEW n, Numbered(p, n) PROVE Numbered(p, n)'
  <2>1. CasesOf(p)' = CasesOf(p) /\ \A c \in CasesOf(p) : cases'[c] = cases[c]
    BY <1>6, <1>7
  <2>2. QED BY <1>8, <2>1 DEF Numbered
<1>9. Numbered(made, given) /\ problems[made] = Seeds[seed].text
  BY <1>1 DEF SeedInv
<1> DEFINE C == CasesOf(made)
<1>10. /\ \A c \in C \cup {newCase} : cases'[c].position \in 0..((given + 1) - 1)
       /\ \A k \in 0..((given + 1) - 1) : \E c \in C \cup {newCase} : cases'[c].position = k
       /\ \A c, d \in C \cup {newCase} : cases'[c].position = cases'[d].position => c = d
  <2>1. /\ \A c \in C : cases'[c].position \in 0..(given - 1) /\ cases'[c].position # given
        /\ cases'[newCase].position = given
    BY <1>4, <1>7, <1>9, <1>t DEF Numbered
  <2>2. \A k \in 0..(given - 1) : \E c \in C : cases'[c].position = k
    BY <1>7, <1>9, <1>t DEF Numbered
  <2>3. \A c, d \in C : cases'[c].position = cases'[d].position => c = d
    BY <1>7, <1>9, <1>t DEF Numbered
  <2> HIDE DEF C
  <2>4. \A c \in C \cup {newCase} : cases'[c].position \in 0..((given + 1) - 1)
    BY <1>t, <2>1
  <2>5. \A k \in 0..((given + 1) - 1) : k = given \/ k \in 0..(given - 1)
    BY <1>t
  <2>6. QED BY <2>1, <2>2, <2>3, <2>4, <2>5
<1>11. \A n : n = given + 1 => Numbered(made, n)'
  <2>1. CasesOf(made)' = C \cup {newCase} /\ made' = made
    BY <1>1, <1>6
  <2> HIDE DEF C
  <2>2. QED BY <1>10, <2>1 DEF Numbered
<1>12. \A i \in DOMAIN Seeds : i < seed' => \E p \in ProblemIds : problems'[p] = Seeds[i].text
  <2>1. SUFFICES ASSUME NEW i \in DOMAIN Seeds, i < seed', ~(i < seed)
                 PROVE  problems[made] = Seeds[i].text
    BY <1>1, <1>t DEF SeedInv
  <2>2. i \in Nat
    BY SeedFacts
  <2>3. i = seed
    BY <1>2, <1>t, <2>1, <2>2
  <2>4. QED BY <1>9, <2>3
<1>13. \A p \in first..(newProblem - 1) : p # made => Whole(p)'
  <2>1. SUFFICES ASSUME NEW p \in first..(newProblem - 1), p # made PROVE Whole(p)'
    OBVIOUS
  <2>2. p \in ProblemIds /\ Whole(p)
    BY <1>1, <2>1 DEF SeedInv
  <2>3. QED BY <1>1, <1>8, <2>1, <2>2 DEF Whole
<1>14. main' = "seek" => Whole(made)'
  <2>1. SUFFICES ASSUME main' = "seek" PROVE \E i \in DOMAIN Seeds :
                   problems'[made'] = Seeds[i].text /\ Numbered(made, Seeds[i].cases)'
    BY DEF Whole
  <2>2. Seeds[seed].cases = given + 1
    BY <1>2, <2>1
  <2>3. PICK i \in DOMAIN Seeds : i = seed
    BY <1>t
  <2>4. Numbered(made, Seeds[i].cases)'
    BY <1>11, <2>2, <2>3
  <2>5. QED BY <1>1, <1>9, <2>3, <2>4
<1>15. main' = "case" => problems'[made'] = Seeds[seed'].text /\ Numbered(made, given)'
  BY <1>1, <1>2, <1>9, <1>11
<1>16. QED
  BY <1>1, <1>2, <1>12, <1>13, <1>14, <1>15 DEF SeedInv

\* What this start of main has inserted is whole: preserved by every step.
LEMMA SeedStep == ASSUME Sound, Used, SeedInv, [NextAll]_allVars PROVE SeedInv'
<1>1. CASE Listen \/ Handle
  BY <1>1 DEF Listen, Handle, mainVars, SeedInv
<1>l. CASE LoseInStart
  BY <1>l DEF LoseInStart, LoseConnection, tables, mainVars, SeedInv, Whole, Numbered, CasesOf
<1>2. CASE Crash
  <2>1. /\ main' = "seek" /\ seed' = 1 /\ first' = newProblem' /\ newProblem' \in Nat
    BY <1>2 DEF Crash, Start, tables, Sound, RowsOK, TablesOK, MainOK
  <2>2. \A i \in DOMAIN Seeds : ~(i < 1)
    BY SeedFacts, LenProperties
  <2>3. \A p \in first'..(newProblem' - 1) : FALSE
    <3>1. \A n \in Nat : \A p \in n..(n - 1) : FALSE
      OBVIOUS
    <3>2. QED BY <2>1, <3>1
  <2>4. QED BY <2>1, <2>2, <2>3 DEF SeedInv
<1>3. CASE UNCHANGED allVars
  BY <1>3 DEF allVars, vars, mainVars, SeedInv, Whole, Numbered, CasesOf
<1>4. QED
  BY <1>1, <1>l, <1>2, <1>3, SeekNumbers, InsertSeedNumbers, InsertSeedCaseNumbers DEF NextAll

\* What this start of main has inserted is whole.
LEMMA SeedInvariant == SpecAll => []SeedInv
<1>1. InitAll => SeedInv
  <2>1. SUFFICES ASSUME InitAll PROVE SeedInv
    OBVIOUS
  <2>2. seed = 1 /\ first = 1 /\ newProblem = 1 /\ main = "seek"
    BY <2>1 DEF InitAll, Init
  <2>3. \A i \in DOMAIN Seeds : ~(i < 1)
    BY SeedFacts
  <2>4. QED BY <2>2, <2>3 DEF SeedInv
<1>2. Sound /\ Used /\ SeedInv /\ [NextAll]_allVars => SeedInv'
  BY SeedStep
<1>3. QED BY <1>1, <1>2, SoundInvariant, UsedInvariant, PTL DEF SpecAll

\* When the server begins to listen every title of main has a problem, and each that
\* this start inserted has all its test cases, read in their order, whatever earlier
\* starts, crashes and administrators have left in the tables (server.cc 126-144).
THEOREM SeedsAreServed == SpecAll => SeedsServed
<1>1. ASSUME Sound, SeedInv, [NextAll]_allVars, main # "serve", main' = "serve"
      PROVE  /\ \A i \in DOMAIN Seeds : \E p \in ProblemIds : problems[p] = Seeds[i].text
             /\ \A p \in first..(newProblem - 1) : \E i \in DOMAIN Seeds :
                  /\ problems[p] = Seeds[i].text
                  /\ LET s == InOrder(CasesOf(p)) IN
                       /\ Len(s) = Seeds[i].cases
                       /\ \A k \in DOMAIN s : cases[s[k]].position = k - 1
  <2>1. Listen
    BY <1>1 DEF NextAll, Seek, InsertSeed, InsertSeedCase, AfterCases, Handle, LoseInStart, Crash,
      Start, allVars, mainVars
  <2>2. main = "seek" /\ seed > Len(Seeds) /\ seed \in Nat /\ Len(Seeds) \in Nat
    BY <1>1, <2>1, SeedingAssumption, LenProperties DEF Listen, Sound, RowsOK, TablesOK, MainOK
  <2>3. \A i \in DOMAIN Seeds : i < seed
    BY <2>2, SeedFacts
  <2>4. ASSUME NEW p \in first..(newProblem - 1)
        PROVE  \E i \in DOMAIN Seeds :
                 /\ problems[p] = Seeds[i].text
                 /\ LET s == InOrder(CasesOf(p)) IN
                      /\ Len(s) = Seeds[i].cases
                      /\ \A k \in DOMAIN s : cases[s[k]].position = k - 1
    <3>1. p \in ProblemIds /\ Whole(p)
      BY <1>1, <2>2 DEF SeedInv
    <3>2. PICK i \in DOMAIN Seeds : problems[p] = Seeds[i].text /\ Numbered(p, Seeds[i].cases)
      BY <3>1 DEF Whole
    <3>3. Seeds[i].cases \in Nat
      BY SeedFacts
    <3>4. QED BY <1>1, <3>1, <3>2, <3>3, ReadInPlace
  <2>5. QED BY <1>1, <2>3, <2>4 DEF SeedInv
<1>2. QED BY <1>1, SoundInvariant, SeedInvariant, PTL DEF SpecAll, SeedsServed
=============================================================================
