------------------------------ MODULE Catalogue ------------------------------
(***************************************************************************)
(* The problems and test cases, and the handlers of server.cc that read    *)
(* and change them, each a sequence of statements of db.cc over the shared *)
(* connection (Connection).  Each statement is two calls, which interleave *)
(* with those of other handlers.  Sessions and roles are in Sessions.      *)
(***************************************************************************)
EXTENDS Connection, Integers, FiniteSets

CONSTANTS Texts,        \* title, difficulty, content and template of a problem,
                        \* as a request gives them
          SeedTexts,    \* the same, as main gives them (see Seeding)
          OddText,      \* one whose difficulty is not in the ENUM of the column
          NoText,       \* no row; in a request, a required field is empty
          Positions,    \* of a test case
          OtherRow,     \* rows of a table other than test_cases
          MaxProblems, MaxCases     \* bounds on the AUTO_INCREMENT ids

ASSUME CatalogueAssumption ==
  /\ IsFiniteSet(Workers)
  /\ OddText \notin Texts /\ NoText \notin Texts \cup SeedTexts \cup {OddText}
  /\ Positions \subseteq Int
  /\ MaxProblems \in Nat /\ MaxCases \in Nat
  /\ NoRow \notin Workers

ProblemIds == 1..MaxProblems
CaseIds == 1..MaxCases

\* A row of test_cases; its input and output never change, so its id is enough.
Rows == [problem : ProblemIds, position : Positions]
NoCase == [problem |-> 0, position |-> 0]

\* What a SELECT returns: of test cases, their ids in order.
Lists == UNION {[1..n -> CaseIds] : n \in 1..MaxCases}
Results == {OtherRow, NoRow} \cup Lists

ASSUME ResultsDiffer == OtherRow # NoRow /\ OtherRow \notin Lists /\ NoRow \notin Lists

Ops == {"list", "page", "form", "create", "edit", "delete", "addCase", "dropCase", "submit"}

VARIABLES
  problems, cases,        \* the tables
  newProblem, newCase,    \* their AUTO_INCREMENT counters
  pc,           \* the next statement of the handler
  sent,         \* mysql_query has returned 0 for it: mysql_store_result is next
  req,          \* the request: operation, id in the path, body
  list          \* the test cases it has read to judge on, in order

tables == <<problems, cases, newProblem, newCase>>
handler == <<pc, sent, req, list>>
vars == <<problems, cases, newProblem, newCase, pc, sent, req, list, connVars>>

Requests == [op : Ops, id : Nat, text : Texts \cup {OddText, NoText}, position : Positions \cup {0}]

TypeOK ==
  /\ ConnTypeOK(Results)
  /\ problems \in [ProblemIds -> Texts \cup SeedTexts \cup {NoText}]
  /\ cases \in [CaseIds -> Rows \cup {NoCase}]
  /\ newProblem \in 1..(MaxProblems + 1) /\ newCase \in 1..(MaxCases + 1)
  /\ pc \in [Workers -> {"free", "list", "problem", "cases", "insert", "update", "delete",
                         "judge"}]
  /\ sent \in [Workers -> BOOLEAN]
  /\ req \in [Workers -> Requests]
  /\ list \in [Workers -> Lists \cup {<<>>}]

NoRequest == [op |-> "list", id |-> 0, text |-> NoText, position |-> 0]

Init ==
  /\ ConnInit(TRUE)
  /\ problems = [p \in ProblemIds |-> NoText] /\ cases = [c \in CaseIds |-> NoCase]
  /\ newProblem = 1 /\ newCase = 1
  /\ pc = [w \in Workers |-> "free"] /\ sent = [w \in Workers |-> FALSE]
  /\ req = [w \in Workers |-> NoRequest] /\ list = [w \in Workers |-> <<>>]

\* mysql_query returns 0 for the statement...
Sent(w) ==
  /\ ~sent[w] /\ sent' = [sent EXCEPT ![w] = TRUE]
  /\ UNCHANGED <<pc, req, list>>

\* ... and after mysql_store_result the handler goes on to its next one.
Goto(w, to) ==
  /\ pc' = [pc EXCEPT ![w] = to] /\ sent' = [sent EXCEPT ![w] = FALSE]
  /\ UNCHANGED req

\* It answers, whatever the status and the text, and its locals are gone.
Answer(w) ==
  /\ pc' = [pc EXCEPT ![w] = "free"] /\ sent' = [sent EXCEPT ![w] = FALSE]
  /\ req' = [req EXCEPT ![w] = NoRequest]
  /\ list' = [list EXCEPT ![w] = <<>>]

-----------------------------------------------------------------------------
\* The bounds on inserts: every one in progress finds an id below its bound.
Inserting(op) ==
  Cardinality({w \in Workers : pc[w] = "insert" /\ ~sent[w] /\ req[w].op = op})
RoomFor(op) ==
  /\ op = "create" => newProblem + Inserting(op) <= MaxProblems
  /\ op = "addCase" => newCase + Inserting(op) <= MaxCases

\* The first statement of each handler.
FirstCall(op) ==
  CASE op = "list" -> "list"
    [] op \in {"page", "form", "delete"} -> "problem"
    [] op = "submit" -> "cases"
    [] op \in {"create", "addCase"} -> "insert"
    [] op = "edit" -> "update"
    [] op = "dropCase" -> "delete"

\* A request reaches its handler.  Of a test case or a submission it only matters
\* whether a field is empty; with an empty field a request to write or to judge is
\* answered 400 at once.
Arrive(w) ==
  /\ pc[w] = "free"
  /\ \E op \in Ops, id \in 1..(MaxProblems + MaxCases), text \in Texts \cup {OddText, NoText},
        position \in Positions :
       /\ RoomFor(op)
       /\ id \in (IF op = "dropCase" THEN CaseIds ELSE ProblemIds)
       /\ op \in {"list", "create"} => id = 1
       /\ op \notin {"create", "edit", "addCase", "submit"} => text = NoText
       /\ op \in {"addCase", "submit"} => text \in {NoText, OddText}
       /\ op # "addCase" => \A q \in Positions : position <= q
       /\ IF op \in {"create", "edit", "addCase", "submit"} /\ text = NoText
            THEN UNCHANGED <<pc, req>>
            ELSE /\ pc' = [pc EXCEPT ![w] = FirstCall(op)]
                 /\ req' = [req EXCEPT ![w] =
                      [op |-> op, id |-> id, text |-> text, position |-> position]]
  /\ lost' = lost \ {w}
  /\ UNCHANGED <<tables, sent, list, up, waiting, shaken>>

\* ORDER BY position, id.
Before(c, d) ==
  \/ cases[c].position < cases[d].position
  \/ cases[c].position = cases[d].position /\ c < d

CasesOf(p) == {c \in CaseIds : cases[c].problem = p}

\* Mutant: ORDER BY id.
InOrderById(C) ==
  CHOOSE s \in [1..Cardinality(C) -> C] : \A i, j \in DOMAIN s : i < j => s[i] < s[j]

InOrder(C) ==
  CHOOSE s \in [1..Cardinality(C) -> C] : \A i, j \in DOMAIN s : i < j => Before(s[i], s[j])

-----------------------------------------------------------------------------
\* The rows that the SELECT of w has in the tables as they are.
Selected(w) ==
  LET id == req[w].id IN
    CASE pc[w] = "list" -> IF \E p \in ProblemIds : problems[p] # NoText THEN OtherRow ELSE NoRow
      [] pc[w] = "problem" -> IF problems[id] # NoText THEN OtherRow ELSE NoRow
      [] pc[w] = "cases" -> IF CasesOf(id) # {} THEN InOrder(CasesOf(id)) ELSE NoRow

\* get_all_problems, get_problem or get_test_cases: mysql_query...
Select(w) ==
  /\ pc[w] \in {"list", "problem", "cases"} /\ ~sent[w]
  /\ \/ Sent(w) /\ SendSelect(w, Selected(w))
     \/ Answer(w) /\ (SendFails \/ SendBreaks)
  /\ UNCHANGED tables

\* ... and mysql_store_result, whose rows may be those of another statement.
Returned ==
  Stored({OtherRow, NoRow} \cup {InOrder(CasesOf(p)) : p \in {q \in ProblemIds : CasesOf(q) # {}}})

ListProblems(w) ==
  /\ pc[w] = "list" /\ sent[w]
  /\ StoreResult(w)
  /\ Answer(w)
  /\ UNCHANGED tables

\* Without a row the answer is 404, and a form is answered at once.
GetProblem(w) ==
  /\ pc[w] = "problem" /\ sent[w]
  /\ StoreResult(w)
  /\ \E rows \in Returned :
       \/ (rows = NoRow \/ req[w].op = "form") /\ Answer(w)
       \/ rows # NoRow /\ req[w].op = "page" /\ Goto(w, "cases") /\ UNCHANGED list
       \/ rows # NoRow /\ req[w].op = "delete" /\ Goto(w, "delete") /\ UNCHANGED list
  /\ UNCHANGED tables

\* For a page or for a submission, which must have some.  Rows of another table have
\* no numbers where these have them: stoi throws.
GetTestCases(w) ==
  /\ pc[w] = "cases" /\ sent[w]
  /\ StoreResult(w)
  /\ \E rows \in Returned :
       \/ (rows \in {OtherRow, NoRow} \/ req[w].op = "page") /\ Answer(w)
       \/ /\ rows \notin {OtherRow, NoRow} /\ req[w].op = "submit"
          /\ Goto(w, "judge")
          /\ list' = [list EXCEPT ![w] = rows]
  /\ UNCHANGED tables

\* compile_and_judge works on the copy, for as long as it takes.
JudgeCopy(w) ==
  /\ pc[w] = "judge"
  /\ Answer(w)
  /\ UNCHANGED <<tables, connVars>>

-----------------------------------------------------------------------------
\* What MySQL does of each statement that writes, and which it refuses.

\* A difficulty outside the ENUM is refused before a row, and an id, is made.
InsertProblem(w) ==
  /\ pc[w] = "insert" /\ req[w].op = "create"
  /\ IF req[w].text = OddText THEN UNCHANGED <<problems, newProblem>> ELSE
       /\ problems' = [problems EXCEPT ![newProblem] = req[w].text]
       /\ newProblem' = newProblem + 1
  /\ UNCHANGED <<cases, newCase>>

\* The row of a new test case.
NewCase(w) == [problem |-> req[w].id, position |-> req[w].position]

\* Mutants: the problem's id is taken from the body, where there is none...
InsertTestCaseOfBody(w) ==
  /\ pc[w] = "insert" /\ req[w].op = "addCase"
  /\ newCase' = newCase + 1
  /\ cases' = [cases EXCEPT ![newCase] = [NewCase(w) EXCEPT !.problem = 0]]
  /\ UNCHANGED <<problems, newProblem>>

\* ... and nothing refuses a test case of a problem that is not there.
InsertTestCaseUnchecked(w) ==
  /\ pc[w] = "insert" /\ req[w].op = "addCase"
  /\ newCase' = newCase + 1
  /\ cases' = [cases EXCEPT ![newCase] = NewCase(w)]
  /\ UNCHANGED <<problems, newProblem>>

\* The handler does not look whether the problem exists: the foreign key does,
\* and a refused row has used up its id.
InsertTestCase(w) ==
  /\ pc[w] = "insert" /\ req[w].op = "addCase"
  /\ newCase' = newCase + 1
  /\ cases' = IF problems[req[w].id] = NoText THEN cases
              ELSE [cases EXCEPT ![newCase] = NewCase(w)]
  /\ UNCHANGED <<problems, newProblem>>

\* Mutant: the edited problem is written whether it is there or not.
UpdateProblemOrInsert(w) ==
  /\ pc[w] = "update"
  /\ problems' = [problems EXCEPT ![req[w].id] = IF req[w].text = OddText THEN @ ELSE req[w].text]
  /\ UNCHANGED <<cases, newProblem, newCase>>

\* UPDATE ... WHERE id: without a row it changes nothing and is answered alike.
UpdateProblem(w) ==
  /\ pc[w] = "update"
  /\ problems' = [problems EXCEPT ![req[w].id] =
       IF @ = NoText \/ req[w].text = OddText THEN @ ELSE req[w].text]
  /\ UNCHANGED <<cases, newProblem, newCase>>

\* DELETE FROM problems, whose test cases go with it (ON DELETE CASCADE).
DeleteProblem(w) ==
  /\ pc[w] = "delete" /\ req[w].op = "delete"
  /\ problems' = [problems EXCEPT ![req[w].id] = NoText]
  /\ cases' = [c \in CaseIds |-> IF cases[c].problem = req[w].id THEN NoCase ELSE cases[c]]
  /\ UNCHANGED <<newProblem, newCase>>

\* DELETE FROM test_cases, answered alike with a row and without.
DeleteTestCase(w) ==
  /\ pc[w] = "delete" /\ req[w].op = "dropCase"
  /\ cases' = [cases EXCEPT ![req[w].id] = NoCase]
  /\ UNCHANGED <<problems, newProblem, newCase>>

Refused(w) ==
  \/ req[w].op = "create" /\ req[w].text = OddText
  \/ req[w].op = "addCase" /\ problems[req[w].id] = NoText
  \/ req[w].op = "edit" /\ req[w].text = OddText /\ problems[req[w].id] # NoText

Executed(w) ==
  InsertProblem(w) \/ InsertTestCase(w) \/ UpdateProblem(w) \/ DeleteProblem(w) \/ DeleteTestCase(w)
NotExecuted == UNCHANGED tables

\* mysql_query of a statement that writes: when it fails query() throws, and the
\* handler answers 400.  When the connection breaks, the statement may be executed
\* all the same.
Write(w) ==
  /\ pc[w] \in {"insert", "update", "delete"} /\ ~sent[w]
  /\ \/ Sent(w) /\ SendWrite /\ ~Refused(w) /\ Executed(w)
     \/ Sent(w) /\ SendWrite /\ shaken /\ (Executed(w) \/ NotExecuted)
     \/ Answer(w) /\ SendWrite /\ Refused(w) /\ Executed(w)
     \/ Answer(w) /\ SendFails /\ (NotExecuted \/ (shaken /\ Executed(w)))
     \/ Answer(w) /\ SendBreaks /\ (NotExecuted \/ Executed(w))

\* ... and the mysql_store_result that query() adds, whose result is dropped.  The
\* answer to an insert holds mysql_insert_id, which nothing here depends on.
DropResult(w) ==
  /\ pc[w] \in {"insert", "update", "delete"} /\ sent[w]
  /\ StoreResult(w)
  /\ Answer(w)
  /\ UNCHANGED tables

LoseConnection == Drop /\ UNCHANGED <<tables, handler>>

CallsOverlap ==
  /\ Overlap({w \in Workers : pc[w] \notin {"free", "judge"}})
  /\ UNCHANGED <<tables, handler>>

-----------------------------------------------------------------------------
Next ==
  \/ LoseConnection \/ CallsOverlap
  \/ \E w \in Workers :
       \/ Arrive(w) \/ Select(w) \/ ListProblems(w) \/ GetProblem(w) \/ GetTestCases(w)
       \/ JudgeCopy(w) \/ Write(w) \/ DropResult(w)

Spec == Init /\ [][Next]_vars

-----------------------------------------------------------------------------
\* A test case belongs to a problem that is there, although handlers add cases
\* to problems that others delete (server.cc 423-481).
NoOrphans == \A c \in CaseIds : cases[c] # NoCase => problems[cases[c].problem] # NoText

\* What is deleted stays deleted: no late edit, late test case or new problem
\* brings an id back that a page or a form still names (server.cc 349-500).
StaysDeleted ==
  [][/\ \A p \in ProblemIds : p < newProblem /\ problems[p] = NoText => problems'[p] = NoText
     /\ \A c \in CaseIds : c < newCase /\ cases[c] = NoCase => cases'[c] = NoCase]_vars

\* A submission is judged on cases of its own problem, at least one, each once, in
\* the order of their positions, whatever others delete meanwhile, unless its result
\* was lost or calls on the connection have overlapped (server.cc 286-299, db.cc
\* 30-37, 120-139).
JudgedInOrder ==
  ~shaken => \A w \in Workers \ lost : pc[w] = "judge" =>
    /\ list[w] # <<>>
    /\ \A i \in DOMAIN list[w] :
         LET c == list[w][i] IN cases[c] = NoCase \/ cases[c].problem = req[w].id
    /\ \A i, j \in DOMAIN list[w] : i < j =>
         LET c == list[w][i]
             d == list[w][j] IN
           /\ c # d
           /\ cases[c] # NoCase /\ cases[d] # NoCase => Before(c, d)

\* SPEC.md 459, and the plan of web tests (228): cpp-httplib serves requests on many
\* threads and nothing has to be done about it, every submission is judged by itself;
\* on its own cases, then, at the least as long as no two calls overlap.
OwnCasesOnly ==
  ~shaken => \A w \in Workers : pc[w] = "judge" =>
    \A i \in DOMAIN list[w] :
      LET c == list[w][i] IN cases[c] = NoCase \/ cases[c].problem = req[w].id

=============================================================================
