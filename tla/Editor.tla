-------------------------------- MODULE Editor --------------------------------
(***************************************************************************)
(* The editor of the problem page (static/app.js, submitCode) in several   *)
(* tabs, and the server behind it: the requests wait in one queue for the   *)
(* threads of cpp-httplib, and a thread keeps its request until the handler *)
(* returns, which for a submission is when it is judged.  Requests may be  *)
(* lost, and answers come back in any order.                                *)
(***************************************************************************)
EXTENDS Naturals, FiniteSets, SequencesExt

CONSTANTS Tabs,
          Threads,      \* of the server: how many
          Ids,          \* bound: requests that are under way
          MostHanging,  \* bound: submissions that the compiler hangs on
          None

ASSUME EditorAssumption ==
  /\ Threads \in Nat /\ MostHanging \in Nat /\ MostHanging < Threads
  /\ None \notin Ids

Requests == [id : Ids, tab : Tabs, what : {"page", "submit"}, hangs : BOOLEAN]

VARIABLES
  page,       \* the document of each tab; "failed" is an error page
  known,      \* _ojProblemId is set
  disabled,   \* the button is
  shown,      \* #submit-result: nothing, pending, an answer or an error; and
              \* history: whether that is of the last submission
  awaited,    \* the requests whose promise is pending
  queue,      \* the requests the server has accepted
  serving,    \* the requests that occupy a thread
  answers,    \* the requests whose answer is on its way
  latest,     \* history: the last submission of the page
  hurried     \* history: Ctrl+Enter has submitted while the button was disabled

browser == <<page, known, disabled, shown, awaited, latest, hurried>>
server == <<queue, serving>>
vars == <<browser, server, answers>>

NoCard == [card |-> "none", newest |-> TRUE]
Pending == [card |-> "pending", newest |-> TRUE]

TypeOK ==
  /\ page \in [Tabs -> {"loading", "open", "failed"}]
  /\ known \in [Tabs -> BOOLEAN] /\ disabled \in [Tabs -> BOOLEAN]
  /\ shown \in [Tabs -> [card : {"none", "pending", "answer", "error"}, newest : BOOLEAN]]
  /\ awaited \subseteq Requests /\ answers \subseteq Requests
  /\ queue \in Seq(Requests)
  /\ serving \subseteq Requests /\ Cardinality(serving) <= Threads
  /\ latest \in [Tabs -> Ids \cup {None}] /\ hurried \in [Tabs -> BOOLEAN]

AtServer == ToSet(queue) \cup serving
Hanging == {r \in AtServer : r.hangs}
NewIds == Ids \ {r.id : r \in AtServer \cup awaited \cup answers}

\* fetch() of a new request: the server's listener accepts it.
Fetch(t, what) ==
  \E h \in BOOLEAN :
    LET i == CHOOSE i \in NewIds : TRUE
        r == [id |-> i, tab |-> t, what |-> what, hangs |-> h] IN
      /\ NewIds # {}
      /\ h => what = "submit" /\ Cardinality(Hanging) < MostHanging
      /\ awaited' = {a \in awaited : what = "page" => a.tab # t} \cup {r}
      /\ queue' = Append(queue, r)
      /\ latest' = [latest EXCEPT ![t] = IF what = "submit" THEN i ELSE None]
      /\ UNCHANGED serving

Init ==
  /\ page = [t \in Tabs |-> "open"] /\ known = [t \in Tabs |-> FALSE]
  /\ disabled = [t \in Tabs |-> FALSE] /\ shown = [t \in Tabs |-> NoCard]
  /\ awaited = {} /\ queue = <<>> /\ serving = {} /\ answers = {}
  /\ latest = [t \in Tabs |-> None] /\ hurried = [t \in Tabs |-> FALSE]

-----------------------------------------------------------------------------
\* The page is loaded again: what its scripts awaited is awaited no more, and the
\* server does not hear of it.
Load(t) ==
  /\ page[t] # "loading" /\ page' = [page EXCEPT ![t] = "loading"]
  /\ Fetch(t, "page")
  /\ known' = [known EXCEPT ![t] = FALSE]
  /\ disabled' = [disabled EXCEPT ![t] = FALSE]
  /\ shown' = [shown EXCEPT ![t] = NoCard]
  /\ hurried' = [hurried EXCEPT ![t] = FALSE]
  /\ answers' = {a \in answers : a.tab # t}

\* Mutant: the button can be clicked again at once.
DisableNot(t) == t = t /\ UNCHANGED disabled
Disable(t) == disabled' = [disabled EXCEPT ![t] = TRUE]

SubmitCode(t) ==
  /\ page[t] = "open"
  /\ known' = [known EXCEPT ![t] = TRUE]
  /\ Disable(t)
  /\ shown' = [shown EXCEPT ![t] = Pending]
  /\ hurried' = [hurried EXCEPT ![t] = @ \/ disabled[t]]
  /\ Fetch(t, "submit")
  /\ UNCHANGED <<page, answers>>

Click(t) == ~disabled[t] /\ SubmitCode(t)

\* Ctrl+Enter does nothing until the button has been used, and does not look at it.
Hotkey(t) == known[t] /\ SubmitCode(t)

\* Mutant: an error is shown, and the button stays as it is.
SettleThenOnly(t, card, newest) ==
  /\ shown' = [shown EXCEPT ![t] = [card |-> card, newest |-> newest]]
  /\ disabled' = [disabled EXCEPT ![t] = card = "error" /\ disabled[t]]

\* Mutant: an error is written to the console, and the card stays.
SettleQuietly(t, card, newest) ==
  /\ shown' = [shown EXCEPT ![t] =
       IF card = "error" THEN @ ELSE [card |-> card, newest |-> newest]]
  /\ disabled' = [disabled EXCEPT ![t] = FALSE]

\* then() or catch(), and finally(): one card, and one button for all promises.
Settle(t, card, newest) ==
  /\ shown' = [shown EXCEPT ![t] = [card |-> card, newest |-> newest]]
  /\ disabled' = [disabled EXCEPT ![t] = FALSE]

\* The answer reaches the page, or the browser gives the request up.
Settled(r, document, cards) ==
  /\ awaited' = awaited \ {r}
  /\ \/ /\ r.what = "page" /\ page' = [page EXCEPT ![r.tab] = document]
        /\ UNCHANGED <<disabled, shown>>
     \/ /\ r.what = "submit" /\ \E c \in cards : Settle(r.tab, c, r.id = latest[r.tab])
        /\ UNCHANGED page
  /\ UNCHANGED <<known, latest, hurried>>

\* A judged submission, or one refused with 400 or 401.
Receive(r) ==
  /\ r \in answers /\ r \in awaited /\ answers' = answers \ {r}
  /\ Settled(r, "open", {"answer", "error"})
  /\ UNCHANGED server

Lose(r) ==
  /\ r \in awaited /\ answers' = answers \ {r}
  /\ Settled(r, "failed", {"error"})
  /\ UNCHANGED server

-----------------------------------------------------------------------------
\* Mutant: one request is served at a time.
FreeAlone == serving = {}

\* Mutant: every request gets a thread.
FreeAlways == serving = serving

Free == Cardinality(serving) < Threads

\* The thread pool: the oldest request goes to a free thread.
Take ==
  /\ Free /\ queue # <<>>
  /\ serving' = serving \cup {Head(queue)} /\ queue' = Tail(queue)
  /\ UNCHANGED <<browser, answers>>

\* The handler returns; nobody may be waiting for the answer any more.
Answer(r) ==
  /\ r \in serving /\ ~r.hangs
  /\ serving' = serving \ {r}
  /\ answers' = answers \cup ({r} \cap awaited)
  /\ UNCHANGED <<browser, queue>>

Next ==
  \/ \E t \in Tabs : Load(t) \/ Click(t) \/ Hotkey(t)
  \/ \E r \in awaited : Receive(r) \/ Lose(r)
  \/ Take
  \/ \E r \in serving : Answer(r)

\* The threads run, and the answers that are sent arrive; the user need do nothing.
Fairness ==
  WF_vars(Take) /\ \A r \in Requests : WF_vars(Answer(r)) /\ WF_vars(Receive(r))

Spec == Init /\ [][Next]_vars /\ Fairness

-----------------------------------------------------------------------------
\* "Judging" is shown only while the answer of a submission of this page is still to
\* come, whatever else was lost or reloaded (app.js 294-343).
PendingAwaited ==
  \A t \in Tabs : shown[t] = Pending =>
    \E r \in awaited : r.tab = t /\ r.what = "submit"

\* The button is disabled only while an answer is to come, and enabled when none is,
\* unless Ctrl+Enter submitted over a disabled one (app.js 294-298, 338-343).
ButtonFollows ==
  \A t \in Tabs :
    LET out == \E r \in awaited : r.tab = t /\ r.what = "submit" IN
      (disabled[t] => out) /\ (out /\ ~hurried[t] => disabled[t])

\* The verdict that is shown is that of the last submission, unless Ctrl+Enter
\* submitted while another one was judged (app.js 135, 288-337).
ShownIsLatest ==
  \A t \in Tabs : shown[t].card \in {"answer", "error"} /\ ~hurried[t] =>
    shown[t].newest

\* As long as fewer compilations hang than there are threads, every other request
\* that a page waits for is answered or given up: a page that loads, and "judging",
\* end (server.cc 274-300, 514).
Served ==
  \A i \in Ids :
    (\E r \in awaited : r.id = i /\ ~r.hangs) ~> (\A r \in awaited : r.id # i)

=============================================================================
