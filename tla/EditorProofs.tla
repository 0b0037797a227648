---------------------------- MODULE EditorProofs ----------------------------
(***************************************************************************)
(* Proofs about Editor, for any number of tabs, requests and threads.      *)
(***************************************************************************)
EXTENDS Editor, FiniteSetTheorems, TLAPS

\* The submissions of a tab whose promise is pending.
Out(t) == {r \in awaited : r.tab = t /\ r.what = "submit"}

\* Until Ctrl+Enter has submitted over a disabled button, a page waits for one
\* submission at most, its last, and the card that is left is of that one.
OneOut ==
  \A t \in Tabs : ~hurried[t] =>
    /\ \A r \in Out(t) : r.id = latest[t]
    /\ \A r, s \in Out(t) : r = s
    /\ shown[t].newest

TypeInv == TypeOK /\ IsFiniteSet(serving)
PageInv == PendingAwaited /\ ButtonFollows /\ OneOut

\* What fetch() does to the queue, and to what a page waits for.
LEMMA FetchAwaits ==
  ASSUME TypeOK, NEW t \in Tabs, NEW what \in {"page", "submit"}, Fetch(t, what)
  PROVE  \E r \in Requests :
           /\ r.tab = t /\ r.what = what
           /\ awaited' = {a \in awaited : what = "page" => a.tab # t} \cup {r}
           /\ queue' = Append(queue, r)
           /\ latest' = [latest EXCEPT ![t] = IF what = "submit" THEN r.id ELSE None]
           /\ serving' = serving
<1> DEFINE i == CHOOSE i \in NewIds : TRUE
           r(h) == [id |-> i, tab |-> t, what |-> what, hangs |-> h]
<1>1. PICK h \in BOOLEAN :
        /\ NewIds # {}
        /\ awaited' = {a \in awaited : what = "page" => a.tab # t} \cup {r(h)}
        /\ queue' = Append(queue, r(h))
        /\ latest' = [latest EXCEPT ![t] = IF what = "submit" THEN i ELSE None]
        /\ serving' = serving
  BY DEF Fetch
<1>2. i \in Ids
  BY <1>1 DEF NewIds
<1> HIDE DEF i
<1>3. r(h) \in Requests /\ r(h).tab = t /\ r(h).what = what /\ r(h).id = i
  BY <1>2 DEF Requests
<1> HIDE DEF r
<1>4. QED
  BY <1>1, <1>3

\* What a fetch of the page leaves behind has its type.
LEMMA FetchIsTyped ==
  ASSUME TypeOK, NEW t \in Tabs, NEW what \in {"page", "submit"}, Fetch(t, what)
  PROVE  /\ awaited' \subseteq Requests
         /\ queue' \in Seq(Requests)
         /\ latest' \in [Tabs -> Ids \cup {None}]
         /\ serving' = serving
<1>1. PICK r \in Requests :
        /\ awaited' = {a \in awaited : what = "page" => a.tab # t} \cup {r}
        /\ queue' = Append(queue, r)
        /\ latest' = [latest EXCEPT ![t] = IF what = "submit" THEN r.id ELSE None]
        /\ serving' = serving
  BY FetchAwaits
<1>2. awaited' \subseteq Requests
  BY <1>1 DEF TypeOK
<1>3. queue' \in Seq(Requests)
  BY <1>1 DEF TypeOK
<1>4. latest' \in [Tabs -> Ids \cup {None}]
  BY <1>1 DEF TypeOK, Requests
<1>5. QED
  BY <1>1, <1>2, <1>3, <1>4

\* What the end of a fetch leaves behind has its type.
LEMMA SettledIsTyped ==
  ASSUME TypeOK, NEW r \in awaited, NEW document \in {"open", "failed"},
         NEW cards, cards \subseteq {"answer", "error"}, Settled(r, document, cards)
  PROVE  /\ page' \in [Tabs -> {"loading", "open", "failed"}]
         /\ known' = known /\ latest' = latest /\ hurried' = hurried
         /\ disabled' \in [Tabs -> BOOLEAN]
         /\ shown' \in [Tabs -> [card : {"none", "pending", "answer", "error"}, newest : BOOLEAN]]
         /\ awaited' \subseteq Requests
<1>1. awaited' \subseteq Requests /\ known' = known /\ latest' = latest /\ hurried' = hurried
  BY DEF Settled, TypeOK
<1>2. CASE r.what = "page" /\ page' = [page EXCEPT ![r.tab] = document]
           /\ UNCHANGED <<disabled, shown>>
  BY <1>1, <1>2 DEF TypeOK
<1>3. ASSUME NEW c \in cards, Settle(r.tab, c, r.id = latest[r.tab]), UNCHANGED page
      PROVE  /\ disabled' \in [Tabs -> BOOLEAN] /\ page' = page
             /\ shown' \in [Tabs -> [card : {"none", "pending", "answer", "error"},
                                     newest : BOOLEAN]]
  <2>1. [card |-> c, newest |-> (r.id = latest[r.tab])] \in
           [card : {"none", "pending", "answer", "error"}, newest : BOOLEAN]
    OBVIOUS
  <2>2. QED
    BY <1>3, <2>1 DEF Settle, TypeOK
<1>4. QED
  BY <1>1, <1>2, <1>3 DEF Settled, TypeOK

\* Every variable of Editor keeps its type, and the threads that are busy are never
\* more than there are (server.cc 514).
LEMMA TypeInvariant == Spec => []TypeInv
<1> USE DEF TypeInv
<1>1. Init => TypeInv
  BY EditorAssumption, FS_EmptySet DEF Init, TypeOK, NoCard
<1>2. TypeInv /\ [Next]_vars => TypeInv'
  <2> SUFFICES ASSUME TypeInv, [Next]_vars PROVE TypeInv'
    OBVIOUS
  <2>1. ASSUME NEW t \in Tabs, Load(t) PROVE TypeInv'
    <3>1. awaited' \subseteq Requests /\ queue' \in Seq(Requests)
          /\ latest' \in [Tabs -> Ids \cup {None}] /\ serving' = serving
      BY <2>1, FetchIsTyped DEF Load
    <3>2. QED
      BY <2>1, <3>1 DEF Load, TypeOK, NoCard
  <2>2. ASSUME NEW t \in Tabs, SubmitCode(t) PROVE TypeInv'
    <3>1. awaited' \subseteq Requests /\ queue' \in Seq(Requests)
          /\ latest' \in [Tabs -> Ids \cup {None}] /\ serving' = serving
      BY <2>2, FetchIsTyped DEF SubmitCode
    <3>2. QED
      BY <2>2, <3>1 DEF SubmitCode, Disable, TypeOK, Pending
  <2>3. ASSUME NEW r \in awaited, Receive(r) PROVE TypeInv'
    BY <2>3, SettledIsTyped DEF Receive, TypeOK, server
  <2>4. ASSUME NEW r \in awaited, Lose(r) PROVE TypeInv'
    BY <2>4, SettledIsTyped DEF Lose, TypeOK, server
  <2>5. CASE Take
    <3>1. Cardinality(serving) \in Nat
      BY FS_CardinalityType
    <3>2. Cardinality(serving') \in {Cardinality(serving), Cardinality(serving) + 1}
          /\ IsFiniteSet(serving')
      BY <2>5, FS_AddElement DEF Take
    <3>3. Cardinality(serving') <= Threads
      BY <2>5, <3>1, <3>2, EditorAssumption DEF Take, Free
    <3>4. Head(queue) \in Requests /\ queue' \in Seq(Requests)
      BY <2>5 DEF Take, TypeOK
    <3>5. QED
      BY <2>5, <3>2, <3>3, <3>4 DEF Take, TypeOK, browser
  <2>6. ASSUME NEW r \in serving, Answer(r) PROVE TypeInv'
    <3>1. IsFiniteSet(serving') /\ Cardinality(serving') = Cardinality(serving) - 1
      BY <2>6, FS_RemoveElement DEF Answer
    <3>2. Cardinality(serving) \in Nat
      BY FS_CardinalityType
    <3>3. Cardinality(serving') <= Threads
      BY <3>1, <3>2, EditorAssumption DEF TypeOK
    <3>4. QED
      BY <2>6, <3>1, <3>3 DEF Answer, TypeOK, browser
  <2>7. CASE UNCHANGED vars
    BY <2>7 DEF vars, browser, server, TypeOK
  <2>8. QED
    BY <2>1, <2>2, <2>3, <2>4, <2>5, <2>6, <2>7 DEF Next, Click, Hotkey
<1>3. QED
  BY <1>1, <1>2, PTL DEF Spec

\* Every variable of Editor keeps its type, and no more threads are busy than there
\* are (app.js 274-343, server.cc 514).
THEOREM TypeCorrect == Spec => []TypeOK
<1>1. TypeInv => TypeOK
  BY DEF TypeInv
<1>2. QED
  BY <1>1, TypeInvariant, PTL

-----------------------------------------------------------------------------
\* A page that is loaded again waits for nothing but itself.
LEMMA LoadKeeps ==
  ASSUME TypeOK, PageInv, NEW t \in Tabs, Load(t)
  PROVE  PageInv'
<1>1. PICK r \in Requests :
        /\ r.tab = t /\ r.what = "page"
        /\ awaited' = {a \in awaited : a.tab # t} \cup {r}
  BY FetchAwaits DEF Load
<1>2. Out(t)' = {}
  BY <1>1 DEF Out
<1>3. ASSUME NEW u \in Tabs, u # t PROVE Out(u)' = Out(u) /\ latest'[u] = latest[u]
  BY <1>1, <1>3, FetchAwaits DEF Out, Load, TypeOK
<1>4. shown'[t] = NoCard /\ ~disabled'[t]
  BY DEF Load, TypeOK
<1>5. \A u \in Tabs : u # t =>
        shown'[u] = shown[u] /\ disabled'[u] = disabled[u] /\ hurried'[u] = hurried[u]
  BY DEF Load, TypeOK
<1>6. PendingAwaited'
  BY <1>3, <1>4, <1>5 DEF PageInv, PendingAwaited, Out, NoCard, Pending
<1>7. ButtonFollows'
  BY <1>2, <1>3, <1>4, <1>5 DEF PageInv, ButtonFollows, Out
<1>8. OneOut'
  BY <1>2, <1>3, <1>4, <1>5 DEF PageInv, OneOut, NoCard
<1>9. QED
  BY <1>6, <1>7, <1>8 DEF PageInv

\* A submission is the page's only one, unless the button was disabled.
LEMMA SubmitKeeps ==
  ASSUME TypeOK, PageInv, NEW t \in Tabs, SubmitCode(t)
  PROVE  PageInv'
<1>1. PICK r \in Requests :
        /\ r.tab = t /\ r.what = "submit"
        /\ awaited' = awaited \cup {r}
        /\ latest' = [latest EXCEPT ![t] = r.id]
  BY FetchAwaits DEF SubmitCode
<1>2. Out(t)' = Out(t) \cup {r} /\ latest'[t] = r.id
  BY <1>1 DEF Out, TypeOK
<1>3. ASSUME NEW u \in Tabs, u # t PROVE Out(u)' = Out(u) /\ latest'[u] = latest[u]
  BY <1>1, <1>3 DEF Out, TypeOK
<1>4. shown'[t] = Pending /\ disabled'[t] /\ hurried'[t] = (hurried[t] \/ disabled[t])
  BY DEF SubmitCode, Disable, TypeOK
<1>5. \A u \in Tabs : u # t =>
        shown'[u] = shown[u] /\ disabled'[u] = disabled[u] /\ hurried'[u] = hurried[u]
  BY DEF SubmitCode, Disable, TypeOK
<1>6. PendingAwaited'
  BY <1>2, <1>3, <1>5 DEF PageInv, PendingAwaited, Out
<1>7. ButtonFollows'
  BY <1>2, <1>3, <1>4, <1>5 DEF PageInv, ButtonFollows, Out
<1>8. ~hurried'[t] => Out(t) = {}
  BY <1>4 DEF PageInv, ButtonFollows, Out
<1>9. OneOut'
  BY <1>2, <1>3, <1>4, <1>5, <1>8 DEF PageInv, OneOut, Pending
<1>10. QED
  BY <1>6, <1>7, <1>9 DEF PageInv

\* When a promise settles, its page waits for it no more.
LEMMA SettledKeeps ==
  ASSUME TypeOK, PageInv, NEW r \in awaited, NEW document, NEW cards,
         cards \subseteq {"answer", "error"}, Settled(r, document, cards)
  PROVE  PageInv'
<1> DEFINE t == r.tab
<1>1. t \in Tabs /\ awaited' = awaited \ {r} /\ latest' = latest /\ hurried' = hurried
  BY DEF Settled, TypeOK, Requests
<1>2. CASE r.what = "page" /\ UNCHANGED <<disabled, shown>>
  <2>1. \A u \in Tabs : Out(u)' = Out(u)
    BY <1>1, <1>2 DEF Out
  <2>2. QED
    BY <1>1, <1>2, <2>1 DEF PageInv, PendingAwaited, ButtonFollows, OneOut, Out
<1>3. ASSUME r.what = "submit", NEW c \in cards, Settle(t, c, r.id = latest[t])
      PROVE  PageInv'
  <2>1. Out(t)' = Out(t) \ {r} /\ r \in Out(t)
    BY <1>1, <1>3 DEF Out
  <2>2. \A u \in Tabs : u # t => Out(u)' = Out(u)
    BY <1>1 DEF Out
  <2>3. shown'[t] = [card |-> c, newest |-> (r.id = latest[t])] /\ ~disabled'[t]
    BY <1>1, <1>3 DEF Settle, TypeOK
  <2>4. \A u \in Tabs : u # t => shown'[u] = shown[u] /\ disabled'[u] = disabled[u]
    BY <1>1, <1>3 DEF Settle, TypeOK
  <2>5. shown'[t] # Pending
    BY <2>3 DEF Pending
  <2>6. ~hurried[t] => Out(t)' = {} /\ r.id = latest[t]
    <3>1. ~hurried[t] => (\A s, q \in Out(t) : s = q) /\ r.id = latest[t]
      BY <1>1, <2>1 DEF PageInv, OneOut
    <3>2. (\A s, q \in Out(t) : s = q) => Out(t)' = {}
      BY <2>1
    <3>3. QED
      BY <3>1, <3>2
  <2> HIDE DEF t
  <2>7. PendingAwaited'
    BY <2>2, <2>4, <2>5 DEF PageInv, PendingAwaited, Out
  <2>8. ButtonFollows'
    BY <1>1, <2>2, <2>3, <2>4, <2>6 DEF PageInv, ButtonFollows, Out
  <2>9. OneOut'
    <3>1. ASSUME ~hurried[t] PROVE shown'[t].newest
      <4>1. (r.id = latest[t]) = TRUE
        BY <2>6, <3>1
      <4>2. shown'[t] = [card |-> c, newest |-> TRUE]
        BY <2>3, <4>1, Zenon
      <4>3. QED
        BY <4>2
    <3>2. QED
      BY <1>1, <2>2, <2>4, <2>6, <3>1 DEF PageInv, OneOut
  <2>10. QED
    BY <2>7, <2>8, <2>9 DEF PageInv
<1>4. QED
  BY <1>2, <1>3 DEF Settled

\* What a page shows and awaits, with at most one submission when nobody hurries.
LEMMA PageInvariant == Spec => []PageInv
<1>1. Init => PageInv
  BY DEF Init, PageInv, PendingAwaited, ButtonFollows, OneOut, Out, NoCard, Pending
<1>2. TypeOK /\ PageInv /\ [Next]_vars => PageInv'
  <2> SUFFICES ASSUME TypeOK, PageInv, [Next]_vars PROVE PageInv'
    OBVIOUS
  <2>1. ASSUME NEW t \in Tabs, Load(t) \/ SubmitCode(t) PROVE PageInv'
    BY <2>1, LoadKeeps, SubmitKeeps
  <2>2. ASSUME NEW r \in awaited, Receive(r) PROVE PageInv'
    BY <2>2, SettledKeeps DEF Receive
  <2>3. ASSUME NEW r \in awaited, Lose(r) PROVE PageInv'
    BY <2>3, SettledKeeps DEF Lose
  <2>4. CASE UNCHANGED browser
    BY <2>4 DEF browser, PageInv, PendingAwaited, ButtonFollows, OneOut, Out
  <2>5. QED
    BY <2>1, <2>2, <2>3, <2>4 DEF Next, Click, Hotkey, Take, Answer, vars
<1>3. QED
  BY <1>1, <1>2, TypeCorrect, PTL DEF Spec

\* A page shows "judging" only while an answer of its own is to come, whatever is
\* lost, reloaded or answered late (app.js 294-343).
THEOREM PendingIsAwaited == Spec => []PendingAwaited
<1>1. PageInv => PendingAwaited
  BY DEF PageInv
<1>2. QED
  BY <1>1, PageInvariant, PTL

\* The button follows the answers that are to come (app.js 294-298, 338-343).
THEOREM ButtonIsRight == Spec => []ButtonFollows
<1>1. PageInv => ButtonFollows
  BY DEF PageInv
<1>2. QED
  BY <1>1, PageInvariant, PTL

\* Without Ctrl+Enter over a disabled button, the verdict that is shown is that of
\* the last submission (app.js 135, 288-337).
THEOREM LatestIsShown == Spec => []ShownIsLatest
<1>1. PageInv => ShownIsLatest
  BY DEF PageInv, OneOut, ShownIsLatest
<1>2. QED
  BY <1>1, PageInvariant, PTL

=============================================================================
