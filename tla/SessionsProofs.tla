--------------------------- MODULE SessionsProofs ---------------------------
(***************************************************************************)
(* Proofs about Sessions, for any number of workers, users, tokens, nodes. *)
(***************************************************************************)
EXTENDS Sessions, TLAPS

\* A handler about to read through its pointer has one, and a login in progress
\* has read a row of the table of users.
PtrHeld == \A w \in Workers : pc[w] \in {"role", "render", "log"} => ptr[w] \in Nodes
RowRead == \A w \in Workers : pc[w] = "create" => row[w] \in SessionData

\* TypeOK is not inductive by itself: what a handler reads has a type only if
\* its pointer is not null.
TypeInv == TypeOK /\ PtrHeld /\ RowRead

\* What is there before any login is no session.
LEMMA NoDataIsNoSession == NoData \notin SessionData
  BY SessionsAssumption DEF NoData, SessionData

\* TypeInv is an invariant.
LEMMA TypeInvariant == Spec => []TypeInv
<1> USE DEF TypeInv, PtrHeld, RowRead
<1>1. Init => TypeInv
  BY DEF Init, TypeOK, SessionData, NoData
<1>2. TypeInv /\ [Next]_vars => TypeInv'
  <2> SUFFICES ASSUME TypeInv, [Next]_vars PROVE TypeInv'
    OBVIOUS
  <2> USE DEF TypeOK, Goto
  <2>1. ASSUME NEW w \in Workers, LoginRead(w) PROVE TypeInv'
    BY <2>1 DEF LoginRead, SessionData
  <2>2. ASSUME NEW w \in Workers, CreateSession(w) PROVE TypeInv'
    BY <2>2 DEF CreateSession
  <2>3. ASSUME NEW w \in Workers, Arrive(w) PROVE TypeInv'
    BY <2>3 DEF Arrive
  <2>4. ASSUME NEW w \in Workers, Lookup(w) PROVE TypeInv'
    <3>1. Entry(tok[w]) \in Nodes \cup {Null}
      BY DEF Entry
    <3>2. QED BY <2>4, <3>1 DEF Lookup, Found, Answer
  <2>5. ASSUME NEW w \in Workers, CheckRole(w) PROVE TypeInv'
    <3>1. Deref(ptr[w]) \subseteq SessionData \cup {NoData}
      BY <2>5 DEF CheckRole, Deref
    <3>2. QED BY <2>5, <3>1 DEF CheckRole, Answer
  <2>6. ASSUME NEW w \in Workers, Render(w) PROVE TypeInv'
    <3>1. Deref(ptr[w]) \subseteq SessionData \cup {NoData}
      BY <2>6 DEF Render, Deref
    <3>2. QED BY <2>6, <3>1 DEF Render
  <2>7. ASSUME NEW w \in Workers, Reply(w) PROVE TypeInv'
    BY <2>7 DEF Reply, Answer
  <2>8. ASSUME NEW w \in Workers, LogLogout(w) PROVE TypeInv'
    <3>1. Deref(ptr[w]) \subseteq SessionData \cup {NoData}
      BY <2>8 DEF LogLogout, Deref
    <3>2. QED BY <2>8, <3>1 DEF LogLogout
  <2>9. ASSUME NEW w \in Workers, DestroySession(w) PROVE TypeInv'
    BY <2>9 DEF DestroySession, Answer
  <2>10. ASSUME NEW u \in Users, SetRole(u) PROVE TypeInv'
    BY <2>10 DEF SetRole, reqVars
  <2>11. CASE UNCHANGED vars
    BY <2>11 DEF vars
  <2>12. QED
    BY <2>1, <2>2, <2>3, <2>4, <2>5, <2>6, <2>7, <2>8, <2>9, <2>10, <2>11 DEF Next, Serve
<1>3. QED
  BY <1>1, <1>2, PTL DEF Spec

\* Every variable keeps its type.
THEOREM TypeCorrect == Spec => []TypeOK
  BY TypeInvariant, PTL DEF TypeInv

-----------------------------------------------------------------------------
\* The table of sessions and the heap stay in agreement, however requests and
\* logouts overlap: only the pointers of handlers may dangle.
THEOREM TableSound == Spec => []StoreSound
<1> USE DEF StoreSound, Issued
<1>1. Init => StoreSound
  BY DEF Init
<1>2. TypeInv /\ StoreSound /\ [Next]_vars => StoreSound'
  <2> SUFFICES ASSUME TypeInv, StoreSound, [Next]_vars PROVE StoreSound'
    OBVIOUS
  <2> USE DEF TypeInv, TypeOK
  <2>1. ASSUME NEW w \in Workers, CreateSession(w) PROVE StoreSound'
    <3>1. PICK t \in Tokens, n \in Nodes :
            /\ ~Issued(t) /\ ~live[n]
            /\ store' = [store EXCEPT ![t] = n]
            /\ heap' = [heap EXCEPT ![n] = row[w]]
            /\ live' = [live EXCEPT ![n] = TRUE]
            /\ issued' = [issued EXCEPT ![t] = row[w]]
      BY <2>1 DEF CreateSession
    <3>2. row[w] # NoData
      BY <2>1, NoDataIsNoSession DEF CreateSession, Goto, RowRead
    <3>3. store[t] = Null /\ n # Null
      BY <3>1, SessionsAssumption
    <3>4. \A u \in Tokens : store[u] # n
      BY <3>1, <3>3
    <3>5. \A u \in Tokens : store'[u] = IF u = t THEN n ELSE store[u]
      BY <3>1
    <3>6. \A u \in Tokens : store'[u] # Null =>
            live'[store'[u]] /\ issued'[u] # NoData /\ heap'[store'[u]] = issued'[u]
      BY <3>1, <3>2, <3>4, <3>5
    <3>7. \A u, v \in Tokens : store'[u] = store'[v] /\ store'[u] # Null => u = v
      BY <3>4, <3>5
    <3>8. \A m \in Nodes : live'[m] => \E u \in Tokens : store'[u] = m
      <4> SUFFICES ASSUME NEW m \in Nodes, live'[m], m # n
                   PROVE  \E u \in Tokens : store'[u] = m
        BY <3>5
      <4>1. PICK u \in Tokens : store[u] = m
        BY <3>1
      <4>2. u # t
        BY <4>1, <3>3, SessionsAssumption
      <4>3. QED BY <4>1, <4>2, <3>5
    <3>9. QED BY <3>6, <3>7, <3>8
  <2>2. ASSUME NEW w \in Workers, DestroySession(w) PROVE StoreSound'
    <3>1. CASE tok[w] = NoToken
      BY <3>1, <2>2 DEF DestroySession
    <3>2. CASE tok[w] # NoToken
      <4>1. \A u \in Tokens : store'[u] = IF u = tok[w] THEN Null ELSE store[u]
        BY <3>2, <2>2 DEF DestroySession
      <4>2. \A m \in Nodes : live'[m] <=> live[m] /\ m # store[tok[w]]
        <5>1. live' = [m \in Nodes |-> live[m] /\ m # store[tok[w]]]
          BY <3>2, <2>2 DEF DestroySession
        <5>2. QED BY <5>1, Zenon
      <4>3. UNCHANGED <<heap, issued>> /\ tok[w] \in Tokens
        BY <3>2, <2>2 DEF DestroySession
      <4>4. \A u \in Tokens : store'[u] # Null =>
              live'[store'[u]] /\ issued'[u] # NoData /\ heap'[store'[u]] = issued'[u]
        BY <4>1, <4>2, <4>3
      <4>5. \A u, v \in Tokens : store'[u] = store'[v] /\ store'[u] # Null => u = v
        BY <4>1
      <4>6. \A m \in Nodes : live'[m] => \E u \in Tokens : store'[u] = m
        BY <4>1, <4>2
      <4>7. QED BY <4>4, <4>5, <4>6
    <3>3. QED BY <3>1, <3>2
  <2>3. CASE UNCHANGED <<store, heap, live, issued>>
    BY <2>3
  <2>4. QED
    BY <2>1, <2>2, <2>3
    DEF Next, Serve, LoginRead, Arrive, Lookup, CheckRole, Render, Reply, LogLogout,
        SetRole, vars
<1>3. QED
  BY <1>1, <1>2, TypeInvariant, PTL DEF Spec

-----------------------------------------------------------------------------
\* What keeps a pointer good whose client is not hasty: a request in flight came
\* with an issued cookie, shares it with a logout only if it is that logout, and
\* points to the entry of its cookie's session.
Busy(w) == pc[w] \notin {"free", "create"}
CookieIssued == \A w \in Workers : Busy(w) /\ tok[w] # NoToken => Issued(tok[w])
LogoutAlone ==
  \A v, w \in Workers :
    Busy(v) /\ Busy(w) /\ v # w /\ tok[v] = tok[w] /\ tok[v] \notin Hasty \cup {NoToken}
      => kind[v] # "logout"
KindAtStep ==
  \A w \in Workers :
    /\ pc[w] = "lookup" => kind[w] \in Kinds
    /\ pc[w] \in {"log", "erase"} => kind[w] = "logout"
    /\ pc[w] \in {"role", "render", "reply"} => kind[w] # "logout"
Pointing(w) ==
  \/ pc[w] \in {"role", "render", "reply", "log"}
  \/ pc[w] = "erase" /\ ptr[w] # Null
PointsToOwn ==
  \A w \in Workers : Pointing(w) =>
    /\ tok[w] \in Tokens /\ ptr[w] \in Nodes
    /\ tok[w] \notin Hasty => store[tok[w]] = ptr[w]

OwnInv == CookieIssued /\ LogoutAlone /\ KindAtStep /\ PointsToOwn /\ OwnSessionOnly

\* A handler that points to its own session's node reads that session.
LEMMA DerefOwn ==
  ASSUME TypeInv, StoreSound, OwnInv, NEW w \in Workers, Pointing(w), tok[w] \notin Hasty
  PROVE  Deref(ptr[w]) = {issued[tok[w]]}
<1>1. tok[w] \in Tokens /\ ptr[w] \in Nodes /\ store[tok[w]] = ptr[w] /\ ptr[w] # Null
  BY SessionsAssumption DEF OwnInv, PointsToOwn
<1>2. live[ptr[w]] /\ heap[ptr[w]] = issued[tok[w]]
  BY <1>1 DEF StoreSound
<1>3. QED BY <1>2 DEF Deref

\* OwnInv is preserved by every step.
LEMMA OwnStep ==
  ASSUME TypeInv, StoreSound, OwnInv, [Next]_vars
  PROVE  OwnInv'
<1> USE DEF TypeInv, TypeOK, OwnInv, CookieIssued, LogoutAlone, KindAtStep, PointsToOwn,
            OwnSessionOnly, HasRead, Pointing, Busy, Goto, Issued
<1>1. ASSUME NEW w \in Workers, LoginRead(w) PROVE OwnInv'
  BY <1>1 DEF LoginRead
<1>2. ASSUME NEW w \in Workers, CreateSession(w) PROVE OwnInv'
  <2>1. PICK t \in Tokens, n \in Nodes :
          /\ ~Issued(t) /\ ~live[n]
          /\ store' = [store EXCEPT ![t] = n]
          /\ issued' = [issued EXCEPT ![t] = row[w]]
    BY <1>2 DEF CreateSession
  <2>2. row[w] # NoData
    BY <1>2, NoDataIsNoSession DEF CreateSession, RowRead
  <2>3. pc' = [pc EXCEPT ![w] = "free"] /\ pc[w] = "create"
        /\ UNCHANGED <<kind, tok, ptr, read>>
    BY <1>2 DEF CreateSession
  <2>4. \A v \in Workers : Busy(v)' => Busy(v) /\ v # w /\ tok[v] # t
    BY <2>1, <2>3, SessionsAssumption
  <2>5. \A v \in Workers : Busy(v)' /\ tok[v] \in Tokens =>
          store'[tok[v]] = store[tok[v]] /\ issued'[tok[v]] = issued[tok[v]]
    BY <2>1, <2>4
  <2>6. QED BY <2>3, <2>4, <2>5
<1>3. ASSUME NEW w \in Workers, Arrive(w) PROVE OwnInv'
  BY <1>3 DEF Arrive, InFlight
<1>4. ASSUME NEW w \in Workers, Lookup(w) PROVE OwnInv'
  <2>1. CASE Answer(w, "lookup")
    BY <1>4, <2>1 DEF Lookup, Answer
  <2>2. CASE Entry(tok[w]) = Null /\ kind[w] = "logout"
    BY <1>4, <2>2 DEF Lookup, Answer
  <2>3. CASE Entry(tok[w]) # Null /\ Goto(w, "lookup", Found(kind[w]))
    <3>1. tok[w] \in Tokens /\ Entry(tok[w]) = store[tok[w]] /\ store[tok[w]] \in Nodes
      BY <2>3 DEF Entry
    <3>2. /\ Found(kind[w]) \in {"role", "render", "log"}
          /\ Found(kind[w]) = "log" <=> kind[w] = "logout"
          /\ Found(kind[w]) = "render" => kind[w] # "admin"
      BY <2>3 DEF Found, Kinds
    <3>3. /\ pc' = [pc EXCEPT ![w] = Found(kind[w])]
          /\ ptr' = [ptr EXCEPT ![w] = store[tok[w]]]
          /\ UNCHANGED <<store, issued, kind, tok, read>>
      BY <1>4, <2>3, <3>1 DEF Lookup, Answer
    <3>4. QED BY <2>3, <3>1, <3>2, <3>3
  <2>4. QED BY <1>4, <2>1, <2>2, <2>3 DEF Lookup
<1>5. ASSUME NEW w \in Workers, CheckRole(w) PROVE OwnInv'
  <2>1. CASE Answer(w, "role")
    BY <1>5, <2>1 DEF CheckRole, Answer
  <2>2. CASE ~Answer(w, "role")
    <3>1. tok[w] \notin Hasty => read' = [read EXCEPT ![w] = issued[tok[w]]]
      BY <1>5, <2>2, DerefOwn DEF CheckRole
    <3>2. QED BY <1>5, <2>2, <3>1 DEF CheckRole
  <2>3. QED BY <2>1, <2>2
<1>6. ASSUME NEW w \in Workers, Render(w) PROVE OwnInv'
  BY <1>6, DerefOwn DEF Render
<1>7. ASSUME NEW w \in Workers, Reply(w) PROVE OwnInv'
  BY <1>7 DEF Reply, Answer
<1>8. ASSUME NEW w \in Workers, LogLogout(w) PROVE OwnInv'
  BY <1>8, DerefOwn DEF LogLogout
<1>9. ASSUME NEW w \in Workers, DestroySession(w) PROVE OwnInv'
  <2>1. \A v \in Workers : v # w /\ Busy(v) =>
          tok[v] # tok[w] \/ tok[v] \in Hasty \cup {NoToken}
    BY <1>9 DEF DestroySession, Answer
  <2>2. \A v \in Workers : v # w /\ Pointing(v) /\ tok[v] \notin Hasty =>
          store'[tok[v]] = store[tok[v]]
    BY <1>9, <2>1, SessionsAssumption DEF DestroySession
  <2>3. QED BY <1>9, <2>2 DEF DestroySession, Answer
<1>10. ASSUME NEW u \in Users, SetRole(u) PROVE OwnInv'
  BY <1>10 DEF SetRole, reqVars
<1>11. CASE UNCHANGED vars
  BY <1>11 DEF vars
<1>12. QED
  BY <1>1, <1>2, <1>3, <1>4, <1>5, <1>6, <1>7, <1>8, <1>9, <1>10, <1>11 DEF Next, Serve

\* OwnInv is an invariant.
LEMMA OwnInvariant == Spec => []OwnInv
<1>1. Init => OwnInv
  BY DEF Init, OwnInv, CookieIssued, LogoutAlone, KindAtStep, PointsToOwn,
         OwnSessionOnly, HasRead, Pointing, Busy
<1>2. TypeInv /\ StoreSound /\ OwnInv /\ [Next]_vars => OwnInv'
  BY OwnStep
<1>3. QED
  BY <1>1, <1>2, TypeInvariant, TableSound, PTL DEF Spec

\* A handler whose client is not hasty only ever reads the session of its own
\* cookie, whatever the other clients do.
THEOREM OwnSession == Spec => []OwnSessionOnly
  BY OwnInvariant, PTL DEF OwnInv

\* Of the clients that are not hasty, only the cookie of an administrator's login
\* that has not been logged out passes CHECK_ADMIN.
THEOREM AdminsOnly == Spec => AdminByLogin
<1>1. TypeInv /\ StoreSound /\ OwnInv /\ [Next]_vars
        => [\A w \in Workers :
              /\ pc[w] = "role" /\ pc'[w] \in {"render", "reply"}
              /\ tok[w] \notin Hasty
              =>
              /\ issued[tok[w]].role = "admin"
              /\ store[tok[w]] # Null]_vars
  <2> SUFFICES ASSUME TypeInv, StoreSound, OwnInv, Next, NEW w \in Workers,
                      pc[w] = "role", pc'[w] \in {"render", "reply"}, tok[w] \notin Hasty
               PROVE  issued[tok[w]].role = "admin" /\ store[tok[w]] # Null
    BY DEF vars
  <2>1. CheckRole(w)
    BY DEF TypeInv, TypeOK, Next, Serve, Goto, LoginRead, CreateSession, Arrive, Lookup,
           CheckRole, Render, Reply, LogLogout, DestroySession, SetRole, Answer
  <2>2. Pointing(w)
    BY <2>1 DEF CheckRole, Pointing
  <2>3. issued[tok[w]].role = "admin"
    BY <2>1, <2>2, DerefOwn DEF CheckRole, Answer, Goto, TypeInv, TypeOK
  <2>4. store[tok[w]] # Null
    BY <2>2, SessionsAssumption DEF OwnInv, PointsToOwn
  <2>5. QED BY <2>3, <2>4
<1>2. QED
  BY <1>1, TypeInvariant, TableSound, OwnInvariant, PTL DEF Spec, AdminByLogin

=============================================================================
