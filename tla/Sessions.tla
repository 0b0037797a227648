------------------------------ MODULE Sessions ------------------------------
(***************************************************************************)
(* auth.cc and the session checks of auth.h, as the handlers of server.cc  *)
(* use them: the table of sessions behind a mutex, and the pointers into   *)
(* it that handlers keep and read after the mutex is released.             *)
(***************************************************************************)
EXTENDS FiniteSets, Naturals

CONSTANTS Workers,        \* the threads that serve requests
          Users, Tokens,  \* accounts; session tokens, each drawn once
          Nodes,          \* the places of the heap a table entry may occupy
          Nobody, Null, NoToken,
          Hasty   \* the cookies of clients that may log out while another
                  \* request of theirs is being served

Roles == {"user", "admin"}
Kinds == {"home", "page", "admin", "post", "logout"}

ASSUME SessionsAssumption ==
  /\ Hasty \subseteq Tokens
  /\ Null \notin Nodes /\ NoToken \notin Tokens /\ Nobody \notin Users

\* What a Session holds (created_at is written and never read).
SessionData == [user : Users, role : Roles]
NoData == [user |-> Nobody, role |-> "user"]

VARIABLES
  store,    \* sessions: the node of each token's entry
  heap,     \* what each node holds; a freed node keeps its bytes for a while
  live,     \* the node is allocated
  roles,    \* users.role in the database
  issued,   \* what create_session was given for the token
  pc, kind, tok,    \* each worker's request, and the cookie it came with
  row,      \* the user row a login has read
  ptr,      \* the handler's Session*
  read      \* what the handler last read through it

reqVars == <<kind, tok, row>>
vars == <<store, heap, live, roles, issued, pc, kind, tok, row, ptr, read>>

TypeOK ==
  /\ store \in [Tokens -> Nodes \cup {Null}]
  /\ heap \in [Nodes -> SessionData \cup {NoData}]
  /\ live \in [Nodes -> BOOLEAN]
  /\ roles \in [Users -> Roles]
  /\ issued \in [Tokens -> SessionData \cup {NoData}]
  /\ pc \in [Workers -> {"free", "create", "lookup", "role", "render", "reply", "log", "erase"}]
  /\ kind \in [Workers -> Kinds \cup {"none"}]
  /\ tok \in [Workers -> Tokens \cup {NoToken}]
  /\ row \in [Workers -> SessionData \cup {NoData}]
  /\ ptr \in [Workers -> Nodes \cup {Null}]
  /\ read \in [Workers -> SessionData \cup {NoData}]

Init ==
  /\ store = [t \in Tokens |-> Null]
  /\ heap = [n \in Nodes |-> NoData] /\ live = [n \in Nodes |-> FALSE]
  /\ roles \in [Users -> Roles]
  /\ issued = [t \in Tokens |-> NoData]
  /\ pc = [w \in Workers |-> "free"] /\ kind = [w \in Workers |-> "none"]
  /\ tok = [w \in Workers |-> NoToken] /\ row = [w \in Workers |-> NoData]
  /\ ptr = [w \in Workers |-> Null] /\ read = [w \in Workers |-> NoData]

Issued(t) == issued[t] # NoData
Goto(w, from, to) == pc[w] = from /\ pc' = [pc EXCEPT ![w] = to]

-----------------------------------------------------------------------------
\* The bounds on logins: every one in progress finds a new token and a free node.
LoggingIn == {w \in Workers : pc[w] = "create"}
RoomToLogin ==
  /\ Cardinality(LoggingIn) < Cardinality({t \in Tokens : ~Issued(t)})
  /\ Cardinality(LoggingIn) < Cardinality({n \in Nodes : ~live[n]})

\* POST /login reads the user's row, checks the password and only then
\* creates the session, with the role it read.
LoginRead(w) ==
  /\ Goto(w, "free", "create")
  /\ RoomToLogin
  /\ \E u \in Users : row' = [row EXCEPT ![w] = [user |-> u, role |-> roles[u]]]
  /\ UNCHANGED <<store, heap, live, roles, issued, kind, tok, ptr, read>>

\* Mutant: the role is not copied into the new session.
CreateWithoutRole(w) ==
  /\ Goto(w, "create", "free")
  /\ \E t \in Tokens, n \in Nodes :
       /\ ~Issued(t) /\ ~live[n]
       /\ store' = [store EXCEPT ![t] = n]
       /\ heap' = [heap EXCEPT ![n] = [user |-> row[w].user, role |-> ""]]
       /\ live' = [live EXCEPT ![n] = TRUE]
       /\ issued' = [issued EXCEPT ![t] = row[w]]
  /\ row' = [row EXCEPT ![w] = NoData]
  /\ UNCHANGED <<roles, kind, tok, ptr, read>>

\* create_session: a random token, and a node the allocator had free, maybe one
\* that held another session before.
CreateSession(w) ==
  /\ Goto(w, "create", "free")
  /\ \E t \in Tokens, n \in Nodes :
       /\ ~Issued(t) /\ ~live[n]
       /\ store' = [store EXCEPT ![t] = n]
       /\ heap' = [heap EXCEPT ![n] = row[w]]
       /\ live' = [live EXCEPT ![n] = TRUE]
       /\ issued' = [issued EXCEPT ![t] = row[w]]
  /\ row' = [row EXCEPT ![w] = NoData]
  /\ UNCHANGED <<roles, kind, tok, ptr, read>>

\* A request comes with the cookie of some login, or with none.  A client that is
\* not hasty logs out only while no other request of its cookie is being served,
\* and sends nothing until the logout is answered.
InFlight(t) == {w \in Workers : pc[w] \notin {"free", "create"} /\ tok[w] = t}

Arrive(w) ==
  /\ Goto(w, "free", "lookup")
  /\ \E k \in Kinds, t \in Tokens \cup {NoToken} :
       /\ t # NoToken => Issued(t)
       /\ t \notin Hasty \cup {NoToken} =>
            \A v \in InFlight(t) : k # "logout" /\ kind[v] # "logout"
       /\ kind' = [kind EXCEPT ![w] = k]
       /\ tok' = [tok EXCEPT ![w] = t]
  /\ UNCHANGED <<store, heap, live, roles, issued, row, ptr, read>>

\* The request is answered; the handler's locals are gone.
Answer(w, from) ==
  /\ Goto(w, from, "free")
  /\ kind' = [kind EXCEPT ![w] = "none"]
  /\ tok' = [tok EXCEPT ![w] = NoToken]
  /\ ptr' = [ptr EXCEPT ![w] = Null]
  /\ read' = [read EXCEPT ![w] = NoData]

\* Where a handler goes once it has found a session.
Found(k) == CASE k \in {"home", "page"} -> "render"
              [] k \in {"admin", "post"} -> "role"
              [] OTHER -> "log"

\* Mutant: any session will do.
EntryOfAny(t) == IF t = NoToken THEN Null ELSE store[CHOOSE u \in Tokens : Issued(u)]

\* sessions.find(token).
Entry(t) == IF t = NoToken THEN Null ELSE store[t]

\* get_session, under the mutex; without a session a page redirects to /login
\* and a POST gets 401, "/" is public and logout goes on to erase nothing.
Lookup(w) ==
  LET n == Entry(tok[w]) IN
    /\ \/ n = Null /\ kind[w] # "logout" /\ Answer(w, "lookup")
       \/ /\ n # Null \/ kind[w] = "logout"
          /\ Goto(w, "lookup", IF n = Null THEN "erase" ELSE Found(kind[w]))
          /\ ptr' = [ptr EXCEPT ![w] = n]
          /\ UNCHANGED <<kind, tok, read>>
    /\ UNCHANGED <<store, heap, live, roles, issued, row>>

\* Reading through the pointer, without the mutex.  A freed node may still hold
\* the old bytes or something else; a reallocated one holds another session.
Deref(n) == {heap[n]} \cup (IF live[n] THEN {} ELSE {NoData})

\* Mutant: the test of the role is the wrong way round.
CheckRoleNegated(w) ==
  /\ pc[w] = "role"
  /\ \E d \in Deref(ptr[w]) :
       \/ d.role = "admin" /\ Answer(w, "role")
       \/ /\ d.role # "admin"
          /\ Goto(w, "role", IF kind[w] = "post" THEN "reply" ELSE "render")
          /\ read' = [read EXCEPT ![w] = d]
          /\ UNCHANGED <<kind, tok, ptr>>
  /\ UNCHANGED <<store, heap, live, roles, issued, row>>

\* CHECK_ADMIN and CHECK_ADMIN_JSON: others than administrators get 403.
CheckRole(w) ==
  /\ pc[w] = "role"
  /\ \E d \in Deref(ptr[w]) :
       \/ d.role # "admin" /\ Answer(w, "role")
       \/ /\ d.role = "admin"
          /\ Goto(w, "role", IF kind[w] = "post" THEN "reply" ELSE "render")
          /\ read' = [read EXCEPT ![w] = d]
          /\ UNCHANGED <<kind, tok, ptr>>
  /\ UNCHANGED <<store, heap, live, roles, issued, row>>

\* The page is built once the database has been read, with the name and the
\* role found through the pointer then.
Render(w) ==
  /\ Goto(w, "render", "reply")
  /\ \E d \in Deref(ptr[w]) : read' = [read EXCEPT ![w] = d]
  /\ UNCHANGED <<store, heap, live, roles, issued, row, kind, tok, ptr>>

Reply(w) ==
  /\ Answer(w, "reply")
  /\ UNCHANGED <<store, heap, live, roles, issued, row>>

\* GET /logout logs the name of the session it found...
LogLogout(w) ==
  /\ Goto(w, "log", "erase")
  /\ \E d \in Deref(ptr[w]) : read' = [read EXCEPT ![w] = d]
  /\ UNCHANGED <<store, heap, live, roles, issued, row, kind, tok, ptr>>

\* Mutant: the entry of the table outlives its node.
EraseNodeOnly(w) ==
  /\ Answer(w, "erase")
  /\ live' = [n \in Nodes |-> live[n] /\ n # ptr[w]]
  /\ UNCHANGED <<store, heap, roles, issued, row>>

\* ... and then erases the token's entry, if it is still there, whatever it
\* found before: the node is freed.
DestroySession(w) ==
  /\ Answer(w, "erase")
  /\ IF tok[w] # NoToken
       THEN /\ live' = [n \in Nodes |-> live[n] /\ n # store[tok[w]]]
            /\ store' = [store EXCEPT ![tok[w]] = Null]
       ELSE UNCHANGED <<live, store>>
  /\ UNCHANGED <<heap, roles, issued, row>>

\* An operator sets users.role in SQL, as DEPLOY.md 113-116 says to.
SetRole(u) ==
  /\ \E r \in Roles \ {roles[u]} : roles' = [roles EXCEPT ![u] = r]
  /\ UNCHANGED <<store, heap, live, issued, pc, ptr, read, reqVars>>

-----------------------------------------------------------------------------
Serve(w) ==
  \/ CreateSession(w) \/ Lookup(w) \/ CheckRole(w) \/ Render(w)
  \/ Reply(w) \/ LogLogout(w) \/ DestroySession(w)

Next ==
  \/ \E w \in Workers : LoginRead(w) \/ Arrive(w) \/ Serve(w)
  \/ \E u \in Users : SetRole(u)

Spec == Init /\ [][Next]_vars

-----------------------------------------------------------------------------
\* The handler w has read the session it found.
HasRead(w) ==
  \/ pc[w] = "reply"
  \/ pc[w] = "render" /\ kind[w] = "admin"
  \/ pc[w] = "erase" /\ ptr[w] # Null

\* What a handler reads through its Session* is what the login of its own cookie
\* stored, although it reads without the mutex, and although other clients are
\* hasty: only its own haste can harm a client (server.cc 154-502, auth.cc 41-46).
OwnSessionOnly ==
  \A w \in Workers : HasRead(w) /\ tok[w] \notin Hasty => read[w] = issued[tok[w]]

\* The table and the heap agree: an entry is at an allocated node of its own
\* that holds the session its login made, and no node is lost.
StoreSound ==
  /\ \A t \in Tokens : store[t] # Null =>
       live[store[t]] /\ Issued(t) /\ heap[store[t]] = issued[t]
  /\ \A t, u \in Tokens : store[t] = store[u] /\ store[t] # Null => t = u
  /\ \A n \in Nodes : live[n] => \E t \in Tokens : store[t] = n

\* A request passes CHECK_ADMIN only with the cookie of a login that found its
\* user an administrator, and that has not been logged out, unless its client is
\* hasty (auth.h 32-60).
AdminByLogin ==
  [][\A w \in Workers :
       /\ pc[w] = "role" /\ pc'[w] \in {"render", "reply"}
       /\ tok[w] \notin Hasty
       =>
       /\ issued[tok[w]].role = "admin"
       /\ store[tok[w]] # Null]_vars

\* SPEC.md 498: user A has no access to the session of user B.
NoForeignSession ==
  \A w \in Workers : HasRead(w) => read[w].user \in {issued[tok[w]].user, Nobody}

=============================================================================
