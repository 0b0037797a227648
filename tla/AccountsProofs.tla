--------------------------- MODULE AccountsProofs ---------------------------
(***************************************************************************)
(* Proofs about Accounts, with Connection, for any number of threads,      *)
(* names, passwords and salts.                                             *)
(***************************************************************************)
EXTENDS Accounts, SequenceTheorems, TLAPS

Steps == Answered \cup {"look", "lookRes", "crypt", "crypting", "copy", "insert", "insertRes"}

\* The calls of each kind of request, and a login that goes on has a row.
OpFits ==
  \A w \in Workers :
    /\ pc[w] \in {"look", "lookRes"} => req[w].op # "write"
    /\ pc[w] \in {"crypt", "crypting", "copy"} => req[w].op \in {"register", "login"}
    /\ pc[w] \in {"insert", "insertRes"} => req[w].op \in {"register", "write"}
    /\ pc[w] = "registered" => req[w].op = "register"
    /\ pc[w] \in {"open", "wrong"} => req[w].op = "login"
    /\ pc[w] \in {"crypt", "crypting", "copy"} /\ req[w].op = "login" => row[w] # NoRow

\* While main starts no handler runs.
Waits == main = "start" => pc = Free

TypeInv == TypeOK /\ OpFits /\ Waits

\* A SELECT by name returns a row of that name, or none.
LEMMA SelectIsTyped ==
  ASSUME TypeOK, NEW n \in Names
  PROVE  /\ SelectUser(n) \in Users \cup {NoRow}
         /\ SelectUser(n) # NoRow => SelectUser(n) \in Users /\ SelectUser(n).name = n
<1>1. ASSUME RowsOf(n) # {} PROVE SelectUser(n) \in Users /\ SelectUser(n).name = n
  <2>1. PICK i \in RowsOf(n) : SelectUser(n) = users[i]
    BY <1>1 DEF SelectUser
  <2>2. i \in 1..Len(users) /\ users[i].name = n
    BY <2>1, LenProperties DEF RowsOf, TypeOK
  <2>3. users[i] \in Users
    BY <2>2, ElementOfSeq DEF TypeOK
  <2>4. QED
    BY <2>1, <2>2, <2>3
<1>2. QED
  BY <1>1 DEF SelectUser

\* The shape of the table after the one statement of main, and after an INSERT.
LEMMA EnsureAdminIs ==
  ASSUME TypeOK, EnsureAdmin
  PROVE  /\ users' \in Seq(Users)
         /\ \/ /\ RowsOf(Admin) # {} /\ DOMAIN users' = DOMAIN users
               /\ \A i \in DOMAIN users :
                    /\ users'[i].name = users[i].name /\ users'[i].hash = users[i].hash
                    /\ users'[i].role = IF users[i].name = Admin THEN "admin" ELSE users[i].role
            \/ /\ RowsOf(Admin) = {}
               /\ \E u \in Users : u.name = Admin /\ u.role = "admin" /\ users' = Append(users, u)
<1>1. \A i \in DOMAIN users : users[i] \in Users
  BY LenProperties, ElementOfSeq DEF TypeOK
<1>2. CASE RowsOf(Admin) # {}
  <2>1. users' = [i \in DOMAIN users |->
          IF users[i].name = Admin THEN [users[i] EXCEPT !.role = "admin"] ELSE users[i]]
    BY <1>2 DEF EnsureAdmin
  <2>2. \A i \in DOMAIN users : users'[i] \in Users
    BY <1>1, <2>1 DEF Users
  <2>3. DOMAIN users = 1..Len(users) /\ Len(users) \in Nat
    BY LenProperties DEF TypeOK
  <2>4. users' \in [1..Len(users) -> Users]
    BY <2>1, <2>2, <2>3
  <2>5. users' \in Seq(Users)
    BY <2>3, <2>4, SeqDef
  <2>6. \A i \in DOMAIN users :
          /\ users'[i].name = users[i].name /\ users'[i].hash = users[i].hash
          /\ users'[i].role = IF users[i].name = Admin THEN "admin" ELSE users[i].role
    BY <1>1, <2>1 DEF Users
  <2>7. QED
    BY <1>2, <2>1, <2>5, <2>6
<1>3. CASE RowsOf(Admin) = {}
  <2>1. PICK s \in NewSalt : users' = Append(users,
          [name |-> Admin, hash |-> [pass |-> AdminPassword, salt |-> s], role |-> "admin"])
    BY <1>3 DEF EnsureAdmin
  <2>2. [name |-> Admin, hash |-> [pass |-> AdminPassword, salt |-> s], role |-> "admin"] \in Users
    BY AccountsAssumption DEF Users, Hashes, NewSalt
  <2>3. QED
    BY <1>3, <2>1, <2>2 DEF TypeOK
<1>4. QED
  BY <1>2, <1>3

\* What the INSERT of a registration changes: a row at most, and the connection.
LEMMA InsertIs ==
  ASSUME TypeOK, NEW w \in Workers, Insert(w)
  PROVE  /\ NewUser(w) \in Users
         /\ \/ users' = users
            \/ req[w].op = "register" /\ NameFree(req[w].name) /\ users' = Append(users, NewUser(w))
         /\ UNCHANGED <<main, buffer, spoilt, waiting, lost, shaken>> /\ up' \in {up, FALSE}
         /\ \/ /\ Goto(w, "insert", "insertRes") /\ UNCHANGED <<req, row, hash, found>>
               /\ req[w].op = "register" /\ ~shaken => users' = Append(users, NewUser(w))
            \/ Close(w, "insert")
<1>1. NewUser(w) \in Users
  BY DEF NewUser, Users, TypeOK, Requests
<1>2. QED
  BY <1>1 DEF Insert, Inserted, NotInserted, SendWrite, SendFails, SendBreaks, connVars

\* A SELECT is sent, or the handler answers with an error.
LEMMA LookIs ==
  ASSUME TypeOK, NEW w \in Workers, Look(w)
  PROVE  /\ UNCHANGED <<users, main, buffer, spoilt, lost, shaken>>
         /\ \/ /\ Goto(w, "look", "lookRes") /\ UNCHANGED <<req, row, hash, up>> /\ Ready
               /\ \E r \in Results :
                    /\ req[w].op # "read" => r = SelectUser(req[w].name)
                    /\ waiting' = IF shaken THEN Nothing ELSE [of |-> w, row |-> r]
                    /\ found' = [found EXCEPT ![w] = IF shaken THEN NoRow ELSE r]
            \/ Close(w, "look") /\ waiting' = waiting /\ up' \in {up, FALSE}
<1>1. CASE Close(w, "look") /\ (SendFails \/ SendBreaks)
  BY <1>1 DEF Look, SendFails, SendBreaks, connVars
<1>2. CASE /\ Goto(w, "look", "lookRes")
           /\ LET r == IF req[w].op = "read" THEN OtherRow ELSE SelectUser(req[w].name) IN
                SendSelect(w, r) /\ found' = [found EXCEPT ![w] = IF shaken THEN NoRow ELSE r]
           /\ UNCHANGED <<req, row, hash>>
  <2> DEFINE r == IF req[w].op = "read" THEN OtherRow ELSE SelectUser(req[w].name)
  <2>1. r \in Results
    BY SelectIsTyped DEF TypeOK, Requests, Results
  <2>2. SendSelect(w, r) /\ found' = [found EXCEPT ![w] = IF shaken THEN NoRow ELSE r]
    BY <1>2
  <2>3. req[w].op # "read" => r = SelectUser(req[w].name)
    OBVIOUS
  <2> HIDE DEF r
  <2>4. QED
    BY <1>2, <2>1, <2>2, <2>3 DEF Look, SendSelect, CanSend
<1>3. QED
  BY <1>1, <1>2 DEF Look

\* What a handler that ends leaves behind has its type.
LEMMA CloseIsTyped ==
  ASSUME TypeOK, NEW w \in Workers, NEW from, Close(w, from)
  PROVE  /\ pc' \in [Workers -> Steps] /\ req' \in [Workers -> Requests]
         /\ row' \in [Workers -> Results] /\ found' \in [Workers -> Results]
         /\ hash' \in [Workers -> Hashes]
<1>1. NoRequest \in Requests
  BY AccountsAssumption DEF NoRequest, Requests, Ops
<1>2. QED
  BY <1>1 DEF Close, Goto, TypeOK, Steps, Answered, Results, Hashes

\* What mysql_store_result returns, and leaves.
LEMMA StoredIsTyped ==
  ASSUME TypeOK, NEW w \in Workers, StoreResult(w)
  PROVE  /\ Stored(AnyRow) \subseteq Results
         /\ waiting' = Nothing /\ up' = up /\ shaken' = shaken /\ lost' \subseteq Workers
         /\ lost' = lost \/ (waiting # Nothing /\ waiting.of \in Workers
                              /\ lost' = lost \cup {waiting.of} /\ ~(up /\ waiting.of = w))
<1>1. waiting # Nothing => waiting.of \in Workers /\ waiting.row \in Results
  BY DEF TypeOK, ConnTypeOK
<1>2. AnyRow \subseteq Results
  <2>1. \A i \in DOMAIN users : users[i] \in Users
    BY LenProperties, ElementOfSeq DEF TypeOK
  <2>2. QED
    BY <2>1 DEF AnyRow, Results
<1>3. Stored(AnyRow) \subseteq Results
  BY <1>1, <1>2 DEF Stored, Nothing, Results
<1>4. QED
  BY <1>1, <1>3 DEF StoreResult, Ready, TypeOK, ConnTypeOK

\* What crypt() may leave in the buffer is a hash; a registration's own is of its password.
LEMMA CryptedIsTyped ==
  ASSUME TypeInv, NEW w \in Workers, pc[w] = "crypting"
  PROVE  /\ Crypted(w) \subseteq Hashes
         /\ req[w].op = "register" =>
              \A h \in Crypted(w) : h # Garbage /\ h.pass = req[w].pass
         /\ req[w].op = "login" /\ row[w] # OtherRow => row[w] \in Users
         /\ req[w].op = "login" /\ row[w] # OtherRow /\ row[w].hash = Garbage =>
              Crypted(w) = {Garbage}
         /\ req[w].op = "login" /\ row[w] # OtherRow /\ row[w].hash # Garbage =>
              Crypted(w) = {[row[w].hash EXCEPT !.pass = req[w].pass]}
<1>1. req[w].op \in {"register", "login"} /\ req[w].pass \in Passwords
  BY DEF TypeInv, TypeOK, OpFits, Requests
<1>2. CASE req[w].op = "register"
  <2>1. Crypted(w) = [pass : {req[w].pass}, salt : NewSalt]
    BY <1>2 DEF Crypted
  <2>2. \A h \in Crypted(w) : h \in [pass : Passwords, salt : Salts] /\ h.pass = req[w].pass
    BY <1>1, <2>1 DEF NewSalt
  <2>3. QED
    BY <1>2, <2>2, AccountsAssumption DEF Hashes
<1>3. CASE req[w].op = "login"
  <2>1. row[w] # OtherRow => row[w] \in Users
    BY <1>3 DEF TypeInv, TypeOK, OpFits, Results
  <2>2. CASE row[w] = OtherRow \/ row[w].hash = Garbage
    <3>1. Crypted(w) = {Garbage}
      BY <1>3, <2>2 DEF Crypted
    <3>2. QED
      BY <1>3, <2>1, <2>2, <3>1 DEF Hashes
  <2>3. CASE row[w] # OtherRow /\ row[w].hash # Garbage
    <3>1. Crypted(w) = {[row[w].hash EXCEPT !.pass = req[w].pass]}
      BY <1>3, <2>3 DEF Crypted
    <3>2. row[w].hash \in [pass : Passwords, salt : Salts]
      BY <2>1, <2>3 DEF Users, Hashes
    <3>3. [row[w].hash EXCEPT !.pass = req[w].pass] \in Hashes
      BY <1>1, <3>2 DEF Hashes
    <3>4. QED
      BY <1>3, <2>1, <2>3, <3>1, <3>3
  <2>4. QED
    BY <2>2, <2>3
<1>4. QED
  BY <1>1, <1>2, <1>3

\* Types, and what a step of a handler implies of its request.
LEMMA TypeInvariant == Spec => []TypeInv
<1>1. Init => TypeInv
  <2> SUFFICES ASSUME Init PROVE TypeInv
    OBVIOUS
  <2>1. NoRequest \in Requests
    BY AccountsAssumption DEF NoRequest, Requests, Ops
  <2>2. users \in Seq(Users)
    <3>1. CASE users = <<>>
      BY <3>1
    <3>2. ASSUME NEW p \in Passwords, NEW s \in Salts,
                 users = <<[name |-> Admin, hash |-> [pass |-> p, salt |-> s], role |-> "user"]>>
          PROVE  users \in Seq(Users)
      <4>1. [name |-> Admin, hash |-> [pass |-> p, salt |-> s], role |-> "user"] \in Users
        BY AccountsAssumption DEF Users, Hashes
      <4>2. QED
        BY <3>2, <4>1
    <3>3. QED
      BY <3>1, <3>2 DEF Init
  <2>3. QED
    BY <2>1, <2>2 DEF Init, ConnInit, TypeInv, TypeOK, ConnTypeOK, OpFits, Waits, Free, NoRequests,
      NoRows, NoHashes, NoRequest, Answered, Results, Hashes
<1>2. TypeInv /\ [Next]_vars => TypeInv'
  <2> SUFFICES ASSUME TypeInv, [Next]_vars PROVE TypeInv'
    OBVIOUS
  <2>1. CASE StartServer
    BY <2>1, EnsureAdminIs DEF StartServer, TypeInv, TypeOK, ConnTypeOK, OpFits, Waits, local
  <2>2. CASE Crash
    <3>1. NoRequest \in Requests
      BY AccountsAssumption DEF NoRequest, Requests, Ops
    <3>2. TypeOK'
      BY <2>2, <3>1 DEF Crash, NewHandle, TypeInv, TypeOK, ConnTypeOK, Free, NoRequests, NoRows, NoHashes,
        Answered, Results, Hashes
    <3>3. QED
      BY <2>2, <3>2 DEF Crash, TypeInv, OpFits, Waits, Free
  <2>3. CASE LoseConnection
    BY <2>3 DEF LoseConnection, Drop, TypeInv, TypeOK, ConnTypeOK, OpFits, Waits, local
  <2>16. CASE CallsOverlap
    BY <2>16 DEF CallsOverlap, Overlap, NoRows, TypeInv, TypeOK, ConnTypeOK, OpFits, Waits, Results
  <2>4. ASSUME NEW w \in Workers, Arrive(w) PROVE TypeInv'
    <3>1. PICK r \in Requests :
            /\ req' = [req EXCEPT ![w] = r]
            /\ pc' = [pc EXCEPT ![w] = IF r.op = "write" THEN "insert" ELSE "look"]
      BY <2>4 DEF Arrive
    <3>2. TypeOK'
      BY <2>4, <3>1 DEF Arrive, TypeInv, TypeOK, ConnTypeOK, Results, Hashes
    <3>3. QED
      BY <2>4, <3>1, <3>2 DEF Arrive, TypeInv, TypeOK, OpFits, Waits
  <2>5. ASSUME NEW w \in Workers, NEW from, Close(w, from), UNCHANGED main, main = "serve",
               users' \in Seq(Users), buffer' \in Hashes, spoilt' \subseteq Workers,
               ConnTypeOK(Results)'
        PROVE  TypeInv'
    <3>1. TypeOK'
      BY <2>5, CloseIsTyped DEF TypeInv, TypeOK, Steps
    <3>2. OpFits'
      BY <2>5 DEF Close, Goto, TypeInv, TypeOK, OpFits
    <3>3. QED
      BY <2>5, <3>1, <3>2 DEF TypeInv, Waits
  <2>6. ASSUME NEW w \in Workers, Handle(w) PROVE main = "serve" /\ UNCHANGED main
    BY <2>6 DEF Handle, Look, TakeRow, BeginCrypt, EndCrypt, CopyHash, Insert, DropResult, Goto,
      Close, TypeInv, TypeOK, Waits, Free
  <2>7. ASSUME NEW w \in Workers, Look(w) PROVE TypeInv'
    <3>1. ConnTypeOK(Results)' /\ users' = users /\ buffer' = buffer /\ spoilt' = spoilt
      <4>1. up' \in BOOLEAN /\ shaken' \in BOOLEAN /\ lost' \subseteq Workers
        BY <2>7, LookIs DEF TypeInv, TypeOK, ConnTypeOK
      <4>2. waiting' \in {waiting, Nothing} \/ \E r \in Results : waiting' = [of |-> w, row |-> r]
        BY <2>7, LookIs DEF TypeInv
      <4>3. waiting \in [of : Workers, row : Results] \cup {Nothing}
        BY DEF TypeInv, TypeOK, ConnTypeOK
      <4>4. waiting' \in [of : Workers, row : Results] \cup {Nothing}
        BY <4>2, <4>3
      <4>5. QED
        BY <2>7, <4>1, <4>4, LookIs DEF TypeInv, TypeOK, ConnTypeOK
    <3>2. CASE Close(w, "look")
      BY <2>5, <2>6, <2>7, <3>1, <3>2 DEF Handle, TypeInv, TypeOK
    <3>3. CASE Goto(w, "look", "lookRes") /\ UNCHANGED <<req, row, hash>>
      <4>1. found' \in [Workers -> Results]
        <5>1. \E r \in Results : found' = [found EXCEPT ![w] = r]
          BY <2>7, <3>3, LookIs DEF Close, TypeInv, Results
        <5>2. QED
          BY <5>1 DEF TypeInv, TypeOK
      <4>2. QED
        BY <2>6, <2>7, <3>1, <3>3, <4>1 DEF Handle, Goto, TypeInv, TypeOK, OpFits, Waits
    <3>4. QED
      BY <2>7, <3>2, <3>3 DEF Look
  <2>8. ASSUME NEW w \in Workers, TakeRow(w) PROVE TypeInv'
    <3>1. ConnTypeOK(Results)' /\ users' = users /\ buffer' = buffer /\ spoilt' = spoilt
          /\ Stored(AnyRow) \subseteq Results
      BY <2>8, StoredIsTyped DEF TakeRow, TypeInv, TypeOK, ConnTypeOK
    <3>2. CASE Close(w, "lookRes")
      BY <2>5, <2>6, <2>8, <3>1, <3>2 DEF Handle, TypeInv, TypeOK
    <3>3. ASSUME NEW r \in Stored(AnyRow),
                 (req[w].op = "register" /\ r = NoRow) \/ req[w].op = "login",
                 Goto(w, "lookRes", IF req[w].op = "login" /\ r = NoRow THEN "wrong" ELSE "crypt"),
                 row' = [row EXCEPT ![w] = r], UNCHANGED <<req, hash, found>>
          PROVE  TypeInv'
      <4>1. TypeOK'
        BY <3>1, <3>3, <2>6, <2>8 DEF Handle, Goto, TypeInv, TypeOK, Answered
      <4>2. OpFits'
        BY <3>3 DEF Goto, TypeInv, TypeOK, OpFits
      <4>3. QED
        BY <2>6, <2>8, <4>1, <4>2 DEF Handle, TypeInv, Waits
    <3>4. QED
      BY <2>8, <3>2, <3>3 DEF TakeRow
  <2>9. ASSUME NEW w \in Workers, BeginCrypt(w) PROVE TypeInv'
    <3>1. spoilt' \subseteq Workers
      BY <2>9 DEF BeginCrypt, Inside, TypeInv, TypeOK
    <3>2. QED
      BY <2>9, <2>6, <3>1 DEF Handle, BeginCrypt, Goto, TypeInv, TypeOK, ConnTypeOK, OpFits, Waits,
        connVars
  <2>10. ASSUME NEW w \in Workers, EndCrypt(w) PROVE TypeInv'
    <3>1. buffer' \in Hashes
      BY <2>10, CryptedIsTyped DEF EndCrypt, Goto, Hashes
    <3>2. QED
      BY <2>10, <2>6, <3>1 DEF Handle, EndCrypt, Goto, TypeInv, TypeOK, ConnTypeOK, OpFits, Waits,
        connVars
  <2>11. ASSUME NEW w \in Workers, CopyHash(w) PROVE TypeInv'
    <3>1. hash' \in [Workers -> Hashes]
      BY <2>11 DEF CopyHash, TypeInv, TypeOK, Hashes
    <3>2. \/ req[w].op = "register" /\ pc' = [pc EXCEPT ![w] = "insert"]
          \/ req[w].op = "login" /\ \E to \in {"open", "wrong"} : pc' = [pc EXCEPT ![w] = to]
      BY <2>11 DEF CopyHash, Goto
    <3>3. /\ row' = [row EXCEPT ![w] = NoRow]
          /\ UNCHANGED <<users, main, req, buffer, found, spoilt, up, waiting, shaken, lost>>
      BY <2>11 DEF CopyHash, connVars
    <3>4. TypeOK'
      BY <3>1, <3>2, <3>3 DEF TypeInv, TypeOK, ConnTypeOK, Answered, Results
    <3>5. QED
      BY <2>6, <2>11, <3>2, <3>3, <3>4 DEF Handle, TypeInv, TypeOK, OpFits, Waits
  <2>12. ASSUME NEW w \in Workers, Insert(w) PROVE TypeInv'
    <3>1. ConnTypeOK(Results)' /\ users' \in Seq(Users) /\ buffer' = buffer /\ spoilt' = spoilt
      <4>1. users' \in Seq(Users)
        <5>1. NewUser(w) \in Users /\ users' \in {users, Append(users, NewUser(w))}
          BY <2>12, InsertIs DEF TypeInv
        <5>2. users \in Seq(Users)
          BY DEF TypeInv, TypeOK
        <5>3. QED
          BY <5>1, <5>2, AppendProperties
      <4>2. QED
        BY <2>12, <4>1, InsertIs DEF TypeInv, TypeOK, ConnTypeOK
    <3>2. CASE Close(w, "insert")
      BY <2>5, <2>6, <2>12, <3>1, <3>2 DEF Handle, TypeInv, TypeOK
    <3>3. CASE Goto(w, "insert", "insertRes") /\ UNCHANGED <<req, row, hash, found>>
      BY <2>6, <2>12, <3>1, <3>3 DEF Handle, Goto, TypeInv, TypeOK, OpFits, Waits
    <3>4. QED
      BY <2>12, <3>2, <3>3, InsertIs DEF TypeInv
  <2>13. ASSUME NEW w \in Workers, DropResult(w) PROVE TypeInv'
    <3>1. ConnTypeOK(Results)' /\ users' = users /\ buffer' = buffer /\ spoilt' = spoilt
      BY <2>13, StoredIsTyped DEF DropResult, TypeInv, TypeOK, ConnTypeOK
    <3>2. CASE Close(w, "insertRes")
      BY <2>5, <2>6, <2>13, <3>1, <3>2 DEF Handle, TypeInv, TypeOK
    <3>3. CASE /\ req[w].op = "register" /\ Goto(w, "insertRes", "registered")
               /\ hash' = [hash EXCEPT ![w] = Garbage] /\ UNCHANGED <<req, row, found>>
      BY <2>6, <2>13, <3>1, <3>3 DEF Handle, Goto, TypeInv, TypeOK, OpFits, Waits, Answered,
        Hashes
    <3>4. QED
      BY <2>13, <3>2, <3>3 DEF DropResult
  <2>14. CASE UNCHANGED vars
    BY <2>14 DEF vars, connVars, TypeInv, TypeOK, ConnTypeOK, OpFits, Waits
  <2>15. QED
    BY <2>1, <2>2, <2>3, <2>4, <2>7, <2>8, <2>9, <2>10, <2>11, <2>12, <2>13, <2>14, <2>16
      DEF Next, Handle
<1>3. QED
  BY <1>1, <1>2, PTL DEF Spec

\* Every variable of Accounts and Connection keeps its type (db.cc 10-71, server.cc
\* 116-225, auth.cc 21-32).
THEOREM TypeCorrect == Spec => []TypeOK
<1>1. TypeInv => TypeOK
  BY DEF TypeInv
<1>2. QED
  BY <1>1, TypeInvariant, PTL

-----------------------------------------------------------------------------
\* The table: what EnsureAdmin and Insert do to names and roles.
TableInv == NameOnce /\ AdminThere

\* The table with one row more.
LEMMA AppendIs ==
  ASSUME TypeOK, NEW u \in Users
  PROVE  /\ DOMAIN Append(users, u) = DOMAIN users \cup {Len(users) + 1}
         /\ Len(users) + 1 \notin DOMAIN users
         /\ \A i \in DOMAIN users : Append(users, u)[i] = users[i]
         /\ Append(users, u)[Len(users) + 1] = u
<1>1. users \in Seq(Users) /\ DOMAIN users = 1..Len(users) /\ Len(users) \in Nat
  BY LenProperties DEF TypeOK
<1>2. Append(users, u) \in Seq(Users) /\ Len(Append(users, u)) = Len(users) + 1
      /\ (\A i \in 1..Len(users) : Append(users, u)[i] = users[i])
      /\ Append(users, u)[Len(users) + 1] = u
  BY <1>1, AppendProperties
<1>3. DOMAIN Append(users, u) = 1..(Len(users) + 1)
  BY <1>2, LenProperties
<1>4. QED
  BY <1>1, <1>2, <1>3

\* A name has one row, and admin is the administrator.
LEMMA TableInvariant == Spec => []TableInv
<1>1. Init => TableInv
  <2> SUFFICES ASSUME Init PROVE TableInv
    OBVIOUS
  <2>1. main = "start"
    BY DEF Init
  <2>2. CASE users = <<>>
    BY <2>1, <2>2 DEF TableInv, NameOnce, AdminThere
  <2>3. ASSUME NEW p \in Passwords, NEW s \in Salts,
               users = <<[name |-> Admin, hash |-> [pass |-> p, salt |-> s], role |-> "user"]>>
        PROVE  TableInv
    <3>1. DOMAIN users = {1} /\ users[1].role = "user"
      BY <2>3
    <3>2. QED
      BY <2>1, <3>1 DEF TableInv, NameOnce, AdminThere
  <2>4. QED
    BY <2>2, <2>3 DEF Init
<1>2. TypeInv /\ TableInv /\ [Next]_vars => TableInv'
  <2> SUFFICES ASSUME TypeInv, TableInv, [Next]_vars PROVE TableInv'
    OBVIOUS
  <2>1. CASE StartServer
    <3>1. CASE /\ RowsOf(Admin) # {} /\ DOMAIN users' = DOMAIN users
               /\ \A i \in DOMAIN users :
                    /\ users'[i].name = users[i].name /\ users'[i].hash = users[i].hash
                    /\ users'[i].role = IF users[i].name = Admin THEN "admin" ELSE users[i].role
      BY <3>1 DEF TableInv, NameOnce, AdminThere, RowsOf
    <3>2. ASSUME RowsOf(Admin) = {}, NEW u \in Users, u.name = Admin, u.role = "admin",
                 users' = Append(users, u)
          PROVE  TableInv'
      BY <3>2, AppendIs DEF TypeInv, TableInv, NameOnce, AdminThere, RowsOf
    <3>3. QED
      BY <2>1, <3>1, <3>2, EnsureAdminIs DEF StartServer, TypeInv
  <2>2. ASSUME NEW w \in Workers, Insert(w) PROVE TableInv'
    <3>1. main' = main
      BY <2>2, InsertIs DEF TypeInv
    <3>2. CASE users' = users
      BY <3>1, <3>2 DEF TableInv, NameOnce, AdminThere, RowsOf
    <3>3. CASE NameFree(req[w].name) /\ users' = Append(users, NewUser(w))
      <4>1. NewUser(w).name = req[w].name /\ NewUser(w).role = "user"
        BY DEF NewUser
      <4>2. QED
        BY <2>2, <3>1, <3>3, <4>1, AppendIs, InsertIs
          DEF TypeInv, TableInv, NameOnce, AdminThere, RowsOf, NameFree
    <3>4. QED
      BY <2>2, <3>2, <3>3, InsertIs DEF TypeInv
  <2>3. CASE users' = users /\ (main' = main \/ main' = "start")
    BY <2>3 DEF TableInv, NameOnce, AdminThere, RowsOf
  <2>4. QED
    <3>1. ASSUME NEW w \in Workers, Arrive(w) \/ (Handle(w) /\ ~Insert(w))
          PROVE users' = users /\ main' = main
      BY <3>1, LookIs DEF TypeInv, Arrive, Handle, TakeRow, BeginCrypt, EndCrypt, CopyHash,
            DropResult
    <3>2. Crash \/ LoseConnection \/ CallsOverlap \/ UNCHANGED vars =>
            users' = users /\ (main' = main \/ main' = "start")
      BY DEF Crash, LoseConnection, CallsOverlap, vars
    <3>3. QED
      BY <2>1, <2>2, <2>3, <3>1, <3>2 DEF Next
<1>3. QED
  BY <1>1, <1>2, TypeInvariant, PTL DEF Spec

\* No two users have one name: two registrations that both find a name free are told
\* apart by the UNIQUE key, and a lost result changes nothing (server.cc 204-214).
THEOREM NamesAreOnce == Spec => []NameOnce
<1>1. TableInv => NameOnce
  BY DEF TableInv
<1>2. QED
  BY <1>1, TableInvariant, PTL

\* While the server listens there is an administrator, whose name is "admin", and
\* nobody else is one (server.cc 116-125, 213-214).
THEOREM AdminIsThere == Spec => []AdminThere
<1>1. TableInv => AdminThere
  BY DEF TableInv
<1>2. QED
  BY <1>1, TableInvariant, PTL

-----------------------------------------------------------------------------
\* A handler leaves the others' locals alone, and forgets of nobody else what has
\* been lost or spoilt.
LEMMA Frame ==
  ASSUME TypeInv, NEW w \in Workers, NEW v \in Workers \ {w}, Arrive(w) \/ Handle(w)
  PROVE  /\ pc'[v] = pc[v] /\ req'[v] = req[v] /\ row'[v] = row[v]
         /\ hash'[v] = hash[v] /\ found'[v] = found[v]
         /\ v \in spoilt => v \in spoilt'
         /\ v \in lost => v \in lost'
         /\ shaken' = shaken
<1>10. TypeOK
  BY DEF TypeInv
<1>1. CASE Arrive(w)
  BY <1>1, <1>10 DEF Arrive, TypeOK
<1>2. CASE Look(w)
  <2>1. /\ UNCHANGED <<spoilt, lost, shaken>>
        /\ \/ pc' = [pc EXCEPT ![w] = "lookRes"] /\ UNCHANGED <<req, row, hash>>
              /\ \E r \in Results : found' = [found EXCEPT ![w] = r]
           \/ Close(w, "look")
    BY <1>2, <1>10, LookIs DEF Goto, Results
  <2>2. QED
    BY <1>10, <2>1 DEF TypeOK, Close, Goto
<1>0. StoreResult(w) => lost \subseteq lost' /\ shaken' = shaken
  BY DEF StoreResult
<1>3. CASE TakeRow(w)
  <2>1. /\ pc'[v] = pc[v] /\ req'[v] = req[v] /\ row'[v] = row[v]
        /\ hash'[v] = hash[v] /\ found'[v] = found[v]
    BY <1>3, <1>10 DEF TakeRow, Close, Goto, TypeOK
  <2>2. QED
    BY <1>0, <1>3, <2>1 DEF TakeRow
<1>4. CASE BeginCrypt(w) \/ EndCrypt(w) \/ CopyHash(w)
  BY <1>4, <1>10 DEF BeginCrypt, EndCrypt, CopyHash, connVars, Goto, TypeOK
<1>5. CASE Insert(w)
  <2>1. /\ UNCHANGED <<spoilt, lost, shaken>>
        /\ \/ pc' = [pc EXCEPT ![w] = "insertRes"] /\ UNCHANGED <<req, row, hash, found>>
           \/ Close(w, "insert")
    BY <1>5, <1>10, InsertIs DEF Goto
  <2>2. QED
    BY <1>10, <2>1 DEF TypeOK, Close, Goto
<1>6. CASE DropResult(w)
  <2>1. /\ pc'[v] = pc[v] /\ req'[v] = req[v] /\ row'[v] = row[v]
        /\ hash'[v] = hash[v] /\ found'[v] = found[v]
    BY <1>6, <1>10 DEF DropResult, Close, Goto, TypeOK
  <2>2. QED
    BY <1>0, <1>6, <2>1 DEF DropResult
<1>7. QED
  BY <1>1, <1>2, <1>3, <1>4, <1>5, <1>6 DEF Handle

\* Until calls overlap, the result that waits is that of a handler that is about to
\* store it, and of every such handler whose result was not lost.
ResultAwaited ==
  waiting # Nothing => pc[waiting.of] = "lookRes" /\ found[waiting.of] = waiting.row
Mine == ~shaken => \A w \in Workers : pc[w] = "lookRes" /\ w \notin lost => waiting.of = w
ConnInv == ResultAwaited /\ Mine /\ (shaken => waiting = Nothing)

\* mysql_store_result puts the handle back in order, and what it takes from another
\* handler is lost.
LEMMA StoreKeeps ==
  ASSUME TypeInv, ConnInv, NEW w \in Workers, Arrive(w) \/ Handle(w), StoreResult(w),
         pc'[w] # "lookRes"
  PROVE  ConnInv'
<1>1. waiting' = Nothing
  BY DEF StoreResult
<1>2. ASSUME ~shaken, NEW v \in Workers, pc'[v] = "lookRes", v \notin lost' PROVE FALSE
  <2>1. v # w /\ pc[v] = "lookRes" /\ v \notin lost
    BY <1>2, Frame
  <2>2. waiting.of = v
    BY <1>2, <2>1 DEF ConnInv, Mine
  <2>3. ~Ready /\ waiting.of # w
    BY <2>1, <2>2, AccountsAssumption DEF Ready, Nothing
  <2>4. QED
    BY <1>2, <2>2, <2>3 DEF StoreResult
<1>3. shaken' = shaken
  BY DEF StoreResult
<1>4. QED
  BY <1>1, <1>2, <1>3 DEF ConnInv, ResultAwaited, Mine

\* A waiting result belongs to a handler about to store it.
LEMMA ConnInvariant == Spec => []ConnInv
<1>1. Init => ConnInv
  BY DEF Init, ConnInit, Free, ConnInv, ResultAwaited, Mine
<1>2. TypeInv /\ ConnInv /\ [Next]_vars => ConnInv'
  <2> SUFFICES ASSUME TypeInv, ConnInv, [Next]_vars PROVE ConnInv'
    OBVIOUS
  <2>1. CASE Crash
    BY <2>1 DEF Crash, NewHandle, Free, ConnInv, ResultAwaited, Mine
  <2>10. CASE CallsOverlap
    BY <2>10 DEF CallsOverlap, Overlap, ConnInv, ResultAwaited, Mine
  <2>2. CASE UNCHANGED <<pc, found, waiting, lost, shaken>>
    BY <2>2 DEF ConnInv, ResultAwaited, Mine
  <2>3. ASSUME NEW w \in Workers, Arrive(w) \/ Handle(w), pc[w] # "lookRes", pc'[w] # "lookRes",
               waiting' = waiting, lost' \in {lost, lost \ {w}}, shaken' = shaken
        PROVE  ConnInv'
    <3>1. \A v \in Workers \ {w} : pc'[v] = pc[v] /\ found'[v] = found[v]
      BY <2>3, Frame
    <3>2. waiting # Nothing => waiting.of \in Workers \ {w}
      BY <2>3 DEF TypeInv, TypeOK, ConnTypeOK, ConnInv, ResultAwaited
    <3>3. ResultAwaited'
      BY <2>3, <3>1, <3>2 DEF ConnInv, ResultAwaited
    <3>4. Mine'
      BY <2>3, <3>1 DEF ConnInv, Mine
    <3>5. QED
      BY <2>3, <3>3, <3>4 DEF ConnInv
  <2>4. ASSUME NEW w \in Workers, Arrive(w) PROVE ConnInv'
    <3>1. /\ pc[w] # "lookRes" /\ pc'[w] # "lookRes"
          /\ waiting' = waiting /\ lost' = lost \ {w} /\ shaken' = shaken
      BY <2>4 DEF Arrive, Answered, TypeInv, TypeOK
    <3>2. QED
      BY <2>3, <2>4, <3>1
  <2>5. ASSUME NEW w \in Workers, Look(w) PROVE ConnInv'
    <3>1. CASE Close(w, "look") /\ waiting' = waiting
      <4>1. pc[w] # "lookRes" /\ pc'[w] # "lookRes" /\ lost' = lost /\ shaken' = shaken
        BY <2>5, <3>1, LookIs DEF Close, Goto, TypeInv, TypeOK
      <4>2. QED
        BY <2>3, <2>5, <3>1, <4>1 DEF Handle
    <3>2. ASSUME Goto(w, "look", "lookRes"), Ready, lost' = lost, shaken' = shaken,
                 NEW r \in Results,
                 waiting' = IF shaken THEN Nothing ELSE [of |-> w, row |-> r],
                 found' = [found EXCEPT ![w] = IF shaken THEN NoRow ELSE r]
          PROVE  ConnInv'
      <4>0. CASE shaken
        BY <3>2, <4>0 DEF ConnInv, ResultAwaited, Mine
      <4>1. ~shaken => pc'[w] = "lookRes" /\ found'[w] = r
        BY <3>2 DEF Goto, TypeInv, TypeOK
      <4>2. ~shaken => ResultAwaited'
        BY <3>2, <4>1 DEF ResultAwaited
      <4>3. ~shaken => \A v \in Workers \ {w} : pc'[v] = "lookRes" => v \in lost
        <5>1. \A v \in Workers : waiting.of # v
          BY <3>2, AccountsAssumption DEF Ready, Nothing
        <5>2. QED
          BY <5>1, <2>5, Frame DEF Handle, ConnInv, Mine
      <4>4. ~shaken => Mine'
        BY <3>2, <4>3 DEF Mine
      <4>5. QED
        BY <3>2, <4>0, <4>2, <4>4 DEF ConnInv
    <3>3. QED
      BY <2>5, <3>1, <3>2, LookIs DEF TypeInv
  <2>6. ASSUME NEW w \in Workers, TakeRow(w) \/ DropResult(w) PROVE ConnInv'
    <3>1. StoreResult(w) /\ pc'[w] # "lookRes"
      BY <2>6 DEF TakeRow, DropResult, Close, Goto, TypeInv, TypeOK
    <3>2. QED
      BY <2>6, <3>1, StoreKeeps DEF Handle
  <2>7. ASSUME NEW w \in Workers, BeginCrypt(w) \/ EndCrypt(w) \/ CopyHash(w) \/ Insert(w)
        PROVE  ConnInv'
    <3>1. pc[w] # "lookRes" /\ pc'[w] # "lookRes"
      BY <2>7, InsertIs DEF BeginCrypt, EndCrypt, CopyHash, Close, Goto, TypeInv, TypeOK
    <3>2. waiting' = waiting /\ lost' = lost /\ shaken' = shaken
      BY <2>7, InsertIs DEF BeginCrypt, EndCrypt, CopyHash, connVars, TypeInv
    <3>3. QED
      BY <2>3, <2>7, <3>1, <3>2 DEF Handle
  <2>8. StartServer \/ LoseConnection \/ UNCHANGED vars =>
          UNCHANGED <<pc, found, waiting, lost, shaken>>
    BY DEF StartServer, LoseConnection, Drop, local, connVars, vars
  <2>9. QED
    BY <2>1, <2>2, <2>4, <2>5, <2>6, <2>7, <2>8, <2>10 DEF Next, Handle
<1>3. QED
  BY <1>1, <1>2, TypeInvariant, PTL DEF Spec

-----------------------------------------------------------------------------
\* Two calls of crypt() that are under way at once have spoilt each other.
Overlapped ==
  \A v, w \in Workers : v # w /\ {pc[v], pc[w]} \subseteq {"crypting", "copy"} => w \in spoilt

IsOf(h, pass) == h # Garbage /\ h.pass = pass
HasRow(w) == \E i \in RowsOf(req[w].name) : w \notin spoilt => IsOf(users[i].hash, req[w].pass)

\* What an unspoilt registration has at each of its calls...
Registers(w) ==
  req[w].op = "register" =>
    /\ pc[w] = "copy" /\ w \notin spoilt => IsOf(buffer, req[w].pass)
    /\ pc[w] = "insert" /\ w \notin spoilt => IsOf(hash[w], req[w].pass)
    /\ pc[w] \in {"insertRes", "registered"} => HasRow(w)

\* ... and a login.
LooksUp(w) == pc[w] \in {"lookRes", "crypt", "crypting", "copy", "open", "wrong"}
Opens(w) == found[w] # NoRow /\ IsOf(found[w].hash, req[w].pass)

LogsIn(w) ==
  req[w].op = "login" =>
    /\ LooksUp(w) /\ found[w] # NoRow => found[w] \in Users /\ found[w].name = req[w].name
    /\ pc[w] \in {"crypt", "crypting", "copy"} /\ w \notin lost => row[w] = found[w]
    /\ pc[w] = "copy" /\ w \notin spoilt /\ row[w] # OtherRow =>
         buffer = IF row[w].hash = Garbage THEN Garbage
                  ELSE [row[w].hash EXCEPT !.pass = req[w].pass]
    /\ pc[w] \in {"open", "wrong"} /\ w \notin lost \cup spoilt => (pc[w] = "open" <=> Opens(w))

AnswerInv == Overlapped /\ (~shaken => \A w \in Workers : Registers(w) /\ LogsIn(w))

\* A row of the table stays, with its name and hash, while the server listens.
LEMMA RowStays ==
  ASSUME TypeInv, NEW w \in Workers, HasRow(w), NEW u \in Users,
         users' = users \/ users' = Append(users, u),
         req'[w] = req[w], w \in spoilt => w \in spoilt'
  PROVE  HasRow(w)'
<1>1. PICK i \in RowsOf(req[w].name) : w \notin spoilt => IsOf(users[i].hash, req[w].pass)
  BY DEF HasRow
<1>2. i \in DOMAIN users' /\ users'[i] = users[i]
  BY AppendIs DEF TypeInv, RowsOf
<1>3. i \in RowsOf(req[w].name)'
  BY <1>1, <1>2 DEF RowsOf
<1>4. QED
  BY <1>1, <1>2, <1>3 DEF HasRow, IsOf

\* The step of one handler keeps what the others have: of the buffer they need
\* nothing that they have not been told is spoilt.
LEMMA OthersKeep ==
  ASSUME TypeInv, AnswerInv, ~shaken, NEW w \in Workers, Arrive(w) \/ Handle(w),
         NEW v \in Workers \ {w}
  PROVE  Registers(v)' /\ LogsIn(v)'
<1>1. /\ pc'[v] = pc[v] /\ req'[v] = req[v] /\ row'[v] = row[v]
      /\ hash'[v] = hash[v] /\ found'[v] = found[v]
      /\ v \in spoilt => v \in spoilt'
      /\ v \in lost => v \in lost'
  BY Frame
<1>2. pc[v] = "copy" /\ v \notin spoilt => buffer' = buffer
  <2>1. EndCrypt(w) => pc[w] = "crypting"
    BY DEF EndCrypt, Goto
  <2>2. pc[v] = "copy" /\ v \notin spoilt => ~EndCrypt(w)
    BY <2>1 DEF AnswerInv, Overlapped
  <2>3. ~EndCrypt(w) => buffer' = buffer
    BY LookIs, InsertIs DEF Arrive, Handle, TakeRow, BeginCrypt, CopyHash, DropResult, TypeInv
  <2>4. QED
    BY <2>2, <2>3
<1>3. HasRow(v) => HasRow(v)'
  <2>1. \E u \in Users : users' = users \/ users' = Append(users, u)
    <3>1. Insert(w) => NewUser(w) \in Users /\ users' \in {users, Append(users, NewUser(w))}
      BY InsertIs DEF TypeInv
    <3>2. ~Insert(w) => users' = users
      BY LookIs DEF Arrive, Handle, TakeRow, BeginCrypt, EndCrypt, CopyHash, DropResult, TypeInv
    <3>3. Users # {}
      <4>1. [name |-> Admin, hash |-> Garbage, role |-> "user"] \in Users
        BY AccountsAssumption DEF Users, Hashes
      <4>2. QED
        BY <4>1
    <3>4. QED
      BY <3>1, <3>2, <3>3
  <2>2. QED
    BY <1>1, <2>1, RowStays
<1>4. Registers(v) /\ LogsIn(v)
  BY DEF AnswerInv
<1>5. Registers(v)'
  BY <1>1, <1>2, <1>3, <1>4 DEF Registers
<1>6. LogsIn(v)'
  BY <1>1, <1>2, <1>4 DEF LogsIn, LooksUp, Opens
<1>7. QED
  BY <1>5, <1>6

\* The step keeps what the handler itself has.
LEMMA SelfKeeps ==
  ASSUME TypeInv, ConnInv, AnswerInv, ~shaken, NEW w \in Workers, Arrive(w) \/ Handle(w)
  PROVE  Registers(w)' /\ LogsIn(w)'
<1>0. Registers(w) /\ LogsIn(w)
  BY DEF AnswerInv
<1>1. ASSUME pc'[w] \in {"free", "look"} \/ (pc'[w] = "insert" /\ req'[w].op # "register")
      PROVE  Registers(w)' /\ LogsIn(w)'
  BY <1>1 DEF Registers, LogsIn, LooksUp
<1>2. CASE Arrive(w)
  BY <1>1, <1>2 DEF Arrive, TypeInv, TypeOK, Requests
<1>3. ASSUME NEW from, Close(w, from) PROVE Registers(w)' /\ LogsIn(w)'
  BY <1>1, <1>3 DEF Close, Goto, TypeInv, TypeOK
<1>4. CASE Look(w)
  <2>1. ASSUME Goto(w, "look", "lookRes"), req' = req, NEW r \in Results,
               req[w].op # "read" => r = SelectUser(req[w].name),
               found' = [found EXCEPT ![w] = r]
        PROVE  Registers(w)' /\ LogsIn(w)'
    <3>1. pc'[w] = "lookRes" /\ found'[w] = r /\ req[w].name \in Names
      BY <2>1 DEF Goto, TypeInv, TypeOK, Requests
    <3>2. req[w].op = "login" /\ r # NoRow => r \in Users /\ r.name = req[w].name
      BY <2>1, <3>1, SelectIsTyped DEF TypeInv
    <3>3. QED
      BY <2>1, <3>1, <3>2 DEF Registers, LogsIn
  <2>2. QED
    BY <1>3, <1>4, <2>1, LookIs DEF TypeInv
<1>5. CASE TakeRow(w)
  <2>1. w \notin lost' /\ pc[w] = "lookRes" => Stored(AnyRow) = {found[w]}
    <3>1. ASSUME w \notin lost', pc[w] = "lookRes" PROVE Stored(AnyRow) = {found[w]}
      <4>1. w \notin lost
        BY <1>5, <3>1 DEF TakeRow, StoreResult
      <4>2. waiting.of = w
        BY <3>1, <4>1 DEF ConnInv, Mine
      <4>3. ~Ready /\ waiting # Nothing
        BY <4>2, AccountsAssumption DEF Ready, Nothing
      <4>4. up
        BY <1>5, <3>1, <4>2, <4>3 DEF TakeRow, StoreResult
      <4>5. QED
        BY <4>2, <4>3, <4>4 DEF Stored, ConnInv, ResultAwaited
    <3>2. QED
      BY <3>1
  <2>2. ASSUME NEW r \in Stored(AnyRow),
               Goto(w, "lookRes", IF req[w].op = "login" /\ r = NoRow THEN "wrong" ELSE "crypt"),
               row' = [row EXCEPT ![w] = r], UNCHANGED <<req, hash, found>>
        PROVE  Registers(w)' /\ LogsIn(w)'
    <3>1. /\ pc[w] = "lookRes" /\ row'[w] = r
          /\ pc'[w] = IF req[w].op = "login" /\ r = NoRow THEN "wrong" ELSE "crypt"
      BY <2>2 DEF Goto, TypeInv, TypeOK
    <3>2. spoilt' = spoilt
      BY <1>5 DEF TakeRow
    <3>3. QED
      BY <1>0, <2>1, <2>2, <3>1, <3>2 DEF Registers, LogsIn, LooksUp, Opens
  <2>3. QED
    BY <1>3, <1>5, <2>2 DEF TakeRow
<1>6. CASE BeginCrypt(w)
  <2>1. pc[w] = "crypt" /\ pc'[w] = "crypting"
    BY <1>6 DEF BeginCrypt, Goto, TypeInv, TypeOK
  <2>2. UNCHANGED <<req, row, found, lost>>
    BY <1>6 DEF BeginCrypt, connVars
  <2>3. QED
    BY <1>0, <2>1, <2>2 DEF Registers, LogsIn, LooksUp
<1>7. CASE EndCrypt(w)
  <2>1. pc[w] = "crypting" /\ pc'[w] = "copy" /\ UNCHANGED <<req, row, found, spoilt, lost>>
    BY <1>7 DEF EndCrypt, Goto, connVars, TypeInv, TypeOK
  <2>2. w \notin spoilt => buffer' \in Crypted(w)
    BY <1>7 DEF EndCrypt
  <2>3. Registers(w)'
    BY <2>1, <2>2, CryptedIsTyped DEF Registers, IsOf
  <2>4. req[w].op = "login" /\ row[w] # OtherRow /\ w \notin spoilt =>
          buffer' = IF row[w].hash = Garbage THEN Garbage
                    ELSE [row[w].hash EXCEPT !.pass = req[w].pass]
    BY <2>1, <2>2, CryptedIsTyped
  <2>5. LogsIn(w)'
    BY <1>0, <2>1, <2>4 DEF LogsIn, LooksUp
  <2>6. QED
    BY <2>3, <2>5
<1>8. CASE CopyHash(w)
  <2>1. pc[w] = "copy" /\ UNCHANGED <<users, req, buffer, found, spoilt, lost>>
    BY <1>8 DEF CopyHash, Goto, connVars
  <2>2. PICK h \in {buffer} \cup (IF w \in spoilt THEN {Garbage} ELSE {}) :
          \/ req[w].op = "register" /\ pc' = [pc EXCEPT ![w] = "insert"] /\ hash' = [hash EXCEPT ![w] = h]
          \/ req[w].op = "login" /\ pc' = [pc EXCEPT ![w] = IF Verified(w, h) THEN "open" ELSE "wrong"]
    BY <1>8 DEF CopyHash, Goto
  <2>3. CASE req[w].op = "register"
    <3>1. pc'[w] = "insert" /\ hash'[w] = h
      BY <2>2, <2>3 DEF TypeInv, TypeOK
    <3>2. w \notin spoilt => h = buffer
      OBVIOUS
    <3>3. QED
      BY <1>0, <2>1, <2>3, <3>1, <3>2 DEF Registers, LogsIn
  <2>4. CASE req[w].op = "login"
    <3>1. pc'[w] = IF Verified(w, h) THEN "open" ELSE "wrong"
      BY <2>2, <2>4 DEF TypeInv, TypeOK
    <3>2. ASSUME w \notin lost \cup spoilt PROVE Verified(w, h) <=> Opens(w)
      <4>1. h = buffer
        BY <3>2
      <4>2. row[w] = found[w] /\ row[w] # NoRow
        BY <1>0, <2>1, <2>4, <3>2 DEF LogsIn, TypeInv, OpFits
      <4>3. row[w] \in Users /\ row[w] # OtherRow
        BY <1>0, <2>1, <2>4, <4>2, RowsDiffer DEF LogsIn, LooksUp
      <4>4. buffer = IF row[w].hash = Garbage THEN Garbage
                     ELSE [row[w].hash EXCEPT !.pass = req[w].pass]
        BY <1>0, <2>1, <2>4, <3>2, <4>3 DEF LogsIn
      <4>5. CASE row[w].hash = Garbage
        BY <4>1, <4>2, <4>4, <4>5 DEF Verified, Opens, IsOf
      <4>6. CASE row[w].hash # Garbage
        <5>1. row[w].hash \in [pass : Passwords, salt : Salts] /\ req[w].pass \in Passwords
          BY <4>3, <4>6 DEF Users, Hashes, TypeInv, TypeOK, Requests
        <5>2. h = [row[w].hash EXCEPT !.pass = req[w].pass]
          BY <4>1, <4>4, <4>6
        <5>3. h # Garbage /\ h.pass = req[w].pass
          BY <5>1, <5>2, AccountsAssumption
        <5>4. h = row[w].hash <=> row[w].hash.pass = req[w].pass
          BY <5>1, <5>2
        <5>5. QED
          BY <4>2, <4>3, <4>6, <5>3, <5>4 DEF Verified, Opens, IsOf
      <4>7. QED
        BY <4>5, <4>6
    <3>3. QED
      BY <1>0, <2>1, <2>4, <3>1, <3>2 DEF Registers, LogsIn, LooksUp, Opens
  <2>5. QED
    BY <2>2, <2>3, <2>4
<1>9. CASE Insert(w)
  <2>1. ASSUME Goto(w, "insert", "insertRes"), UNCHANGED <<req, row, hash, found, spoilt>>,
               req[w].op = "register" => users' = Append(users, NewUser(w))
        PROVE  Registers(w)' /\ LogsIn(w)'
    <3>1. pc[w] = "insert" /\ pc'[w] = "insertRes" /\ NewUser(w) \in Users
      BY <1>9, <2>1, InsertIs DEF Goto, TypeInv, TypeOK
    <3>2. LogsIn(w)'
      BY <2>1, <3>1 DEF LogsIn, TypeInv, OpFits
    <3>3. ASSUME req[w].op = "register" PROVE HasRow(w)'
      <4>1. Len(users) + 1 \in DOMAIN users' /\ users'[Len(users) + 1] = NewUser(w)
        BY <2>1, <3>1, <3>3, AppendIs DEF TypeInv
      <4>2. Len(users) + 1 \in RowsOf(req[w].name)'
        BY <2>1, <4>1 DEF RowsOf, NewUser
      <4>3. w \notin spoilt => IsOf(NewUser(w).hash, req[w].pass)
        BY <1>0, <3>1, <3>3 DEF Registers, NewUser
      <4>4. QED
        BY <2>1, <4>1, <4>2, <4>3 DEF HasRow
    <3>4. QED
      BY <2>1, <3>1, <3>2, <3>3 DEF Registers
  <2>2. QED
    BY <1>3, <1>9, <2>1, InsertIs DEF TypeInv
<1>10. CASE DropResult(w)
  <2>1. ASSUME req[w].op = "register", Goto(w, "insertRes", "registered"),
               UNCHANGED <<req, row, found, users, spoilt>>
        PROVE  Registers(w)' /\ LogsIn(w)'
    BY <1>0, <2>1 DEF Goto, Registers, LogsIn, HasRow, RowsOf, TypeInv, TypeOK
  <2>2. QED
    BY <1>3, <1>10, <2>1 DEF DropResult
<1>11. QED
  BY <1>2, <1>4, <1>5, <1>6, <1>7, <1>8, <1>9, <1>10 DEF Handle

\* Calls of crypt() that overlap are all spoilt, after a step of a handler too.
LEMMA OverlappedKept ==
  ASSUME TypeInv, AnswerInv, NEW w \in Workers, Arrive(w) \/ Handle(w)
  PROVE  Overlapped'
<1> DEFINE In(v) == pc[v] \in {"crypting", "copy"}
<1>1. \A v \in Workers \ {w} : pc'[v] = pc[v] /\ (v \in spoilt => v \in spoilt')
  BY Frame
<1>2. CASE BeginCrypt(w)
  <2>1. spoilt' = spoilt \cup Inside(w) \cup (IF Inside(w) = {} THEN {} ELSE {w})
    BY <1>2 DEF BeginCrypt
  <2>2. \A v \in Workers \ {w} : In(v) => v \in spoilt' /\ w \in spoilt'
    BY <2>1 DEF Inside
  <2>3. QED
    BY <1>1, <2>2 DEF AnswerInv, Overlapped
<1>3. CASE EndCrypt(w)
  <2>1. In(w) /\ spoilt' = spoilt
    BY <1>3 DEF EndCrypt, Goto
  <2>2. QED
    BY <1>1, <2>1 DEF AnswerInv, Overlapped
<1>4. CASE ~BeginCrypt(w) /\ ~EndCrypt(w)
  <2>1. pc'[w] \notin {"crypting", "copy"}
    <3>1. ASSUME NEW to, pc' = [pc EXCEPT ![w] = to], to \notin {"crypting", "copy"}
          PROVE  pc'[w] \notin {"crypting", "copy"}
      BY <3>1 DEF TypeInv, TypeOK
    <3>2. CASE Arrive(w)
      <4>1. \E to \in {"insert", "look"} : pc' = [pc EXCEPT ![w] = to]
        BY <3>2 DEF Arrive
      <4>2. QED
        BY <3>1, <4>1
    <3>3. CASE Look(w) \/ Insert(w)
      BY <3>3, <3>1, LookIs, InsertIs DEF Goto, Close, TypeInv
    <3>4. CASE TakeRow(w) \/ CopyHash(w) \/ DropResult(w)
      <4>1. \E to \in {"free", "crypt", "insert", "open", "wrong", "registered"} :
               pc' = [pc EXCEPT ![w] = to]
        BY <3>4 DEF TakeRow, CopyHash, DropResult, Goto, Close
      <4>2. QED
        BY <3>1, <4>1
    <3>5. QED
      BY <1>4, <3>2, <3>3, <3>4 DEF Handle
  <2>2. QED
    BY <1>1, <2>1 DEF AnswerInv, Overlapped
<1>5. QED
  BY <1>2, <1>3, <1>4

\* A handler does not tell whether its call overlaps another.
LEMMA ShakenStays ==
  ASSUME TypeInv, NEW w \in Workers, Arrive(w) \/ Handle(w)
  PROVE  shaken' = shaken
BY LookIs, InsertIs DEF Arrive, Handle, TakeRow, DropResult, StoreResult, BeginCrypt, EndCrypt,
  CopyHash, connVars, TypeInv

\* What each handler knows at each of its steps.
LEMMA AnswerInvariant == Spec => []AnswerInv
<1>1. Init => AnswerInv
  BY DEF Init, Free, NoRequests, NoRequest, AnswerInv, Overlapped, Registers, LogsIn
<1>2. TypeInv /\ ConnInv /\ AnswerInv /\ [Next]_vars => AnswerInv'
  <2> SUFFICES ASSUME TypeInv, ConnInv, AnswerInv, [Next]_vars PROVE AnswerInv'
    OBVIOUS
  <2>1. ASSUME NEW w \in Workers, Arrive(w) \/ Handle(w) PROVE AnswerInv'
    BY <2>1, OthersKeep, SelfKeeps, OverlappedKept, ShakenStays DEF AnswerInv
  <2>2. CASE \A w \in Workers : pc'[w] = "free"
    BY <2>2 DEF AnswerInv, Overlapped, Registers, LogsIn, LooksUp
  <2>7. CASE CallsOverlap
    BY <2>7 DEF CallsOverlap, Overlap, AnswerInv, Overlapped
  <2>3. CASE UNCHANGED <<users, pc, req, row, hash, buffer, found, spoilt, lost, shaken>>
    BY <2>3 DEF AnswerInv, Overlapped, Registers, LogsIn, LooksUp, Opens, HasRow, RowsOf
  <2>4. StartServer \/ Crash => \A w \in Workers : pc'[w] = "free"
    BY DEF StartServer, Crash, Free, local, TypeInv, Waits
  <2>5. LoseConnection \/ UNCHANGED vars =>
          UNCHANGED <<users, pc, req, row, hash, buffer, found, spoilt, lost, shaken>>
    BY DEF LoseConnection, Drop, local, connVars, vars
  <2>6. QED
    BY <2>1, <2>2, <2>3, <2>4, <2>5, <2>7 DEF Next
<1>3. QED
  BY <1>1, <1>2, TypeInvariant, ConnInvariant, PTL DEF Spec

\* A registration that is answered with success has put the name into the table, with
\* a hash of its own password unless another crypt() overlapped its own, whatever
\* became of its results, unless calls on the connection have overlapped (server.cc
\* 199-225, auth.cc 21-26, db.cc 30-37).
THEOREM RegistrationIsRight == Spec => []RegisterRight
<1>1. TypeInv /\ AnswerInv => RegisterRight
  BY DEF TypeInv, OpFits, AnswerInv, Registers, HasRow, IsOf, RegisterRight
<1>2. QED
  BY <1>1, TypeInvariant, AnswerInvariant, PTL

\* A login is accepted with the password of the name it gives and refused with any
\* other, unless its result was lost, its crypt() overlapped another, or calls on the
\* connection have overlapped (server.cc 174-197, auth.cc 28-32, db.cc 30-37).
THEOREM LoginIsRight == Spec => []LoginRight
<1>1. TypeInv /\ AnswerInv => LoginRight
  BY DEF TypeInv, OpFits, AnswerInv, LogsIn, LooksUp, Opens, IsOf, LoginRight
<1>2. QED
  BY <1>1, TypeInvariant, AnswerInvariant, PTL

=============================================================================
