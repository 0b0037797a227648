------------------------------- MODULE Accounts -------------------------------
(***************************************************************************)
(* The table of users: the administrator that main sees to, registration   *)
(* and login, over the shared connection (Connection) and the static       *)
(* buffer of crypt().  Other handlers are there for the statements they    *)
(* put on the connection.                                                  *)
(***************************************************************************)
EXTENDS Connection, Sequences

CONSTANTS Names, Admin,             \* of users; "admin"
          Passwords, AdminPassword, \* "admin123"
          Salts,        \* each hash of a new password has one of its own
          Garbage,      \* a hash that overlapping calls of crypt() have spoilt
          OtherRow      \* a row of another table

ASSUME AccountsAssumption ==
  /\ Admin \in Names /\ AdminPassword \in Passwords
  /\ NoRow \notin Workers
  /\ Garbage \notin [pass : Passwords, salt : Salts]

Hashes == [pass : Passwords, salt : Salts] \cup {Garbage}
Users == [name : Names, hash : Hashes, role : {"user", "admin"}]
Results == Users \cup {OtherRow, NoRow}

ASSUME RowsDiffer == OtherRow # NoRow /\ OtherRow \notin Users /\ NoRow \notin Users

Ops == {"register", "login", "read", "write"}
Requests == [op : Ops, name : Names, pass : Passwords]
NoRequest == [op |-> "read", name |-> Admin, pass |-> AdminPassword]

VARIABLES
  users,    \* the table
  main,     \* "start", or "serve" once the server listens
  pc, req,  \* the next call of each handler; its request
  row,      \* the user it has read
  hash,     \* what bcrypt_hash returned to it
  buffer,   \* what crypt() returns a pointer to
  found,    \* history, until calls overlap: what its SELECT found
  spoilt    \* history: whose call of crypt() another one has overlapped

local == <<pc, req, row, hash, found>>
vars == <<users, main, pc, req, row, hash, buffer, found, spoilt, connVars>>

Answered == {"free", "open", "wrong", "registered"}

TypeOK ==
  /\ ConnTypeOK(Results)
  /\ users \in Seq(Users)
  /\ main \in {"start", "serve"}
  /\ pc \in [Workers -> Answered \cup {"look", "lookRes", "crypt", "crypting", "copy",
                                       "insert", "insertRes"}]
  /\ req \in [Workers -> Requests]
  /\ row \in [Workers -> Results] /\ found \in [Workers -> Results]
  /\ hash \in [Workers -> Hashes] /\ buffer \in Hashes
  /\ spoilt \subseteq Workers

\* What a user is in the table.
RowsOf(n) == {i \in DOMAIN users : users[i].name = n}
SelectUser(n) == IF RowsOf(n) = {} THEN NoRow ELSE users[CHOOSE i \in RowsOf(n) : TRUE]

NoRows == [w \in Workers |-> NoRow]
Free == [w \in Workers |-> "free"]
NoRequests == [w \in Workers |-> NoRequest]
NoHashes == [w \in Workers |-> Garbage]

\* The table is empty, or "admin" is in it as an ordinary user.
Init ==
  /\ ConnInit(FALSE)
  /\ users \in {<<>>} \cup
       {<<[name |-> Admin, hash |-> [pass |-> p, salt |-> s], role |-> "user"]>> :
          p \in Passwords, s \in Salts}
  /\ main = "start"
  /\ pc = Free /\ req = NoRequests /\ row = NoRows /\ found = NoRows
  /\ hash = NoHashes /\ buffer = Garbage /\ spoilt = {}

\* A salt that is nowhere in use.
UsedSalts ==
  {h.salt : h \in ({users[i].hash : i \in DOMAIN users} \cup {hash[w] : w \in Workers}
                     \cup {buffer}) \ {Garbage}}
NewSalt == Salts \ UsedSalts

-----------------------------------------------------------------------------
\* main connects and sees to the administrator; nobody else is running.  A crash
\* before the one statement that writes is a crash before all of it.

\* Mutant: an "admin" that is there is left as it is.
AdminLeft ==
  \/ RowsOf(Admin) # {} /\ users' = users
  \/ /\ RowsOf(Admin) = {}
     /\ \E s \in NewSalt : users' = Append(users,
          [name |-> Admin, hash |-> [pass |-> AdminPassword, salt |-> s], role |-> "admin"])

EnsureAdmin ==
  \/ /\ RowsOf(Admin) # {}
     /\ users' = [i \in DOMAIN users |->
          IF users[i].name = Admin THEN [users[i] EXCEPT !.role = "admin"] ELSE users[i]]
  \/ /\ RowsOf(Admin) = {}
     /\ \E s \in NewSalt : users' = Append(users,
          [name |-> Admin, hash |-> [pass |-> AdminPassword, salt |-> s], role |-> "admin"])

StartServer ==
  /\ main = "start" /\ main' = "serve"
  /\ up' = TRUE
  /\ EnsureAdmin
  /\ UNCHANGED <<local, buffer, spoilt, waiting, lost, shaken>>

\* The process ends: the table stays.
Crash ==
  /\ main = "serve" /\ main' = "start"
  /\ pc' = Free /\ req' = NoRequests /\ row' = NoRows /\ found' = NoRows
  /\ hash' = NoHashes /\ buffer' = Garbage /\ spoilt' = {}
  /\ NewHandle(FALSE)
  /\ UNCHANGED users

-----------------------------------------------------------------------------
\* A request with all its fields reaches its handler.
Arrive(w) ==
  /\ main = "serve" /\ pc[w] \in Answered
  /\ \E r \in Requests :
       /\ r.op \in {"read", "write"} => r = [NoRequest EXCEPT !.op = r.op]
       /\ req' = [req EXCEPT ![w] = r]
       /\ pc' = [pc EXCEPT ![w] = IF r.op = "write" THEN "insert" ELSE "look"]
  /\ row' = [row EXCEPT ![w] = NoRow] /\ found' = [found EXCEPT ![w] = NoRow]
  /\ hash' = [hash EXCEPT ![w] = Garbage]
  /\ lost' = lost \ {w} /\ spoilt' = spoilt \ {w}
  /\ UNCHANGED <<users, main, buffer, up, waiting, shaken>>

Goto(w, from, to) == pc[w] = from /\ pc' = [pc EXCEPT ![w] = to]

\* The handler answers with an error, or with a page, and its locals are gone.
Close(w, from) ==
  /\ Goto(w, from, "free")
  /\ req' = [req EXCEPT ![w] = NoRequest]
  /\ row' = [row EXCEPT ![w] = NoRow] /\ found' = [found EXCEPT ![w] = NoRow]
  /\ hash' = [hash EXCEPT ![w] = Garbage]

\* The first statement of get_user_by_username, or of a reader of another table.
Look(w) ==
  /\ \/ /\ Goto(w, "look", "lookRes")
        /\ LET r == IF req[w].op = "read" THEN OtherRow ELSE SelectUser(req[w].name) IN
             SendSelect(w, r) /\ found' = [found EXCEPT ![w] = IF shaken THEN NoRow ELSE r]
        /\ UNCHANGED <<req, row, hash>>
     \/ Close(w, "look") /\ (SendFails \/ SendBreaks)
  /\ UNCHANGED <<users, main, buffer, spoilt>>

\* A row that the connection may bring.
AnyRow == {users[i] : i \in DOMAIN users} \cup {OtherRow, NoRow}

\* ... and its second, mysql_store_result: without a row the name is free, or
\* unknown.
TakeRow(w) ==
  /\ StoreResult(w)
  /\ \E r \in Stored(AnyRow) : LET none == r = NoRow IN
       \/ /\ req[w].op = "read" \/ (req[w].op = "register" /\ ~none)
          /\ Close(w, "lookRes")
       \/ /\ (req[w].op = "register" /\ none) \/ req[w].op = "login"
          /\ Goto(w, "lookRes", IF req[w].op = "login" /\ none THEN "wrong" ELSE "crypt")
          /\ row' = [row EXCEPT ![w] = r]
          /\ UNCHANGED <<req, hash, found>>
  /\ UNCHANGED <<users, main, buffer, spoilt>>

\* crypt() works in static memory, where it leaves its result too: two calls that
\* overlap, up to the copy of the result, spoil each other.
Inside(w) == {v \in Workers \ {w} : pc[v] \in {"crypting", "copy"}}

BeginCrypt(w) ==
  /\ Goto(w, "crypt", "crypting")
  /\ spoilt' = spoilt \cup Inside(w) \cup (IF Inside(w) = {} THEN {} ELSE {w})
  /\ UNCHANGED <<users, main, req, row, hash, buffer, found, connVars>>

\* Of a new password with a new salt, or of the given one with the salt of the row.
Crypted(w) ==
  IF req[w].op = "register" THEN [pass : {req[w].pass}, salt : NewSalt]
  ELSE IF row[w] = OtherRow \/ row[w].hash = Garbage THEN {Garbage}
  ELSE {[row[w].hash EXCEPT !.pass = req[w].pass]}

EndCrypt(w) ==
  /\ Goto(w, "crypting", "copy")
  /\ \E h \in Crypted(w) \cup (IF w \in spoilt THEN {Garbage} ELSE {}) : buffer' = h
  /\ UNCHANGED <<users, main, req, row, hash, found, spoilt, connVars>>

\* Mutant: any result that is not empty verifies.
VerifiedIfAny(w, h) == w = w /\ h # Garbage

\* std::string(result) == hash; the result of a crypt() that failed equals no hash.
Verified(w, h) == h # Garbage /\ row[w] # OtherRow /\ h = row[w].hash

CopyHash(w) ==
  /\ \E h \in {buffer} \cup (IF w \in spoilt THEN {Garbage} ELSE {}) :
       \/ /\ req[w].op = "register"
          /\ Goto(w, "copy", "insert")
          /\ hash' = [hash EXCEPT ![w] = h]
       \/ /\ req[w].op = "login"
          /\ Goto(w, "copy", IF Verified(w, h) THEN "open" ELSE "wrong")
          /\ UNCHANGED hash
  /\ row' = [row EXCEPT ![w] = NoRow]
  /\ UNCHANGED <<users, main, req, buffer, found, spoilt, connVars>>

\* Mutant: the hash is read when the statement is built.
NewUserOfBuffer(w) == [name |-> req[w].name, hash |-> buffer, role |-> "user"]

\* Mutant: no default for the role.
NewUserNoRole(w) == [name |-> req[w].name, hash |-> hash[w], role |-> ""]

\* The new row, whose role is the default of insert_user.
NewUser(w) == [name |-> req[w].name, hash |-> hash[w], role |-> "user"]

\* Mutant: nothing keeps a name from being there twice.
NameFreeAlways(n) == n = n

\* The UNIQUE key of users.username.
NameFree(n) == RowsOf(n) = {}

\* What MySQL does of the INSERT of insert_user, whose name may be there; a write of
\* another handler is to another table.
Inserted(w) ==
  IF req[w].op = "register"
    THEN NameFree(req[w].name) /\ users' = Append(users, NewUser(w))
    ELSE UNCHANGED users
NotInserted == UNCHANGED users

\* insert_user, or a write of another handler: mysql_query.  A row whose name is
\* there is refused.  When the connection breaks the row may be there all the same.
Insert(w) ==
  /\ \/ /\ Goto(w, "insert", "insertRes") /\ UNCHANGED <<req, row, hash, found>>
        /\ SendWrite
        /\ Inserted(w) \/ (shaken /\ NotInserted)
     \/ /\ Close(w, "insert")
        /\ req[w].op = "register" /\ ~NameFree(req[w].name)
        /\ SendWrite /\ NotInserted
     \/ /\ Close(w, "insert")
        /\ SendFails
        /\ NotInserted \/ (shaken /\ Inserted(w))
     \/ /\ Close(w, "insert")
        /\ SendBreaks
        /\ NotInserted \/ Inserted(w)
  /\ UNCHANGED <<main, buffer, spoilt>>

\* ... and the mysql_store_result that query() adds, whose result is dropped.
DropResult(w) ==
  /\ StoreResult(w)
  /\ \/ /\ req[w].op = "register" /\ Goto(w, "insertRes", "registered")
        /\ hash' = [hash EXCEPT ![w] = Garbage]
        /\ UNCHANGED <<req, row, found>>
     \/ req[w].op = "write" /\ Close(w, "insertRes")
  /\ UNCHANGED <<users, main, buffer, spoilt>>

LoseConnection == Drop /\ UNCHANGED <<users, main, local, buffer, spoilt>>

CallsOverlap ==
  /\ Overlap({w \in Workers : pc[w] \in {"look", "lookRes", "insert", "insertRes"}})
  /\ found' = NoRows
  /\ UNCHANGED <<users, main, pc, req, row, hash, buffer, spoilt>>

-----------------------------------------------------------------------------
Handle(w) ==
  \/ Look(w) \/ TakeRow(w) \/ BeginCrypt(w) \/ EndCrypt(w) \/ CopyHash(w)
  \/ Insert(w) \/ DropResult(w)

Next ==
  \/ StartServer \/ Crash \/ LoseConnection \/ CallsOverlap
  \/ \E w \in Workers : Arrive(w) \/ Handle(w)

Spec == Init /\ [][Next]_vars

-----------------------------------------------------------------------------
\* A name has one row, although registration looks for the name and inserts it in
\* two statements, on results that may be lost, or anyone's (server.cc 204-214).
NameOnce == \A i, j \in DOMAIN users : users[i].name = users[j].name => i = j

\* While the server listens "admin" is an administrator, whatever the table held
\* before, and nobody becomes one by registering (server.cc 116-125, 213-214).
AdminThere ==
  /\ main = "serve" => \E i \in RowsOf(Admin) : users[i].role = "admin"
  /\ \A i \in DOMAIN users : users[i].role = "admin" => users[i].name = Admin

\* A login is accepted with the password of the name it gives and refused with
\* any other, unless its result was lost, its crypt() overlapped another, or calls
\* on the connection have overlapped (server.cc 174-197, auth.cc 28-32, db.cc 30-37).
LoginRight ==
  ~shaken => \A w \in Workers \ (lost \cup spoilt) :
    LET named == found[w] # NoRow /\ found[w].name = req[w].name
        opens == named /\ found[w].hash # Garbage /\ found[w].hash.pass = req[w].pass IN
      /\ pc[w] = "open" => opens
      /\ pc[w] = "wrong" => ~opens

\* A registration that is answered with success has put the name into the table,
\* with a hash of its own password unless its crypt() overlapped another, whatever
\* became of its results, unless calls on the connection have overlapped (server.cc
\* 199-225, auth.cc 21-26, db.cc 30-37).
RegisterRight ==
  ~shaken => \A w \in Workers : pc[w] = "registered" =>
    \E i \in RowsOf(req[w].name) :
      w \notin spoilt => users[i].hash # Garbage /\ users[i].hash.pass = req[w].pass

\* tests/test_auth.cc 17-18: the hash that bcrypt_hash returns for a password
\* verifies it, here when the handler of a registration stores it.
HashVerifies ==
  \A w \in Workers : pc[w] = "insert" /\ req[w].op = "register" =>
    hash[w] # Garbage /\ hash[w].pass = req[w].pass

=============================================================================
