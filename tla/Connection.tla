------------------------------ MODULE Connection ------------------------------
(***************************************************************************)
(* The one MYSQL handle of the process, which db.cc uses from all threads   *)
(* without a lock.  query() is two calls of the client library,            *)
(* mysql_query and mysql_store_result, and those of several threads        *)
(* interleave.  Calls that overlap in time are a data race on the handle:  *)
(* from then on a call may fail or succeed whatever MySQL has done, and a  *)
(* result may be anyone's.  The handle connects once, when the process     *)
(* starts.  A statement reaches MySQL whole and once, or not at all.       *)
(***************************************************************************)
EXTENDS Naturals

CONSTANTS Workers,    \* the threads that serve requests
          NoRow       \* mysql_store_result returned NULL, or there is no row

VARIABLES up,         \* the connection stands
          waiting,    \* the result that mysql_query has left for the next
                      \* mysql_store_result, and who asked for it
          shaken,     \* calls of two threads have overlapped in time
          lost        \* history, until then: whose result another call, or the end
                      \* of the connection, has taken

connVars == <<up, waiting, lost, shaken>>

Nothing == [of |-> NoRow, row |-> NoRow]

ConnTypeOK(Results) ==
  /\ up \in BOOLEAN /\ shaken \in BOOLEAN
  /\ waiting \in [of : Workers, row : Results] \cup {Nothing}
  /\ lost \subseteq Workers

ConnInit(connected) == up = connected /\ waiting = Nothing /\ lost = {} /\ shaken = FALSE

\* A new process has a new handle.
NewHandle(connected) == up' = connected /\ waiting' = Nothing /\ lost' = {} /\ shaken' = FALSE

\* The status of the handle is MYSQL_STATUS_READY.
Ready == waiting = Nothing

-----------------------------------------------------------------------------
\* A thread whose next step is a call may already be in it: two of those may
\* overlap, and neither waits for the other.
Overlap(InCall) ==
  /\ up /\ ~shaken
  /\ \E v, w \in InCall : v # w
  /\ shaken' = TRUE /\ waiting' = Nothing /\ lost' = {}
  /\ UNCHANGED up

\* mysql_query refuses a statement while a result waits ("commands out of sync"),
\* and when the connection is gone: nothing ever connects again.
CanSend == up /\ Ready

\* mysql_query returns 0 for a statement with a result, and for one without.
SendSelect(w, row) ==
  /\ CanSend
  /\ waiting' = IF shaken THEN Nothing ELSE [of |-> w, row |-> row]
  /\ UNCHANGED <<up, lost, shaken>>
SendWrite == CanSend /\ UNCHANGED connVars

\* mysql_query fails: query() throws.  Once shaken it may do so after MySQL has
\* executed a statement, as it may return 0 when MySQL has not.
SendFails == (~CanSend \/ shaken) /\ UNCHANGED connVars
\* The connection breaks in the call.
SendBreaks == CanSend /\ up' = FALSE /\ UNCHANGED <<waiting, lost, shaken>>

\* What mysql_store_result may return, to whoever calls it: query() does after
\* every statement.
Stored(Any) == IF shaken THEN Any ELSE {IF up THEN waiting.row ELSE NoRow}

StoreResult(w) ==
  /\ waiting' = Nothing
  /\ lost' = IF Ready \/ (up /\ waiting.of = w) THEN lost ELSE lost \cup {waiting.of}
  /\ UNCHANGED <<up, shaken>>

\* The server ends the connection: it restarts, or wait_timeout has passed.
Drop == up /\ up' = FALSE /\ UNCHANGED <<waiting, lost, shaken>>

=============================================================================
