---------------------------- MODULE StatementBatch ----------------------------
(***************************************************************************)
(* ServerSidePreparedStatement::executeBatch and executeBatchInternal      *)
(* (src/ServerSidePreparedStatement.cpp).  One call of executeBatch on one *)
(* statement, from checkClose() to the return or the exception, with the   *)
(* connection options it reads fixed at the start:                         *)
(*   continue  protocol->getOptions()->continueBatchOnError                *)
(*   timeout   stmt->getQueryTimeout() > 0 (the loop that checks           *)
(*             interruption and connection state)                          *)
(*   bulk      useBatchMultiSend || useBulkStmts                           *)
(* The server's answer to each entry is a nondeterministic choice: it      *)
(* succeeds, it fails, or it fails and the connection is lost.  The query  *)
(* timer (setTimerTask) may interrupt the protocol at any point of a call  *)
(* made with a timeout.  Parameters, results and update counts are left    *)
(* out: only which entries were sent, which failed, and what was raised.   *)
(***************************************************************************)
EXTENDS Integers, FiniteSets

CONSTANTS MaxBatch    \* largest parameterList.size() considered

ASSUME MaxBatch \in Nat

Entries == 0..(MaxBatch - 1)

\* What a call ends with: NoError for a normal return, an entry's index for
\* the SQLException of that entry, or one of the two errors raised before
\* any entry runs on its own.
NoError        == -1
ClosedError    == -2     \* stmt->checkClose()
InterruptError == -3     \* protocol->stopIfInterrupted()
Outcomes       == {NoError, ClosedError, InterruptError} \cup Entries

VARIABLES
  opts,          \* [continue, timeout, bulk : BOOLEAN]
  closed,        \* stmt->isClosed()
  size,          \* parameterList.size()
  pc,            \* "call", "prologue", "loop", "done"
  counter,       \* loop index
  exceptionSet,  \* local bool exceptionSet
  exception,     \* local SQLException exception (entry index, or NoError)
  connected,     \* protocol->isConnected()
  interrupted,   \* protocol->isInterrupted()
  locked,        \* localScopeLock holds the protocol lock
  raised,        \* what the call ended with (NoError while running)
  sent,          \* history: entries executed successfully
  failed         \* history: entries the server rejected

vars == <<opts, closed, size, pc, counter, exceptionSet, exception,
          connected, interrupted, locked, raised, sent, failed>>

Init ==
  /\ opts \in [continue : BOOLEAN, timeout : BOOLEAN, bulk : BOOLEAN]
  /\ closed \in BOOLEAN
  /\ size \in 0..MaxBatch
  /\ pc = "call"
  /\ counter = 0
  /\ exceptionSet = FALSE
  /\ exception = NoError
  /\ connected = TRUE
  /\ interrupted = FALSE
  /\ locked = FALSE
  /\ raised = NoError
  /\ sent = {}
  /\ failed = {}

\* The catch block of executeBatchInternal: unlock, then
\* executeBatchExceptionEpilogue rethrows.
Throw(e) ==
  /\ pc' = "done"
  /\ raised' = e
  /\ locked' = FALSE

\* executeBatch: checkClose() throws before the lock is taken; an empty
\* batch returns at once; otherwise executeBatchInternal takes the lock.
ExecuteBatch ==
  /\ pc = "call"
  /\ \/ /\ closed
        /\ pc' = "done" /\ raised' = ClosedError
        /\ UNCHANGED locked
     \/ /\ ~closed /\ size = 0
        /\ pc' = "done" /\ raised' = NoError
        /\ UNCHANGED locked
     \/ /\ ~closed /\ size > 0
        /\ pc' = "prologue" /\ locked' = TRUE
        /\ UNCHANGED raised
  /\ UNCHANGED <<opts, closed, size, counter, exceptionSet, exception,
                 connected, interrupted, sent, failed>>

\* Variant: the bulk path reports one entry too many as executed.
BatchPrologueOverCounts ==
  /\ pc = "prologue"
  /\ \/ /\ opts.bulk
        /\ pc' = "done" /\ raised' = NoError /\ locked' = FALSE
        /\ sent' = 0..size
     \/ /\ pc' = "loop"
        /\ UNCHANGED <<raised, locked, sent>>
  /\ UNCHANGED <<opts, closed, size, counter, exceptionSet, exception,
                 connected, interrupted, failed>>

\* executeQueryPrologue, the Results set-up, and the bulk path: when the
\* server takes the whole batch (executeBatchServer returns true) the call
\* returns; when it declines, the entries are sent one by one.
BatchPrologue ==
  /\ pc = "prologue"
  /\ \/ /\ opts.bulk
        /\ pc' = "done" /\ raised' = NoError /\ locked' = FALSE
        /\ sent' = 0..(size - 1)
     \/ /\ pc' = "loop"
        /\ UNCHANGED <<raised, locked, sent>>
  /\ UNCHANGED <<opts, closed, size, counter, exceptionSet, exception,
                 connected, interrupted, failed>>

\* Variant: the catch block carries on whatever continueBatchOnError says.
KeepGoingIgnoresOption ==
  IF opts.timeout THEN connected' /\ ~interrupted ELSE TRUE

\* How the loop's catch block treats the SQLException of entry e, in the
\* branch with a query timeout and in the branch without.
KeepGoing ==
  IF opts.timeout
  THEN opts.continue /\ connected' /\ ~interrupted
  ELSE opts.continue

Remember(e) ==
  IF opts.timeout
  THEN IF exceptionSet
       THEN exceptionSet' = TRUE /\ exception' = e
       ELSE UNCHANGED <<exceptionSet, exception>>
  ELSE /\ exception' = IF ~exceptionSet THEN e ELSE exception
       /\ UNCHANGED exceptionSet

\* One iteration: stopIfInterrupted (timeout branch only), then
\* executePreparedQuery for parameterList[counter].
SendEntry ==
  /\ pc = "loop"
  /\ counter < size
  /\ IF opts.timeout /\ interrupted
     THEN /\ Throw(InterruptError)
          /\ UNCHANGED <<counter, exceptionSet, exception, connected,
                         sent, failed>>
     ELSE \/ /\ connected
             /\ sent' = sent \cup {counter}
             /\ counter' = counter + 1
             /\ UNCHANGED <<pc, raised, locked, exceptionSet, exception,
                            connected, failed>>
          \/ /\ connected' \in {connected, FALSE}
             /\ failed' = failed \cup {counter}
             /\ IF KeepGoing
                THEN /\ Remember(counter)
                     /\ counter' = counter + 1
                     /\ UNCHANGED <<pc, raised, locked>>
                ELSE /\ Throw(counter)
                     /\ UNCHANGED <<counter, exceptionSet, exception>>
             /\ UNCHANGED sent
  /\ UNCHANGED <<opts, closed, size, interrupted>>

\* Variant: the loop stops one entry short.
BatchEndOffByOne ==
  /\ pc = "loop"
  /\ counter >= size - 1
  /\ pc' = "done"
  /\ raised' = IF exceptionSet THEN exception ELSE NoError
  /\ locked' = FALSE
  /\ UNCHANGED <<opts, closed, size, counter, exceptionSet, exception,
                 connected, interrupted, sent, failed>>

\* After the loop: throw the remembered exception, or commandEnd and
\* executeBatchEpilogue; the lock is released either way.
BatchEnd ==
  /\ pc = "loop"
  /\ counter = size
  /\ pc' = "done"
  /\ raised' = IF exceptionSet THEN exception ELSE NoError
  /\ locked' = FALSE
  /\ UNCHANGED <<opts, closed, size, counter, exceptionSet, exception,
                 connected, interrupted, sent, failed>>

\* The query timer of a call made with a timeout fires while the batch
\* holds the connection.
TimerFires ==
  /\ opts.timeout
  /\ pc \in {"prologue", "loop"}
  /\ ~interrupted
  /\ interrupted' = TRUE
  /\ UNCHANGED <<opts, closed, size, pc, counter, exceptionSet, exception,
                 connected, locked, raised, sent, failed>>

Done ==
  /\ pc = "done"
  /\ UNCHANGED vars

Next ==
  \/ ExecuteBatch
  \/ BatchPrologue
  \/ SendEntry
  \/ BatchEnd
  \/ TimerFires
  \/ Done

Spec == Init /\ [][Next]_vars

-----------------------------------------------------------------------------
TypeOK ==
  /\ opts \in [continue : BOOLEAN, timeout : BOOLEAN, bulk : BOOLEAN]
  /\ closed \in BOOLEAN /\ size \in 0..MaxBatch
  /\ pc \in {"call", "prologue", "loop", "done"}
  /\ counter \in 0..MaxBatch
  /\ exceptionSet \in BOOLEAN /\ exception \in {NoError} \cup Entries
  /\ connected \in BOOLEAN /\ interrupted \in BOOLEAN /\ locked \in BOOLEAN
  /\ raised \in Outcomes
  /\ sent \subseteq Entries /\ failed \subseteq Entries

FirstOf(S) == CHOOSE i \in S : \A j \in S : i <= j

\* Spec section 7 and Scenario E: a batch raises exactly when one of its
\* entries failed, and then the first failure; with continueBatchOnError
\* executeBatchInternal runs every entry and rethrows the remembered first
\* exception after the loop.  (Errors raised by checkClose and
\* stopIfInterrupted are not entry failures.)
BatchReportsFirstError ==
  (pc = "done" /\ raised \notin {ClosedError, InterruptError})
    => raised = IF failed = {} THEN NoError ELSE FirstOf(failed)

\* With continueBatchOnError, a batch whose connection stays up and is never
\* interrupted sends every entry of parameterList before it returns.
ContinueRunsAllEntries ==
  (pc = "done" /\ opts.continue /\ connected /\ ~interrupted
    /\ raised \notin {ClosedError})
    => sent \cup failed = 0..(size - 1)

\* Without continueBatchOnError the first failing entry ends the batch: the
\* catch block rethrows and no later entry reaches executePreparedQuery.
StopsAtFirstFailure ==
  ~opts.continue => \A i \in failed : \A j \in sent \cup failed : j <= i
=============================================================================
