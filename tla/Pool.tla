-------------------------------- MODULE Pool --------------------------------
(***************************************************************************)
(* The connection pool of src/src/pool/Pool.cpp.                           *)
(*                                                                         *)
(* Actors, each running concurrently:                                      *)
(*   - user threads (Users): getPoolConnection(), then either close the    *)
(*     connection (the connectionClosed event handler runs in the user's   *)
(*     thread) or hit a connection error (connectionErrorOccurred);        *)
(*   - the single "appender" thread of connectionAppender, which runs the  *)
(*     tasks queued by addConnectionRequest();                             *)
(*   - the scheduled removeIdleTimeoutConnection() of poolExecutor;        *)
(*   - one caller of Pool::close().                                        *)
(*                                                                         *)
(* A physical connection is a model value of Conns.  The idle list is a   *)
(* sequence (pollFirst takes the head, push/push_back append).  Time is   *)
(* abstracted: how long a connection has been idle, whether validation    *)
(* succeeds, whether a reset or a connect fails, and when a blocking poll *)
(* or close()'s 10 s loop times out, are nondeterministic choices.        *)
(***************************************************************************)
EXTENDS Integers, Sequences, FiniteSets, Functions, SequencesExt

CONSTANTS
  Users,            \* threads calling getPoolConnection()
  Conns,            \* identities of physical connections
  NoConn,           \* "no connection" sentinel
  MinPoolSize,      \* options->minPoolSize
  MaxPoolSize,      \* options->maxPoolSize (also the appender queue capacity)
  WaitTimeoutKnown, \* waitTimeout > 0 after the constructor's SELECT @@wait_timeout
  ConnectCanFail,   \* whether a physical connect in addConnection() may throw
  ResetCanFail      \* whether newConn.reset() in connectionClosed() may throw

ASSUME /\ MinPoolSize \in Nat /\ MaxPoolSize \in Nat \ {0}
       /\ MinPoolSize <= MaxPoolSize
       /\ Cardinality(Conns) > MaxPoolSize
       /\ NoConn \notin Conns
       /\ WaitTimeoutKnown \in BOOLEAN
       /\ ConnectCanFail \in BOOLEAN /\ ResetCanFail \in BOOLEAN

VARIABLES
  poolState,  \* poolState: "OK" or "CLOSING"
  total,      \* totalConnection (atomic)
  pending,    \* pendingRequestNumber (atomic)
  idle,       \* idleConnections, a FIFO of Conns
  tasks,      \* number of tasks queued in connectionAppenderQueue
  apc,        \* appender thread: "idle" or "connect" (task decided to add)
  upc,        \* user thread program counter
  ucon,       \* connection a user thread holds / validates / resets
  cpc         \* progress of Pool::close(): "none","loop","final","done"

vars == <<poolState, total, pending, idle, tasks, apc, upc, ucon, cpc>>

UserPcs == {"free", "poll1", "wait", "check1", "check2", "hold", "reset",
            "dedicated"}

(* Connections a user thread owns at a given program counter.             *)
Owning == {"check1", "check2", "hold", "reset"}

(* Every connection the pool has counted in totalConnection and not yet   *)
(* discarded: idle ones, ones being validated after a poll, ones handed    *)
(* out, and ones being reset by the connectionClosed handler.             *)
Counted == Range(idle) \cup {ucon[u] : u \in {v \in Users : upc[v] \in Owning}}

(* A connection id not in use anywhere, for a new physical connection.    *)
FreeConns == Conns \ Counted

-----------------------------------------------------------------------------
(* Variant: the queue bound is not respected.                             *)
AddConnectionRequestUnbounded(tot, st, tq) ==
  IF tot < MaxPoolSize /\ st = "OK" THEN tq + 1 ELSE tq

(* addConnectionRequest(): queue a creation task only while the pool is   *)
(* below its maximum and OK.  The queue holds at most MaxPoolSize tasks;  *)
(* a request made while it is full is not queued.                         *)
AddConnectionRequest(tot, st, tq) ==
  IF tot < MaxPoolSize /\ st = "OK" /\ tq < MaxPoolSize THEN tq + 1 ELSE tq

(* Constructor: addConnection() synchronously (the pool is OK and empty,   *)
(* so the connection is counted and pushed), then minPoolSize - 1          *)
(* addConnectionRequest() calls.                                          *)
Init ==
  /\ poolState = "OK"
  /\ total = 1
  /\ pending = 0
  /\ \E c \in Conns : idle = <<c>>
  /\ tasks = MinPoolSize - 1
  /\ apc = "idle"
  /\ upc = [u \in Users |-> "free"]
  /\ ucon = [u \in Users |-> NoConn]
  /\ cpc = "none"

-----------------------------------------------------------------------------
(***************************************************************************)
(* Appender thread.                                                        *)
(***************************************************************************)

(* Variant: the task does not re-check maxPoolSize.                        *)
AppenderTakeNoMaxCheck ==
  /\ apc = "idle" /\ tasks > 0
  /\ tasks' = tasks - 1
  /\ apc' = IF total < MinPoolSize \/ pending > 0 THEN "connect" ELSE "idle"
  /\ UNCHANGED <<poolState, total, pending, idle, upc, ucon, cpc>>

(* A queued task runs: it adds a connection only if the pool is below     *)
(* minPoolSize or a request is pending, and below maxPoolSize.            *)
AppenderTake ==
  /\ apc = "idle" /\ tasks > 0
  /\ tasks' = tasks - 1
  /\ apc' = IF (total < MinPoolSize \/ pending > 0) /\ total < MaxPoolSize
              THEN "connect" ELSE "idle"
  /\ UNCHANGED <<poolState, total, pending, idle, upc, ucon, cpc>>

(* addConnection(): connect (may throw; the task swallows the exception),  *)
(* then, if the pool is OK, count the connection with ++totalConnection    *)
(* and push it to the idle list if the new count is within the maximum.   *)
(* A connection that does not fit is closed, and the increment is kept.   *)
AppenderConnect ==
  /\ apc = "connect"
  /\ apc' = "idle"
  /\ \/ /\ ConnectCanFail
        /\ UNCHANGED <<total, idle>>
     \/ \E c \in FreeConns :
          IF poolState = "OK"
          THEN /\ total' = total + 1
               /\ idle' = IF total + 1 <= MaxPoolSize THEN Append(idle, c) ELSE idle
          ELSE UNCHANGED <<total, idle>>
  /\ UNCHANGED <<poolState, pending, tasks, upc, ucon, cpc>>

-----------------------------------------------------------------------------
(***************************************************************************)
(* removeIdleTimeoutConnection(), run by the scheduler with the idle-list  *)
(* lock held for the whole scan.  Each idle connection's age is one of    *)
(* four classes: over maxIdleTime or not, and past @@wait_timeout - 45 s  *)
(* or not.                                                                 *)
(***************************************************************************)
Ages == [timedOut : BOOLEAN, nearWait : BOOLEAN]

(* The release decision for one idle connection, given the current count. *)
ShouldBeReleased(age, tot) ==
  IF WaitTimeoutKnown
  THEN age.nearWait \/ (age.timedOut /\ tot > MinPoolSize)
  ELSE age.timedOut

(* One iteration of the scan: release (--totalConnection, close, erase,   *)
(* addConnectionRequest) or keep the connection.                          *)
EvictStep(acc, item) ==
  IF ShouldBeReleased(item[2], acc.total)
  THEN [kept |-> acc.kept, total |-> acc.total - 1,
        tasks |-> AddConnectionRequest(acc.total - 1, poolState, acc.tasks)]
  ELSE [acc EXCEPT !.kept = Append(@, item[1])]

RemoveIdleTimeoutConnection ==
  /\ cpc = "none"
  /\ \E age \in [1..Len(idle) -> Ages] :
       LET r == FoldLeft(EvictStep, [kept |-> <<>>, total |-> total, tasks |-> tasks],
                         [i \in 1..Len(idle) |-> <<idle[i], age[i]>>])
       IN /\ idle' = r.kept
          /\ total' = r.total
          /\ tasks' = r.tasks
  /\ UNCHANGED <<poolState, pending, apc, upc, ucon, cpc>>

-----------------------------------------------------------------------------
(***************************************************************************)
(* User threads: getPoolConnection() and getIdleConnection(timeout).       *)
(***************************************************************************)

(* ++pendingRequestNumber, then the first, near-zero-timeout poll.         *)
(* Calls into a pool that close() has finished with are not modelled (the  *)
(* pool object is removed from Pools by then).                            *)
GetPoolConnection(u) ==
  /\ upc[u] = "free" /\ cpc # "done"
  /\ pending' = pending + 1
  /\ upc' = [upc EXCEPT ![u] = "poll1"]
  /\ UNCHANGED <<poolState, total, idle, tasks, apc, ucon, cpc>>

(* getPoolConnection(username, password): the user name is compared with  *)
(* the pool's (twice: the password is never compared).  The pool's user   *)
(* takes the pooled path; another user gets a dedicated connection made   *)
(* on the spot (a failed connect throws and changes nothing), which has   *)
(* no event listener and is never counted by the pool.                     *)
UserNames == {"poolUser", "otherUser"}

GetPoolConnectionAs(u) ==
  \E name \in UserNames :
    IF name = "poolUser" THEN GetPoolConnection(u)
    ELSE /\ upc[u] = "free" /\ cpc # "done"
         /\ upc' = [upc EXCEPT ![u] = "dedicated"]
         /\ UNCHANGED <<poolState, total, pending, idle, tasks, apc, ucon, cpc>>

(* The user closes a dedicated connection: with no listener registered,  *)
(* neither connectionClosed nor connectionErrorOccurred of the pool runs. *)
CloseDedicated(u) ==
  /\ upc[u] = "dedicated"
  /\ upc' = [upc EXCEPT ![u] = "free"]
  /\ UNCHANGED <<poolState, total, pending, idle, tasks, apc, ucon, cpc>>

(* pollFirst with the near-zero timeout: take the head of the idle list,   *)
(* or on a miss call addConnectionRequest() and start the blocking poll.  *)
PollFirst(u) ==
  /\ upc[u] = "poll1"
  /\ IF idle # <<>>
     THEN /\ ucon' = [ucon EXCEPT ![u] = Head(idle)]
          /\ idle' = Tail(idle)
          /\ upc' = [upc EXCEPT ![u] = "check1"]
          /\ UNCHANGED tasks
     ELSE /\ tasks' = AddConnectionRequest(total, poolState, tasks)
          /\ upc' = [upc EXCEPT ![u] = "wait"]
          /\ UNCHANGED <<ucon, idle>>
  /\ UNCHANGED <<poolState, total, pending, apc, cpc>>

(* Variant: the item is read from the head but not removed.               *)
PollWaitNoRemove(u) ==
  /\ upc[u] = "wait" /\ idle # <<>>
  /\ ucon' = [ucon EXCEPT ![u] = Head(idle)]
  /\ upc' = [upc EXCEPT ![u] = "check2"]
  /\ UNCHANGED <<poolState, total, pending, idle, tasks, apc, cpc>>

(* pollFirst(connectTimeout) returns an item as soon as one is idle.       *)
PollWait(u) ==
  /\ upc[u] = "wait" /\ idle # <<>>
  /\ ucon' = [ucon EXCEPT ![u] = Head(idle)]
  /\ idle' = Tail(idle)
  /\ upc' = [upc EXCEPT ![u] = "check2"]
  /\ UNCHANGED <<poolState, total, pending, tasks, apc, cpc>>

(* Variant: the timeout path forgets --pendingRequestNumber.               *)
WaitTimeoutKeepsPending(u) ==
  /\ upc[u] = "wait" /\ idle = <<>>
  /\ upc' = [upc EXCEPT ![u] = "free"]
  /\ UNCHANGED <<poolState, total, pending, idle, tasks, apc, ucon, cpc>>

(* The blocking poll expires with nothing idle: --pendingRequestNumber and *)
(* throw "No connection available within ... connectTimeout".             *)
WaitTimeout(u) ==
  /\ upc[u] = "wait" /\ idle = <<>>
  /\ pending' = pending - 1
  /\ upc' = [upc EXCEPT ![u] = "free"]
  /\ UNCHANGED <<poolState, total, idle, tasks, apc, ucon, cpc>>

(* The polled item is returned if it was used recently or isValid(10)      *)
(* holds (then --pendingRequestNumber in getPoolConnection); otherwise     *)
(* --totalConnection, abort it, addConnectionRequest(), and poll again     *)
(* with the same timeout.                                                  *)
Validate(u) ==
  /\ upc[u] \in {"check1", "check2"}
  /\ \/ /\ pending' = pending - 1
        /\ upc' = [upc EXCEPT ![u] = "hold"]
        /\ UNCHANGED <<total, tasks, ucon>>
     \/ /\ total' = total - 1
        /\ tasks' = AddConnectionRequest(total - 1, poolState, tasks)
        /\ ucon' = [ucon EXCEPT ![u] = NoConn]
        /\ upc' = [upc EXCEPT ![u] = IF upc[u] = "check1" THEN "poll1" ELSE "wait"]
        /\ UNCHANGED pending
  /\ UNCHANGED <<poolState, idle, apc, cpc>>

-----------------------------------------------------------------------------
(***************************************************************************)
(* Connection events, run in the thread that holds the connection.         *)
(***************************************************************************)

(* connectionClosed(): if the pool is OK and the item is not already idle, *)
(* start the reset (a server round trip) and push it back afterwards; if   *)
(* the pool is closing, close the connection and --totalConnection.       *)
ConnectionClosed(u) ==
  /\ upc[u] = "hold"
  /\ IF poolState = "OK"
     THEN /\ ucon[u] \notin Range(idle)
          /\ upc' = [upc EXCEPT ![u] = "reset"]
          /\ UNCHANGED <<total, ucon>>
     ELSE /\ total' = total - 1
          /\ upc' = [upc EXCEPT ![u] = "free"]
          /\ ucon' = [ucon EXCEPT ![u] = NoConn]
  /\ UNCHANGED <<poolState, pending, idle, tasks, apc, cpc>>

(* Variant: a failed reset closes the connection without decrementing.    *)
ResetConnectionNoDecrement(u) ==
  /\ upc[u] = "reset"
  /\ \/ idle' = Append(idle, ucon[u])
     \/ ResetCanFail /\ UNCHANGED idle
  /\ upc' = [upc EXCEPT ![u] = "free"]
  /\ ucon' = [ucon EXCEPT ![u] = NoConn]
  /\ UNCHANGED <<poolState, total, pending, tasks, apc, cpc>>

(* The reset finishes: push_back to the idle list (the pool state read     *)
(* before the reset is not read again), or, if reset() threw,             *)
(* --totalConnection and close the connection.                             *)
ResetConnection(u) ==
  /\ upc[u] = "reset"
  /\ \/ /\ idle' = Append(idle, ucon[u])
        /\ UNCHANGED total
     \/ /\ ResetCanFail
        /\ total' = total - 1
        /\ UNCHANGED idle
  /\ upc' = [upc EXCEPT ![u] = "free"]
  /\ ucon' = [ucon EXCEPT ![u] = NoConn]
  /\ UNCHANGED <<poolState, pending, tasks, apc, cpc>>

(* connectionErrorOccurred(): --totalConnection, erase the item from the   *)
(* idle list if it is there, close it, addConnectionRequest().            *)
ConnectionErrorOccurred(u) ==
  /\ upc[u] = "hold"
  /\ total' = total - 1
  /\ idle' = SelectSeq(idle, LAMBDA c : c # ucon[u])
  /\ tasks' = AddConnectionRequest(total - 1, poolState, tasks)
  /\ upc' = [upc EXCEPT ![u] = "free"]
  /\ ucon' = [ucon EXCEPT ![u] = NoConn]
  /\ UNCHANGED <<poolState, pending, apc, cpc>>

-----------------------------------------------------------------------------
(***************************************************************************)
(* Pool::close().                                                          *)
(***************************************************************************)

(* closeAll(): with the idle-list lock, abort and erase every idle item,   *)
(* decrementing totalConnection for each.                                  *)
CloseAllTotal == total - Len(idle)

(* Set CLOSING, zero pendingRequestNumber, cancel the eviction timer and   *)
(* shut the appender down (queued tasks still run; addConnection sees     *)
(* CLOSING and adds nothing).                                              *)
CloseStart ==
  /\ cpc = "none"
  /\ poolState' = "CLOSING"
  /\ pending' = 0
  /\ cpc' = "loop"
  /\ UNCHANGED <<total, idle, tasks, apc, upc, ucon>>

(* One pass of the do-while loop: closeAll, then leave the loop if         *)
(* totalConnection reached 0.                                              *)
CloseLoop ==
  /\ cpc = "loop"
  /\ total' = CloseAllTotal
  /\ idle' = <<>>
  /\ cpc' = IF CloseAllTotal > 0 THEN "loop" ELSE "final"
  /\ UNCHANGED <<poolState, pending, tasks, apc, upc, ucon>>

(* The 10 s deadline of the loop passes with connections still counted.  *)
CloseTimeout ==
  /\ cpc = "loop" /\ total > 0
  /\ cpc' = "final"
  /\ UNCHANGED <<poolState, total, pending, idle, tasks, apc, upc, ucon>>

(* Final pass: closeAll if connections remain or the idle list is empty,   *)
(* then Pools::remove and return.                                          *)
CloseFinal ==
  /\ cpc = "final"
  /\ IF total > 0 \/ idle = <<>>
     THEN total' = CloseAllTotal /\ idle' = <<>>
     ELSE UNCHANGED <<total, idle>>
  /\ cpc' = "done"
  /\ UNCHANGED <<poolState, pending, tasks, apc, upc, ucon>>

-----------------------------------------------------------------------------
(* The closed pool has come to rest: close() returned, no user thread is   *)
(* inside the pool, and the appender has nothing left to run.             *)
Quiescent ==
  /\ cpc = "done" /\ tasks = 0 /\ apc = "idle"
  /\ \A u \in Users : upc[u] = "free"
  /\ UNCHANGED vars

UserStep(u) ==
  \/ GetPoolConnectionAs(u)
  \/ CloseDedicated(u)
  \/ PollFirst(u)
  \/ PollWait(u)
  \/ WaitTimeout(u)
  \/ Validate(u)
  \/ ConnectionClosed(u)
  \/ ResetConnection(u)
  \/ ConnectionErrorOccurred(u)

Next ==
  \/ \E u \in Users : UserStep(u)
  \/ AppenderTake
  \/ AppenderConnect
  \/ RemoveIdleTimeoutConnection
  \/ CloseStart
  \/ CloseLoop
  \/ CloseTimeout
  \/ CloseFinal
  \/ Quiescent

(* The appender and scheduler threads and the library code inside          *)
(* getPoolConnection() and close() keep running; users and the caller of  *)
(* close() decide freely whether to call in at all.  The close loop sleeps *)
(* one second per pass, so its ten-second deadline passes if connections  *)
(* stay counted (WF of CloseTimeout).                                     *)
Fairness ==
  /\ WF_vars(AppenderTake) /\ WF_vars(AppenderConnect)
  /\ WF_vars(RemoveIdleTimeoutConnection)
  /\ WF_vars(CloseLoop) /\ WF_vars(CloseTimeout) /\ WF_vars(CloseFinal)
  /\ \A u \in Users : WF_vars(PollFirst(u) \/ PollWait(u) \/ WaitTimeout(u)
                              \/ Validate(u) \/ ResetConnection(u))

Spec == Init /\ [][Next]_vars /\ Fairness

-----------------------------------------------------------------------------
(***************************************************************************)
(* Properties.                                                             *)
(***************************************************************************)

TypeOK ==
  /\ poolState \in {"OK", "CLOSING"}
  /\ total \in Int /\ pending \in Int
  /\ idle \in Seq(Conns)
  /\ tasks \in 0..MaxPoolSize
  /\ apc \in {"idle", "connect"}
  /\ upc \in [Users -> UserPcs]
  /\ ucon \in [Users -> Conns \cup {NoConn}]
  /\ cpc \in {"none", "loop", "final", "done"}

(* totalConnection never exceeds maxPoolSize (spec section 3), whatever    *)
(* interleaving of appender tasks, evictions and connection events.       *)
PoolBound == total <= MaxPoolSize

(* totalConnection equals the number of connections the pool really has:  *)
(* idle, being validated, handed out, or being reset.  Every path that     *)
(* drops a connection (failed validation, eviction, reset failure,         *)
(* connection error, closeAll, close while CLOSING) decrements exactly     *)
(* once, and creation increments exactly once.                            *)
CountMatches == total = Cardinality(Counted)

(* A connection is in at most one place: the idle list holds it at most   *)
(* once, and it is never idle while a user thread owns it, nor owned by    *)
(* two user threads (spec section 8, idle consistency).                   *)
Exclusive ==
  /\ IsInjective(idle)
  /\ \A u \in Users : upc[u] \in Owning => ucon[u] \notin Range(idle)
  /\ \A u, v \in Users :
       (u # v /\ upc[u] \in Owning /\ upc[v] \in Owning) => ucon[u] # ucon[v]

(* While the pool is OK, pendingRequestNumber counts exactly the threads   *)
(* inside getPoolConnection(): every path out of it (hit, validated item,  *)
(* timeout) decrements once.                                               *)
PendingMatches ==
  poolState = "OK" =>
    pending = Cardinality({u \in Users : upc[u] \in {"poll1", "wait", "check1", "check2"}})

(* Once close() has returned, no connection is ever parked in the idle    *)
(* list of the closed pool (it would never be closed).                     *)
ClosedPoolHasNoIdle == cpc = "done" => idle = <<>>

(* While the pool is OK, a drop below minPoolSize is eventually repaired   *)
(* (spec 4.1: each release requests a replacement to maintain the floor). *)
MinRestored ==
  [](poolState = "OK" /\ total < MinPoolSize =>
       <>(total >= MinPoolSize \/ poolState = "CLOSING"))

=============================================================================
