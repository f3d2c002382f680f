----------------------------- MODULE PrepareShare -----------------------------
(***************************************************************************)
(* Lifetime of one server-side prepared statement handle                   *)
(* (ServerPrepareResult) shared by several ServerSidePreparedStatement     *)
(* objects of one connection.  Each statement ends its use of the handle   *)
(* either through close() (src/ServerSidePreparedStatement.cpp), which     *)
(* hands it to protocol->releasePrepareStatement under the protocol lock,  *)
(* or through its destructor, which takes no protocol lock and calls       *)
(* canBeDeallocate() / decrementShareCounter() itself.                     *)
(*                                                                         *)
(* ServerPrepareResult's methods and releasePrepareStatement are not in    *)
(* src/; they follow spec section 4.2: the counter is atomic,              *)
(* decrementShareCounter never frees, canDeallocate() is true iff the      *)
(* counter is 0 and the being-deallocated flag is unset, and sets the flag *)
(* when it answers true.  Every step on the handle is atomic (its own      *)
(* mutex); a statement's steps are separate, so the destructor of one      *)
(* statement interleaves with close() of another.                          *)
(*                                                                         *)
(* clone() creates a further statement that prepares the same SQL on the  *)
(* same connection: following spec 4.2 it takes a share of the handle     *)
(* (protocol->prepare finds it still registered), or the prepare fails.   *)
(* setParameter() and executeInternal() read serverPrepareResult before   *)
(* any closed check; executeInternal() then runs the query under the      *)
(* protocol lock.                                                          *)
(***************************************************************************)
EXTENDS Integers, FiniteSets

CONSTANTS Stmts,     \* statement objects sharing the handle
          NoStmt     \* the protocol lock is free

ASSUME NoStmt \notin Stmts

VARIABLES
  pc,            \* per statement: "unborn", "idle", "exec", "relDec",
                 \* "relCheck", "relFree", "dtorDec", "gone", "leaked"
  stmtClosed,    \* stmt->isClosed()
  holds,         \* serverPrepareResult != nullptr
  lock,          \* holder of *protocol->getLock()
  shareCounter,  \* ServerPrepareResult::shareCounter
  beingDealloc,  \* ServerPrepareResult::isBeingDeallocate
  freed,         \* number of times the handle was deleted
  nullDeref      \* a statement dereferenced serverPrepareResult == nullptr

vars == <<pc, stmtClosed, holds, lock, shareCounter, beingDealloc, freed,
          nullDeref>>

Pcs == {"unborn", "idle", "exec", "relDec", "relCheck", "relFree",
        "dtorDec", "gone", "leaked"}

\* Statements built by the constructor, each sharing the handle (a failed
\* prepare() throws out of the constructor, so no object is left); the
\* statements in U are created later by clone().
Init ==
  \E U \in SUBSET Stmts :
    /\ U # Stmts
    /\ pc = [s \in Stmts |-> IF s \in U THEN "unborn" ELSE "idle"]
    /\ holds = [s \in Stmts |-> s \notin U]
    /\ stmtClosed = [s \in Stmts |-> s \in U]
    /\ lock = NoStmt
    /\ shareCounter = Cardinality(Stmts \ U)
    /\ beingDealloc = FALSE
    /\ freed = 0
    /\ nullDeref = FALSE

\* Variant: deallocation allowed while one share is still counted.
CanBeDeallocateLastShare == shareCounter <= 1 /\ ~beingDealloc

\* canBeDeallocate(): answers and, when true, sets the flag (spec 4.2).
CanBeDeallocate == shareCounter = 0 /\ ~beingDealloc

\* close(): a second call returns at the isClosed() check; otherwise mark
\* the statement closed under the protocol lock and release the handle.
Close(s) ==
  /\ pc[s] = "idle"
  /\ ~stmtClosed[s]
  /\ lock = NoStmt
  /\ stmtClosed' = [stmtClosed EXCEPT ![s] = TRUE]
  /\ IF holds[s]
     THEN pc' = [pc EXCEPT ![s] = "relDec"] /\ lock' = s
     ELSE UNCHANGED <<pc, lock>>
  /\ UNCHANGED <<holds, shareCounter, beingDealloc, freed, nullDeref>>

\* releasePrepareStatement: give up this statement's share ...
ReleaseDecrement(s) ==
  /\ pc[s] = "relDec"
  /\ shareCounter' = shareCounter - 1
  /\ pc' = [pc EXCEPT ![s] = "relCheck"]
  /\ UNCHANGED <<stmtClosed, holds, lock, beingDealloc, freed, nullDeref>>

\* Variant: close() keeps serverPrepareResult after releasing it.
ReleaseCheckKeepsHandle(s) ==
  /\ pc[s] = "relCheck"
  /\ IF CanBeDeallocate
     THEN /\ beingDealloc' = TRUE
          /\ pc' = [pc EXCEPT ![s] = "relFree"]
          /\ UNCHANGED <<holds, lock>>
     ELSE /\ pc' = [pc EXCEPT ![s] = "idle"]
          /\ lock' = NoStmt
          /\ UNCHANGED <<beingDealloc, holds>>
  /\ UNCHANGED <<stmtClosed, shareCounter, freed, nullDeref>>

\* ... free the handle if canBeDeallocate() says so; otherwise set
\* serverPrepareResult to nullptr and leave close() (unlocking).
ReleaseCheck(s) ==
  /\ pc[s] = "relCheck"
  /\ IF CanBeDeallocate
     THEN /\ beingDealloc' = TRUE
          /\ pc' = [pc EXCEPT ![s] = "relFree"]
          /\ UNCHANGED <<holds, lock>>
     ELSE /\ pc' = [pc EXCEPT ![s] = "idle"]
          /\ holds' = [holds EXCEPT ![s] = FALSE]
          /\ lock' = NoStmt
          /\ UNCHANGED beingDealloc
  /\ UNCHANGED <<stmtClosed, shareCounter, freed, nullDeref>>

ReleaseFree(s) ==
  /\ pc[s] = "relFree"
  /\ freed' = freed + 1
  /\ pc' = [pc EXCEPT ![s] = "idle"]
  /\ holds' = [holds EXCEPT ![s] = FALSE]
  /\ lock' = NoStmt
  /\ UNCHANGED <<stmtClosed, shareCounter, beingDealloc, nullDeref>>

\* Variant: the destructor does not check serverPrepareResult for nullptr.
DestroyNoHoldsCheck(s) ==
  /\ pc[s] = "idle"
  /\ IF CanBeDeallocate
     THEN /\ beingDealloc' = TRUE
          /\ freed' = freed + 1
          /\ pc' = [pc EXCEPT ![s] = "gone"]
          /\ holds' = [holds EXCEPT ![s] = FALSE]
     ELSE /\ pc' = [pc EXCEPT ![s] = "dtorDec"]
          /\ UNCHANGED <<beingDealloc, freed, holds>>
  /\ UNCHANGED <<stmtClosed, lock, shareCounter, nullDeref>>

\* ~ServerSidePreparedStatement: if it still holds the handle, delete it
\* when canBeDeallocate() is true, else take the share off the counter.
Destroy(s) ==
  /\ pc[s] = "idle"
  /\ IF holds[s] /\ CanBeDeallocate
     THEN /\ beingDealloc' = TRUE
          /\ freed' = freed + 1
          /\ pc' = [pc EXCEPT ![s] = "gone"]
          /\ holds' = [holds EXCEPT ![s] = FALSE]
     ELSE /\ pc' = [pc EXCEPT ![s] = IF holds[s] THEN "dtorDec" ELSE "gone"]
          /\ UNCHANGED <<beingDealloc, freed, holds>>
  /\ UNCHANGED <<stmtClosed, lock, shareCounter, nullDeref>>

DestroyDecrement(s) ==
  /\ pc[s] = "dtorDec"
  /\ shareCounter' = shareCounter - 1
  /\ pc' = [pc EXCEPT ![s] = "gone"]
  /\ holds' = [holds EXCEPT ![s] = FALSE]
  /\ UNCHANGED <<stmtClosed, lock, beingDealloc, freed, nullDeref>>

\* clone() of s makes the statement t and prepares the same SQL under the
\* protocol lock: while the handle is registered (not being deallocated)
\* t takes a share of it; if prepare() fails, it closes t and rethrows,
\* and clone() throws without deleting t, which nobody can reach any more.
Clone(s, t) ==
  /\ pc[s] = "idle" /\ pc[t] = "unborn"
  /\ lock = NoStmt
  /\ \/ /\ ~beingDealloc /\ freed = 0
        /\ shareCounter' = shareCounter + 1
        /\ pc' = [pc EXCEPT ![t] = "idle"]
        /\ holds' = [holds EXCEPT ![t] = TRUE]
        /\ stmtClosed' = [stmtClosed EXCEPT ![t] = FALSE]
     \/ /\ pc' = [pc EXCEPT ![t] = "leaked"]
        /\ stmtClosed' = [stmtClosed EXCEPT ![t] = TRUE]
        /\ UNCHANGED <<shareCounter, holds>>
  /\ UNCHANGED <<lock, beingDealloc, freed, nullDeref>>

\* setParameter() (bindParameters): the index is checked against
\* serverPrepareResult->getParamCount() with no closed check first; on a
\* statement that holds no handle that is a null dereference.  With a
\* handle, storing or rejecting the parameter changes nothing modelled.
SetParameter(s) ==
  /\ pc[s] = "idle" /\ ~holds[s]
  /\ nullDeref' = TRUE
  /\ UNCHANGED <<pc, stmtClosed, holds, lock, shareCounter, beingDealloc,
                 freed>>

\* toString() and getServerThreadId() read serverPrepareResult (its SQL,
\* its protocol) with no closed check either: a null dereference on a
\* statement that holds no handle, and nothing changed otherwise.
Describe(s) ==
  /\ pc[s] = "idle" /\ ~holds[s]
  /\ nullDeref' = TRUE
  /\ UNCHANGED <<pc, stmtClosed, holds, lock, shareCounter, beingDealloc,
                 freed>>

\* executeInternal(): validateParamset(serverPrepareResult->getParamCount())
\* before the lock (a null dereference without a handle), then the lock.
ExecuteStart(s) ==
  /\ pc[s] = "idle"
  /\ IF holds[s]
     THEN /\ lock = NoStmt
          /\ lock' = s
          /\ pc' = [pc EXCEPT ![s] = "exec"]
          /\ UNCHANGED nullDeref
     ELSE /\ nullDeref' = TRUE
          /\ UNCHANGED <<lock, pc>>
  /\ UNCHANGED <<stmtClosed, holds, shareCounter, beingDealloc, freed>>

\* executeQueryPrologue (checkClose), resetParameterTypeHeader and
\* executePreparedQuery on the handle; executeEpilogue and the unlock,
\* whether the query succeeded or threw.
ExecuteRun(s) ==
  /\ pc[s] = "exec"
  /\ pc' = [pc EXCEPT ![s] = "idle"]
  /\ lock' = NoStmt
  /\ UNCHANGED <<stmtClosed, holds, shareCounter, beingDealloc, freed,
                 nullDeref>>

\* Every statement object has been destroyed or can no longer be reached.
AllGone ==
  /\ \A s \in Stmts : pc[s] \in {"gone", "leaked", "unborn"}
  /\ UNCHANGED vars

Next ==
  \/ \E s \in Stmts :
       \/ Close(s) \/ ReleaseDecrement(s) \/ ReleaseCheck(s) \/ ReleaseFree(s)
       \/ Destroy(s) \/ DestroyDecrement(s)
       \/ SetParameter(s) \/ Describe(s) \/ ExecuteStart(s) \/ ExecuteRun(s)
       \/ \E t \in Stmts : Clone(s, t)
  \/ AllGone

Spec == Init /\ [][Next]_vars

-----------------------------------------------------------------------------
TypeOK ==
  /\ pc \in [Stmts -> Pcs]
  /\ stmtClosed \in [Stmts -> BOOLEAN]
  /\ holds \in [Stmts -> BOOLEAN]
  /\ lock \in Stmts \cup {NoStmt}
  /\ shareCounter \in 0..Cardinality(Stmts)
  /\ beingDealloc \in BOOLEAN
  /\ freed \in Nat
  /\ nullDeref \in BOOLEAN

\* A statement whose share is still counted: it holds the handle (and may
\* be executing on it) and has not yet taken its share off the counter in
\* close() or its destructor.
Sharing(s) == holds[s] /\ pc[s] \in {"idle", "exec", "relDec", "dtorDec"}

\* Spec 8, refcount safety: the share counter equals the number of
\* statements still using the handle, whatever order close() and the
\* destructors of the statements run in.
CounterMatches ==
  shareCounter = Cardinality({s \in Stmts : Sharing(s)})

\* Spec 8, refcount safety: the handle is deleted at most once, and never
\* while a statement still uses it.
FreedOnceAfterLastUse ==
  /\ freed <= 1
  /\ freed > 0 => \A s \in Stmts : ~Sharing(s)

\* Spec 7, use-after-close: every public entry point of a statement checks
\* the closed flag first and fails with an error rather than undefined
\* behaviour; setParameter() and executeInternal() after close() (or after
\* a failed prepare) must not dereference the null serverPrepareResult.
ClosedStatementFailsCleanly == ~nullDeref
=============================================================================
