--------------------------- MODULE SharedConnection ---------------------------
(***************************************************************************)
(* A streamed SelectResultSetCapi together with the other commands run on *)
(* its connection.  Two parties use the connection's lock,                *)
(* protocol->getLock():                                                    *)
(*   - the application thread that owns the result set reads it with      *)
(*     next() and the getters, and closes or destroys it;                 *)
(*   - another statement of the connection (executeInternal() of a        *)
(*     ServerSidePreparedStatement, run by the same or another thread)    *)
(*     takes the lock for its whole command and, before the command is    *)
(*     sent, the protocol reads the active streaming result into its      *)
(*     cache (spec section 4.3: fetchRemaining() is used before a new     *)
(*     command may be sent on the same connection).                       *)
(* next() is two steps: it decides without the lock that the rows held    *)
(* are used up and the stream is unfinished, then takes the lock and      *)
(* reads the next chunk unless the stream has ended meanwhile.  A command *)
(* is one step: nothing of the result set changes while it holds the lock *)
(* except what its drain does.  The drain itself is one step, so an       *)
(* unlocked read sees the result set before or after it.                  *)
(***************************************************************************)
EXTENDS SelectResultSetCapi

VARIABLES
  apc,           \* application thread: "idle", or "chunk" when next() waits
                 \* for the lock to read the next chunk
  lastDelivered  \* history: the server row the last next() that returned
                 \* true stood on (0 before any)

svars == <<vars, apc, lastDelivered>>

SharedInit ==
  /\ Init
  /\ apc = "idle"
  /\ lastDelivered = 0

(* What next() returns once rowPointer is set: whether it is on a row.    *)
NextReturned(r) == 0 <= r.rowPointer /\ r.rowPointer < r.dataSize

Delivered(t) == IF NextReturned(t) THEN Current(t) ELSE lastDelivered

(* next() up to the lock: the closed check, then a move within the rows   *)
(* held, or the decision to read the next chunk, or, with nothing left to *)
(* read, rowPointer = dataSize and false.                                  *)
NextUnlocked ==
  /\ apc = "idle" /\ alive /\ ~rs.closed
  /\ \/ /\ rs.rowPointer < rs.dataSize - 1
        /\ rs' = [rs EXCEPT !.rowPointer = @ + 1]
        /\ lastDelivered' = Delivered(rs')
        /\ UNCHANGED apc
     \/ /\ rs.rowPointer >= rs.dataSize - 1 /\ rs.streaming /\ ~rs.isEof
        /\ apc' = "chunk"
        /\ UNCHANGED <<rs, lastDelivered>>
     \/ /\ rs.rowPointer >= rs.dataSize - 1 /\ ~(rs.streaming /\ ~rs.isEof)
        /\ rs' = [rs EXCEPT !.rowPointer = rs.dataSize]
        /\ UNCHANGED <<apc, lastDelivered>>
  /\ UNCHANGED <<rows, serverFailed, alive, terminated, aborted>>

(* next() with the lock held: read the next chunk if the stream has not   *)
(* ended in the meantime, then restart at 0 (forward-only) or step on     *)
(* (scrollable) whether or not a chunk was read.  A failed read throws    *)
(* and leaves rowPointer.                                                  *)
NextLocked ==
  /\ apc = "chunk"
  /\ LET s == IF ~rs.isEof THEN NextStreamingValue(rs) ELSE rs
         t == IF s.thrown THEN s
              ELSE IF rs.scroll = FO THEN [s EXCEPT !.rowPointer = 0]
              ELSE [s EXCEPT !.rowPointer = @ + 1]
     IN /\ rs' = Return(t)
        /\ lastDelivered' = IF t.thrown THEN lastDelivered ELSE Delivered(t)
  /\ apc' = "idle"
  /\ UNCHANGED <<rows, serverFailed, alive, terminated, aborted>>

(* Another command on the connection: with the lock held, the active      *)
(* streaming result (one not yet at EOF) is read into its cache.          *)
OtherCommand ==
  /\ alive /\ ~rs.isEof
  /\ rs' = Return(CacheCompleteLocally(rs))
  /\ UNCHANGED <<rows, serverFailed, alive, terminated, aborted, apc,
                 lastDelivered>>

(* A call of the application thread other than next().                    *)
AppCall(A) == apc = "idle" /\ A /\ UNCHANGED <<apc, lastDelivered>>

SharedNext ==
  \/ NextUnlocked \/ NextLocked \/ OtherCommand
  \/ AppCall(DoGetValue) \/ AppCall(DoClose) \/ AppCall(Destroy)
  \/ ConnectionFails /\ UNCHANGED <<apc, lastDelivered>>
  \/ Destroyed /\ UNCHANGED <<apc, lastDelivered>>

SharedSpec == SharedInit /\ [][SharedNext]_svars

-----------------------------------------------------------------------------
(* A call of next() that ends, with or without a chunk read.              *)
NextCompletes == (NextUnlocked /\ apc' = "idle") \/ NextLocked

(* next() hands the application the rows of the result one by one in the *)
(* server's order: each call that returns true stands on the row after   *)
(* the one the previous such call stood on, whatever other commands of   *)
(* the connection drained into the cache before or during the call.      *)
RowsDeliveredInOrder ==
  [][NextCompletes /\ NextReturned(rs') => Current(rs') = lastDelivered + 1]_svars

====
