------------------------- MODULE SelectResultSetCapi -------------------------
(***************************************************************************)
(* The text-protocol result set of the connector (SelectResultSetCapi):   *)
(* a cursor over the rows of one query result.  With fetchSize 0 the      *)
(* whole result is stored by the client library (mysql_store_result) and  *)
(* the cursor seeks in it; otherwise the result is streamed               *)
(* (mysql_use_result): rows are read from the wire in chunks of fetchSize, *)
(* and kept in the local cache `data` only when a chunk is read with      *)
(* cacheLocally set.                                                      *)
(*                                                                         *)
(* Rows are abstracted to their number 1..rows in the server's order.     *)
(* The object is one record `rs` whose fields are the members of the      *)
(* class; each public method is an operator from record to record, so a   *)
(* method that calls another (last() calls fetchRemaining()) is a         *)
(* composition, and one call is one atomic step: every method runs with   *)
(* the connection lock or on the thread that owns the cursor.             *)
(***************************************************************************)
EXTENDS Integers, Sequences, FiniteSets

CONSTANTS
  MaxRows,      \* largest number of rows a result has
  Modes,        \* the <<scroll type, fetch size>> pairs a statement may use
  FetchSizes,   \* the values setFetchSize() may be called with
  ReadCanFail,  \* whether the connection may fail while rows are unread
  Calls,        \* the methods the application calls (a usage profile)
  FilledScrolls \* the scroll types of result sets built from rows in hand

FO == "FORWARD_ONLY"
SCROLL == "SCROLL_INSENSITIVE"
ScrollTypes == {FO, SCROLL}

ASSUME MaxRows \in Nat /\ Modes \subseteq ScrollTypes \X Nat
Methods == {"next", "get", "isAfterLast", "isLast", "beforeFirst", "first",
            "afterLast", "last", "absolute", "relative", "previous",
            "setFetchSize", "cacheCompleteLocally", "close", "abort"}

ASSUME FetchSizes \subseteq Nat /\ ReadCanFail \in BOOLEAN
ASSUME Calls \subseteq Methods /\ FilledScrolls \subseteq ScrollTypes

(* A row buffer slot that holds no row: growDataArray() pushes empty      *)
(* vectors, and mysql_fetch_row() returns NULL at the end of the data.    *)
NoRow == 0
(* What the row object shows when it points at a cache slot that is not   *)
(* there: data[k] read past data.size().                                   *)
Garbage == -1
(* rowSrc value: the row object reads the client library's current row,   *)
(* not a slot of the cache.                                                *)
Capi == -1

(* dataFetchTime is only compared with 0, 1 and "more than 1"             *)
(* (isBeforeFirst, isAfterLast, setFetchSize); it is kept saturated here. *)
FetchTimeCap == 2

VARIABLES
  rows,          \* the number of rows of the server's result
  serverFailed,  \* the connection has failed: every further read throws
  rs,            \* the SelectResultSetCapi object
  alive,         \* the object has not been destroyed
  terminated,    \* an exception escaped the destructor: std::terminate()
  aborted        \* abort() has been called (history, for the properties)

vars == <<rows, serverFailed, rs, alive, terminated, aborted>>

(* The fields of rs are the class members of the same name; readCount is  *)
(* the number of rows taken from the wire (or, for a stored result, all   *)
(* of them), capiPos the stored result's seek position, capiRow the row   *)
(* mysql_fetch_row() returned last, rowSrc what the row object reads      *)
(* (a cache slot or the client library's row), oob whether the object has *)
(* indexed data past its size, thrown whether the last call threw.        *)
RS == [fetchSize : Nat, scroll : ScrollTypes, streaming : BOOLEAN,
       isEof : BOOLEAN, closed : BOOLEAN, data : Seq(0..MaxRows),
       dataSize : 0..MaxRows, rowPointer : -1..MaxRows + 1,
       lastRowPointer : -1..MaxRows, dft : 0..FetchTimeCap,
       capiRow : 0..MaxRows, capiPos : 0..MaxRows, readCount : 0..MaxRows,
       rowSrc : {Capi} \cup (0..MaxRows), oob : BOOLEAN, thrown : BOOLEAN]

-----------------------------------------------------------------------------
(***************************************************************************)
(* Reading from the wire.                                                  *)
(***************************************************************************)

(* growDataArray(false): push one empty row (curSize + 1).                *)
GrowDataArray(r) == [r EXCEPT !.data = Append(@, NoRow)]

(* readNextValue(cacheLocally): fetch one row.  A failed connection makes *)
(* the fetch return 1 with mysql_errno set, and SQLException is thrown;   *)
(* at the end of the data the EOF status is read and resetVariables()     *)
(* sets isEof.  Otherwise the row is copied to data[dataSize] if          *)
(* cacheLocally (growing the array by one when dataSize + 1 >= size), and *)
(* dataSize is incremented in every case.                                  *)
ReadNextValue(r, cacheLocally) ==
  IF serverFailed THEN [r EXCEPT !.thrown = TRUE]
  ELSE IF r.readCount = rows
  THEN [r EXCEPT !.isEof = TRUE, !.capiRow = NoRow]
  ELSE LET row == r.readCount + 1
           g == IF cacheLocally /\ r.dataSize + 1 >= Len(r.data)
                THEN GrowDataArray(r) ELSE r
           fits == r.dataSize < Len(g.data)
       IN [g EXCEPT !.readCount = row, !.capiRow = row,
                    !.dataSize = r.dataSize + 1,
                    !.data = IF cacheLocally /\ fits
                             THEN [@ EXCEPT ![r.dataSize + 1] = row] ELSE @,
                    !.oob = @ \/ (cacheLocally /\ ~fits)]

(* addStreamingValue(cacheLocally) (SelectResultSet): read up to          *)
(* fetchSize rows, stopping at the end of the data, then ++dataFetchTime. *)
RECURSIVE ReadChunk(_, _, _)
ReadChunk(r, cacheLocally, n) ==
  IF n = 0 \/ r.isEof \/ r.thrown THEN r
  ELSE ReadChunk(ReadNextValue(r, cacheLocally), cacheLocally, n - 1)

FetchTimeInc(r) == [r EXCEPT !.dft = IF @ < FetchTimeCap THEN @ + 1 ELSE @]

AddStreamingValue(r, cacheLocally) ==
  LET s == ReadChunk(r, cacheLocally, r.fetchSize)
  IN IF s.thrown THEN s ELSE FetchTimeInc(s)

(* while (!isEof) addStreamingValue(cacheLocally);                        *)
RECURSIVE DrainStream(_, _)
DrainStream(r, cacheLocally) ==
  IF r.isEof \/ r.thrown THEN r
  ELSE DrainStream(AddStreamingValue(r, cacheLocally), cacheLocally)

(* nextStreamingValue(): a forward-only cursor forgets the rows it has    *)
(* (dataSize = 0); the next chunk is cached only when fetchSize > 1.      *)
(* Variant: a forward-only stream keeps the rows of the previous chunk   *)
(* (dataSize not reset) when it reads the next one.                        *)
NextStreamingValueKeepsRows(r) ==
  AddStreamingValue([r EXCEPT !.lastRowPointer = -1], r.fetchSize > 1)

NextStreamingValue(r) ==
  LET s == [r EXCEPT !.lastRowPointer = -1,
                     !.dataSize = IF r.scroll = FO THEN 0 ELSE @]
  IN AddStreamingValue(s, r.fetchSize > 1)

-----------------------------------------------------------------------------
(***************************************************************************)
(* The row object (TextRowProtocolCapi) and resetRow().                    *)
(***************************************************************************)

(* installCursorAtPosition(rowPointer): mysql_data_seek() repositions a   *)
(* stored result; on a streamed result there is no stored data to seek    *)
(* in and the stream is left as it is.                                     *)
InstallCursorAtPosition(r) ==
  IF r.streaming THEN r ELSE [r EXCEPT !.capiPos = r.rowPointer]

(* fetchNext() on a stored result: mysql_fetch_row() at the seek position.*)
StoredFetchNext(r) ==
  IF r.capiPos < rows
  THEN [r EXCEPT !.capiRow = r.capiPos + 1, !.capiPos = @ + 1]
  ELSE [r EXCEPT !.capiRow = NoRow]

(* Variant: resetRow() never repositions the client library's result.    *)
ResetRowNoSeek(r) ==
  LET c == IF Len(r.data) > 0
           THEN [r EXCEPT !.rowSrc = r.rowPointer,
                          !.oob = @ \/ r.rowPointer >= Len(r.data)]
           ELSE LET f == IF ~r.streaming THEN StoredFetchNext(r) ELSE r
                IN [f EXCEPT !.rowSrc = Capi]
  IN [c EXCEPT !.lastRowPointer = r.rowPointer]

(* resetRow(): point the row object at data[rowPointer] when the cache is *)
(* non-empty; otherwise use the client library's row, seeking first when  *)
(* the position is not the one after the last installed, and fetching   *)
(* when the result is not streamed.                                        *)
ResetRow(r) ==
  LET c == IF Len(r.data) > 0
           THEN [r EXCEPT !.rowSrc = r.rowPointer,
                          !.oob = @ \/ r.rowPointer >= Len(r.data)]
           ELSE LET s == IF r.rowPointer # r.lastRowPointer + 1
                         THEN InstallCursorAtPosition(r) ELSE r
                    f == IF ~r.streaming THEN StoredFetchNext(s) ELSE s
                IN [f EXCEPT !.rowSrc = Capi]
  IN [c EXCEPT !.lastRowPointer = r.rowPointer]

(* The row a getter returns once the row object is installed.             *)
Exposed(r) ==
  IF r.rowSrc = Capi THEN r.capiRow
  ELSE IF r.rowSrc < Len(r.data) THEN r.data[r.rowSrc + 1] ELSE Garbage

(* The server row the cursor is on: the rows already dropped by a         *)
(* forward-only cursor, plus the position within the rows it holds.       *)
Current(r) == r.readCount - r.dataSize + r.rowPointer + 1

-----------------------------------------------------------------------------
(* The constructor: fetchSize 0 stores the whole result (dataSize = rows, *)
(* resetVariables() sets isEof); otherwise the result is streamed and the *)
(* first chunk is read by nextStreamingValue().                            *)
NewResultSet(n, mode) ==
  LET sc == mode[1]
      fs == mode[2]
      r == [fetchSize |-> fs, scroll |-> sc, streaming |-> fs # 0,
            isEof |-> fs = 0, closed |-> FALSE, data |-> <<>>,
            dataSize |-> IF fs = 0 THEN n ELSE 0, rowPointer |-> -1,
            lastRowPointer |-> -1, dft |-> 0, capiRow |-> NoRow,
            capiPos |-> 0, readCount |-> IF fs = 0 THEN n ELSE 0,
            rowSrc |-> Capi, oob |-> FALSE, thrown |-> FALSE]
  IN IF fs = 0 THEN r ELSE NextStreamingValue(r)

(* The constructor of a filled result set (from rows the connector holds, *)
(* with no connection behind it): the rows are moved into data, isEof is  *)
(* set, fetchSize is 0, and there is no client-library result to seek.   *)
NewFilledResultSet(n, sc) ==
  [fetchSize |-> 0, scroll |-> sc, streaming |-> FALSE, isEof |-> TRUE,
   closed |-> FALSE, data |-> [i \in 1..n |-> i], dataSize |-> n,
   rowPointer |-> -1, lastRowPointer |-> -1, dft |-> 0, capiRow |-> NoRow,
   capiPos |-> 0, readCount |-> n, rowSrc |-> Capi, oob |-> FALSE,
   thrown |-> FALSE]

Init ==
  /\ rows \in 0..MaxRows
  /\ serverFailed = FALSE
  /\ alive = TRUE
  /\ terminated = FALSE
  /\ aborted = FALSE
  /\ \/ \E mode \in Modes : rs = NewResultSet(rows, mode)
     \/ \E sc \in FilledScrolls : rs = NewFilledResultSet(rows, sc)

-----------------------------------------------------------------------------
(***************************************************************************)
(* The public methods, as operators on the object.  A method that throws  *)
(* before changing anything (checkClose(), the TYPE_FORWARD_ONLY checks)  *)
(* is a step that changes nothing and is left out.                         *)
(***************************************************************************)

(* fetchRemaining(): drain the stream into the cache.  With fetchSize 1   *)
(* the row the client library holds is first copied into the cache:      *)
(* --dataSize, growDataArray(), cacheCurrentRow(data[dataSize]),          *)
(* rowPointer = 0, resetRow(), ++dataSize.                                 *)
CacheCurrentRow(r) ==
  LET k == r.dataSize - 1
      g == GrowDataArray(r)
      fits == k < Len(g.data)
      c == [g EXCEPT !.data = IF fits THEN [@ EXCEPT ![k + 1] = r.capiRow]
                              ELSE @,
                     !.oob = @ \/ ~fits, !.rowPointer = 0]
  IN [ResetRow(c) EXCEPT !.dataSize = k + 1]

FetchRemaining(r) ==
  IF r.isEof THEN r
  ELSE LET s == [r EXCEPT !.lastRowPointer = -1]
           c == IF s.dataSize > 0 /\ s.fetchSize = 1
                THEN CacheCurrentRow(s) ELSE s
           d == DrainStream(c, TRUE)
       IN IF d.thrown THEN d ELSE FetchTimeInc(d)

(* next(): move within the rows held; past them, a streaming cursor reads *)
(* the next chunk (a forward-only one restarts at 0), and otherwise the   *)
(* cursor goes after the last row.  A failed read leaves rowPointer.      *)
NextRow(r) ==
  IF r.rowPointer < r.dataSize - 1 THEN [r EXCEPT !.rowPointer = @ + 1]
  ELSE IF r.streaming /\ ~r.isEof
  THEN LET s == NextStreamingValue(r)
       IN IF s.thrown THEN s
          ELSE IF r.scroll = FO THEN [s EXCEPT !.rowPointer = 0]
          ELSE [s EXCEPT !.rowPointer = @ + 1]
  ELSE [r EXCEPT !.rowPointer = r.dataSize]

(* A getter: checkObjectRange() then resetRow() if the row object is not  *)
(* installed for the current position.                                     *)
GetValue(r) ==
  IF r.lastRowPointer # r.rowPointer THEN ResetRow(r) ELSE r

(* isAfterLast(): when past the rows held of an unfinished stream, read   *)
(* one more chunk (not cached) to learn whether the data has ended.       *)
IsAfterLast(r) ==
  IF r.rowPointer < 0 \/ r.rowPointer < r.dataSize THEN r
  ELSE IF r.streaming /\ ~r.isEof THEN AddStreamingValue(r, FALSE)
  ELSE r

(* Variant: the look-ahead of isLast() reads the chunk the way next()     *)
(* does, dropping the rows a forward-only cursor holds.                    *)
IsLastLikeNext(r) ==
  IF r.rowPointer + 1 < r.dataSize \/ r.isEof THEN r
  ELSE NextStreamingValue(r)

(* isLast(): on the last row held of an unfinished result, read one more  *)
(* chunk (not cached) to learn whether another row follows.               *)
IsLast(r) ==
  IF r.rowPointer + 1 < r.dataSize \/ r.isEof THEN r
  ELSE AddStreamingValue(r, FALSE)

(* Whether positioning other than next() is refused: TYPE_FORWARD_ONLY    *)
(* while streaming.                                                        *)
ForwardOnlyStream(r) == r.streaming /\ r.scroll = FO

(* The answers of the position queries, from the object before the call  *)
(* (the look-ahead of isAfterLast() and isLast() included).               *)
(* isBeforeFirst(): once a chunk has been read, only a non-empty result   *)
(* is before its first row.                                                *)
IsBeforeFirstAnswer(r) ==
  r.rowPointer = -1 /\ (r.dft > 0 => r.dataSize > 0)

(* isFirst(): the dataFetchTime == 1 test is commented out in the code.   *)
IsFirstAnswer(r) == r.rowPointer = 0 /\ r.dataSize > 0

(* isAfterLast(): past the rows held, after the look-ahead, the rows held *)
(* end at rowPointer; a finished result is after its last row unless it   *)
(* had none.                                                               *)
(* Variant: a finished result past its rows is after the last row even   *)
(* when it had none.                                                       *)
IsAfterLastAnswerNoEmptyCheck(r) ==
  IF r.rowPointer < 0 \/ r.rowPointer < r.dataSize THEN FALSE
  ELSE IF r.streaming /\ ~r.isEof THEN IsAfterLast(r).dataSize = r.rowPointer
  ELSE TRUE

IsAfterLastAnswer(r) ==
  IF r.rowPointer < 0 \/ r.rowPointer < r.dataSize THEN FALSE
  ELSE IF r.streaming /\ ~r.isEof THEN IsAfterLast(r).dataSize = r.rowPointer
  ELSE r.dataSize > 0 \/ r.dft > 1

(* isLast(): on the last row held of a result known (after the look-ahead) *)
(* to be finished.                                                         *)
IsLastAnswer(r) ==
  LET s == IsLast(r)
  IN /\ r.rowPointer + 1 >= r.dataSize
     /\ s.isEof /\ r.rowPointer = s.dataSize - 1 /\ s.dataSize > 0

(* getRow(): 0 on a forward-only stream, otherwise rowPointer + 1.       *)
GetRowAnswer(r) == IF r.streaming /\ r.scroll = FO THEN 0 ELSE r.rowPointer + 1

BeforeFirst(r) == [r EXCEPT !.rowPointer = -1]

First(r) == [r EXCEPT !.rowPointer = 0]

(* afterLast() and last(): drain an unfinished stream, then position.     *)
AfterLast(r) ==
  LET s == IF ~r.isEof THEN FetchRemaining(r) ELSE r
  IN IF s.thrown THEN s ELSE [s EXCEPT !.rowPointer = s.dataSize]

Last(r) ==
  LET s == IF ~r.isEof THEN FetchRemaining(r) ELSE r
  IN IF s.thrown THEN s ELSE [s EXCEPT !.rowPointer = s.dataSize - 1]

(* absolute(rowPos): a non-negative position within the rows held is set  *)
(* directly; otherwise the stream is drained and the position clamped to  *)
(* before-first or after-last; a negative one counts from the end.        *)
Absolute(r, rowPos) ==
  IF rowPos >= 0 /\ rowPos <= r.dataSize THEN [r EXCEPT !.rowPointer = rowPos - 1]
  ELSE LET s == IF ~r.isEof THEN FetchRemaining(r) ELSE r
       IN IF s.thrown THEN s
          ELSE IF rowPos >= 0
          THEN [s EXCEPT !.rowPointer = IF rowPos <= s.dataSize
                                        THEN rowPos - 1 ELSE s.dataSize]
          ELSE [s EXCEPT !.rowPointer = IF s.dataSize + rowPos >= 0
                                        THEN s.dataSize + rowPos ELSE -1]

(* Variant: relative() clamps at the end but not before the first row.   *)
RelativeNoLowerClamp(r, n) ==
  LET newPos == r.rowPointer + n
  IN [r EXCEPT !.rowPointer = IF newPos >= r.dataSize THEN r.dataSize
                              ELSE newPos]

(* relative(rows): clamp the new position to [-1, dataSize].              *)
Relative(r, n) ==
  LET newPos == r.rowPointer + n
  IN [r EXCEPT !.rowPointer = IF newPos <= -1 THEN -1
                              ELSE IF newPos >= r.dataSize THEN r.dataSize
                              ELSE newPos]

Previous(r) ==
  IF r.rowPointer > -1 THEN [r EXCEPT !.rowPointer = @ - 1] ELSE r

(* setFetchSize(n): setting 0 on a streaming result reads the rest of it  *)
(* (addStreamingValue() without caching) and leaves streaming set only if *)
(* dataFetchTime == 1.                                                     *)
SetFetchSize(r, n) ==
  IF r.streaming /\ n = 0
  THEN LET s == DrainStream(r, FALSE)
       IN IF s.thrown THEN s
          ELSE [s EXCEPT !.streaming = (s.dft = 1), !.fetchSize = 0]
  ELSE [r EXCEPT !.fetchSize = n]

(* cacheCompleteLocally(): called when another command is about to run on *)
(* the connection; a streamed result is fetched into the cache.           *)
CacheCompleteLocally(r) ==
  IF r.fetchSize > 0 THEN FetchRemaining(r) ELSE r

(* realClose(): mark closed and skip the unread rows (dataSize = 0;       *)
(* readNextValue() until EOF).  An SQLException from the read unlocks and *)
(* rethrows, leaving the rest undone; otherwise resetVariables() and      *)
(* data.clear().                                                           *)
RECURSIVE SkipRows(_)
SkipRows(r) ==
  IF r.isEof \/ r.thrown THEN r
  ELSE SkipRows(ReadNextValue([r EXCEPT !.dataSize = 0], FALSE))

(* Variant: close() marks the result finished without skipping the rows  *)
(* still on the wire.                                                      *)
RealCloseNoSkip(r) ==
  [r EXCEPT !.closed = TRUE, !.isEof = TRUE, !.data = <<>>]

RealClose(r) ==
  LET s == SkipRows([r EXCEPT !.closed = TRUE])
  IN IF s.thrown THEN s ELSE [s EXCEPT !.isEof = TRUE, !.data = <<>>]

(* ~SelectResultSetCapi(): a result that is not fully loaded (isEof not   *)
(* set) is read to its end by fetchAllResults(): dataSize = 0;            *)
(* while (readNextValue()); ++dataFetchTime.                               *)
RECURSIVE ReadAll(_)
ReadAll(r) ==
  IF r.isEof \/ r.thrown THEN r ELSE ReadAll(ReadNextValue(r, FALSE))

FetchAllResults(r) ==
  LET s == ReadAll([r EXCEPT !.dataSize = 0])
  IN IF s.thrown THEN s ELSE FetchTimeInc(s)

(* abort(): closed, resetVariables(), and every cached row cleared.       *)
AbortRs(r) ==
  [r EXCEPT !.closed = TRUE, !.isEof = TRUE,
            !.data = [i \in DOMAIN r.data |-> NoRow]]

-----------------------------------------------------------------------------
(***************************************************************************)
(* Actions: one call of a method by the application (or, for              *)
(* CacheCompleteLocally, by the statement that runs the next command on   *)
(* the connection).  The exception, if any, leaves the method.            *)
(***************************************************************************)

Return(r) == [r EXCEPT !.thrown = FALSE]

Call(r2) ==
  /\ alive
  /\ rs' = Return(r2)
  /\ UNCHANGED <<rows, serverFailed, alive, terminated, aborted>>

Offsets == -(MaxRows + 1)..(MaxRows + 1)

DoNext ==
  /\ "next" \in Calls
  /\ ~rs.closed
  /\ Call(NextRow(rs))

(* A typed getter (getString, getInt, getLong, ..., getDouble) with a     *)
(* valid column: checkObjectRange() throws, changing nothing, unless the   *)
(* cursor is on a row; it does not test isClosedFlag.  The conversion of   *)
(* the value reads the installed row and changes nothing.                  *)
DoGetValue ==
  /\ "get" \in Calls
  /\ rs.rowPointer >= 0 /\ rs.rowPointer < rs.dataSize
  /\ Call(GetValue(rs))

DoIsAfterLast ==
  /\ "isAfterLast" \in Calls
  /\ ~rs.closed
  /\ Call(IsAfterLast(rs))

DoIsLast ==
  /\ "isLast" \in Calls
  /\ ~rs.closed
  /\ Call(IsLast(rs))

DoBeforeFirst ==
  /\ "beforeFirst" \in Calls
  /\ ~rs.closed
  /\ ~ForwardOnlyStream(rs)
  /\ Call(BeforeFirst(rs))

DoFirst ==
  /\ "first" \in Calls
  /\ ~rs.closed
  /\ ~ForwardOnlyStream(rs)
  /\ Call(First(rs))

DoAfterLast ==
  /\ "afterLast" \in Calls
  /\ ~rs.closed
  /\ Call(AfterLast(rs))

DoLast ==
  /\ "last" \in Calls
  /\ ~rs.closed
  /\ Call(Last(rs))

DoAbsolute ==
  /\ "absolute" \in Calls
  /\ ~rs.closed /\ ~ForwardOnlyStream(rs)
  /\ \E n \in Offsets : Call(Absolute(rs, n))

DoRelative ==
  /\ "relative" \in Calls
  /\ ~rs.closed /\ ~ForwardOnlyStream(rs)
  /\ \E n \in Offsets : Call(Relative(rs, n))

DoPrevious ==
  /\ "previous" \in Calls
  /\ ~rs.closed
  /\ ~ForwardOnlyStream(rs)
  /\ Call(Previous(rs))

DoSetFetchSize ==
  /\ "setFetchSize" \in Calls
  /\ \E n \in FetchSizes : Call(SetFetchSize(rs, n))

DoCacheCompleteLocally ==
  /\ "cacheCompleteLocally" \in Calls
  /\ Call(CacheCompleteLocally(rs))

DoClose ==
  /\ "close" \in Calls
  /\ Call(RealClose(rs))

DoAbort ==
  /\ "abort" \in Calls
  /\ alive
  /\ rs' = Return(AbortRs(rs))
  /\ aborted' = TRUE
  /\ UNCHANGED <<rows, serverFailed, alive, terminated>>

(* The connection breaks (a network error, a server timeout) while rows   *)
(* of the streamed result are still unread.                                *)
ConnectionFails ==
  /\ ReadCanFail /\ alive /\ ~serverFailed /\ ~rs.isEof
  /\ serverFailed' = TRUE
  /\ UNCHANGED <<rows, rs, alive, terminated, aborted>>

(* The application destroys the object; the destructor's read of the     *)
(* unread rows may throw, and an exception leaving a destructor (noexcept *)
(* by default) terminates the process.                                     *)
Destroy ==
  /\ alive
  /\ LET s == IF ~rs.isEof THEN FetchAllResults(rs) ELSE rs
     IN /\ terminated' = s.thrown
        /\ rs' = Return(s)
  /\ alive' = FALSE
  /\ UNCHANGED <<rows, serverFailed, aborted>>

(* The object is gone: nothing is left to happen.                          *)
Destroyed == ~alive /\ UNCHANGED vars

Next ==
  \/ DoNext \/ DoGetValue \/ DoIsAfterLast \/ DoIsLast
  \/ DoBeforeFirst \/ DoFirst \/ DoAfterLast \/ DoLast
  \/ DoAbsolute \/ DoRelative \/ DoPrevious
  \/ DoSetFetchSize \/ DoCacheCompleteLocally \/ DoClose \/ DoAbort
  \/ ConnectionFails \/ Destroy \/ Destroyed

Spec == Init /\ [][Next]_vars

-----------------------------------------------------------------------------
(* Refinement of the abstract cursor (Cursor): the position is the server *)
(* row the cursor is on; a closed or destroyed object has none.  A cursor *)
(* scrolls unless it is a forward-only stream (the TYPE_FORWARD_ONLY      *)
(* checks of first(), absolute(), relative(), previous(), beforeFirst()). *)
Position == IF alive /\ ~rs.closed THEN Current(rs) ELSE 0

AbstractCursor == INSTANCE Cursor
  WITH size <- rows, scrollable <- ~ForwardOnlyStream(rs),
       open <- alive /\ ~rs.closed, pos <- Position

(* A failed fetchRemaining() of a fetchSize 1 cursor grows the cache by   *)
(* one row each time it is called; the runs explore caches of at most    *)
(* this many rows (MaxRows + 2 lets a cache outgrow every result).        *)
DataBound == MaxRows + 2

DataWithinBound == Len(rs.data) <= DataBound

-----------------------------------------------------------------------------
(* The object's fields keep their types.                                   *)
TypeOK ==
  /\ rows \in 0..MaxRows
  /\ serverFailed \in BOOLEAN /\ alive \in BOOLEAN
  /\ terminated \in BOOLEAN /\ aborted \in BOOLEAN
  /\ rs \in RS

(* The object exists and has not been closed.                              *)
InUse == alive /\ ~rs.closed

(* Pointer bound (spec section 8): while the cursor is open, rowPointer    *)
(* stays within [-1, dataSize] after every call, whatever next(),         *)
(* relative(), absolute() or a failed read of the next chunk did to       *)
(* dataSize.                                                               *)
PointerBound ==
  InUse => -1 <= rs.rowPointer /\ rs.rowPointer <= rs.dataSize

(* Every element of the row cache that readNextValue(), fetchRemaining() *)
(* or resetRow() writes or points the row object at lies within           *)
(* data.size().                                                            *)
MemorySafe == ~rs.oob

(* A result that holds all its rows from construction: stored by the     *)
(* client library (fetchSize 0) or filled, and never a stream, so no      *)
(* chunk has been fetched (dataFetchTime 0).  A stream that setFetchSize(0) *)
(* turned into a non-streaming one has fetched chunks and is not one.     *)
Stored(r) == ~r.streaming /\ r.dft = 0

(* The position queries of a stored or filled result tell the truth about *)
(* the abstract position, whatever the application called before         *)
(* (absolute() from either end, relative() clamped at both ends,         *)
(* previous(), setFetchSize(), a getter's seek): isBeforeFirst() only     *)
(* before the first row, isAfterLast() exactly after the last row of a    *)
(* non-empty result, isLast() exactly on its last row, and getRow() the   *)
(* server row number.  Streams are left out: their look-aheads and        *)
(* relative() break these answers (hazards at lines 541 and 659).         *)
PositionQueriesAgree ==
  InUse /\ Stored(rs) =>
    /\ IsBeforeFirstAnswer(rs) => Position = 0
    /\ IsAfterLastAnswer(rs) <=> Position = rows + 1 /\ rows > 0
    /\ IsLastAnswer(rs) <=> Position = rows /\ rows > 0
    /\ GetRowAnswer(rs) = Position

(* A getter on a stored or filled result returns the row the cursor is   *)
(* on: once the row object is installed for the current position         *)
(* (lastRowPointer = rowPointer), the row it shows is the server row at  *)
(* that position, whatever moves came before; resetRow() seeks with       *)
(* mysql_data_seek() unless the cursor is on the row after the one last   *)
(* installed, and then relies on mysql_fetch_row() returning that row.   *)
RowCorrect ==
  (/\ InUse /\ Stored(rs)
   /\ 0 <= rs.rowPointer /\ rs.rowPointer < rs.dataSize
   /\ rs.lastRowPointer = rs.rowPointer)
  => Exposed(rs) = Current(rs)

(* The connection is left reusable: once the cursor says EOF every row   *)
(* of the result has been taken off the wire (close() included), unless   *)
(* abort() gave the connection up, whatever mix of chunked reads,         *)
(* uncached look-aheads, drains and failed reads led there.                *)
EofMeansDrained == rs.isEof => (rs.readCount = rows \/ aborted)

(* SelectResultSetCapi implements Cursor (spec sections 3 and 4.3):       *)
(* whatever chunks next(), fetchRemaining() and the drains read, cached   *)
(* or dropped, the server row the cursor is on stays within the result,  *)
(* a forward-only stream never goes back to an earlier row, and close(), *)
(* abort() and the destructor end the cursor.                             *)
CursorRefinement == AbstractCursor!Spec

(* On a forward-only stream, a next() that returns moves exactly one row  *)
(* of the result: from before the first row or a row to the following one *)
(* (after the last, past the end), also when that row is in the next      *)
(* chunk, which nextStreamingValue() reads after setting dataSize to 0 so *)
(* that rowPointer restarts at 0, and whatever look-aheads, drains,       *)
(* setFetchSize() calls and connection failures came before.  A next()    *)
(* that throws is the hazard at line 528 and is not claimed here.         *)
NextMovesOneRow ==
  [][DoNext /\ ForwardOnlyStream(rs) /\ ~NextRow(rs).thrown =>
       Position' = IF Position <= rows THEN Position + 1 ELSE Position]_vars

(* The calls that only look never move the cursor: a getter, and the      *)
(* look-ahead of isAfterLast() and isLast(), which reads a chunk without  *)
(* caching it (and so drops it from a forward-only stream), leave the     *)
(* server row the cursor is on, also when the read fails.                  *)
LookAheadKeepsPosition ==
  [][DoGetValue \/ DoIsAfterLast \/ DoIsLast => Position' = Position]_vars

(* The destructor never throws: destroying a result set whose rows are   *)
(* still on the wire, or one whose close() failed, does not let an        *)
(* exception escape ~SelectResultSetCapi() and terminate the process.     *)
DestructorDoesNotThrow == ~terminated

====
