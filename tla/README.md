# TLA+ models of mariadb-connector-cpp

This directory holds TLA+ models of the connection pool, the streaming
result set, the server-side prepared statement, the host-address parser
and the string class in `src/`. It also holds
the TLC configurations that check them and `PROJECT.json`, which lists the
components, runs, mutants, the definition-to-source map, findings and
hazards. Every definition is translated from the C++ source. Code that is
called but is not under `src/` follows `spec.md` and is marked
`spec_modelled` in the map: `addStreamingValue`, the row object's seek and
fetch, `ServerPrepareResult`'s counter methods, and `SQLString::split`.

## 1. The system

| Part | Source | State | Operations | Concurrency |
|---|---|---|---|---|
| Connection pool | `src/pool/Pool.cpp` | `poolState`, atomic `totalConnection` and `pendingRequestNumber`, the locked `idleConnections` list, the appender queue | constructor; `getPoolConnection` → `getIdleConnection` (poll, validate, retry); `addConnectionRequest` → appender task → `addConnection`; `removeIdleTimeoutConnection` (timer); `connectionClosed` / `connectionErrorOccurred` (connection events); `close`, `closeAll` | user threads, the single appender thread, the eviction timer and the closer all run at once |
| Streaming result set | `src/com/capi/SelectResultSetCapi.cpp`, `SelectResultSet.h`, `TextRowProtocolCapi.h` | `data`, `dataSize`, `rowPointer`, `lastRowPointer`, `isEof`, `streaming`, `fetchSize`, `dataFetchTime`, `isClosedFlag`, the client library's current row | both constructors (a streamed or stored result, and one filled from rows in hand), `next`, navigation (`first`, `last`, `absolute`, `relative`, `previous`, `beforeFirst`, `afterLast`), `isLast`/`isAfterLast` look-ahead, getters (`checkObjectRange` + `resetRow`), `setFetchSize`, `fetchRemaining`/`cacheCompleteLocally`, `close`/`realClose`, `abort`, destructor | one thread at a time, under the connection lock |
| Prepared-statement batch | `src/ServerSidePreparedStatement.cpp` | the loop counter, `exceptionSet`, `exception`, the protocol lock, the connection's connected and interrupted flags | `executeBatch`, `executeBatchInternal` (bulk path, loop with a query timeout, loop without one) | the query timer may interrupt the protocol |
| Prepared-statement lifetime | `src/ServerSidePreparedStatement.cpp`, `src/util/ServerPrepareResult.h` | each statement's `serverPrepareResult` and closed flag; the handle's `shareCounter` and `isBeingDeallocate` | constructor/`prepare`, `clone`, `setParameter`, `executeInternal`, `close` (→ `releasePrepareStatement`), destructor | the destructor takes no protocol lock; `close`, `clone` and `executeInternal` do |
| Host address parsing | `src/HostAddress.cpp` | none | `parse` (the `host:port` and `address=(key=value)…` forms, replication roles), `toString` | none |
| SQLString | `src/SQLString.cpp` | the string | case mapping, `ltrim`/`rtrim`/`trim`, `compare`, `startsWith`/`endsWith`, `substr`, `find`, `find_first_of`/`find_last_of`, `at`, `<`, `==`, `!=` (also against `const char*`), `caseCompare` | none |
| Parameter holders | `src/parameters/*.h` | none | value formatting | none |

How the parts interact:

- **Pool and connections.** The pool hands out connections. Returned ones come
  back through `connectionClosed`, which resets them, and failed ones through
  `connectionErrorOccurred`.
- **Statements and result sets.** A statement and the result set it produced
  share the connection lock (`protocol->getLock()`). Before another command
  runs on the connection, the protocol drains the active streamed result into
  its cache (`cacheCompleteLocally()` → `fetchRemaining()`). `next()` tests
  whether it needs a new chunk before it takes that lock, so such a drain can
  fall between its test and its read (`SharedConnection.tla`).
- **Statements and the prepare handle.** Several statements of one connection
  may share one server prepare handle, which a share counter tracks.

What makes each part hard, and what makes it correct:

- **Pool:**
  - The hard parts:
    - check-then-act on atomic counters across threads;
    - a decision made before a server round trip (`reset()`, `isValid()`) and acted on after it;
    - `close()` racing users that still hold connections;
    - a minimum size restored asynchronously.
  - What makes it correct:
    - the bound `total ≤ maxPoolSize`;
    - `total` counts exactly the connections the pool owns;
    - no connection has two holders;
    - the pending count is exact;
    - a closed pool keeps no idle connections (it does not: a finding);
    - the minimum size comes back (it does not after a failed reset: a hazard).
- **Result set:**
  - The hard parts:
    - two row stores (the cache `data` and the client library's current row);
    - `dataSize` counts rows that may never have been cached;
    - look-ahead reads that overwrite the current row;
    - chunked reads and connection failures in the middle of a method.
  - What makes it correct, and what the runs show of it:
    - `isEof` only once the wire is drained: holds;
    - the getters, `isAfterLast()` and `isLast()` never move the cursor: holds;
    - on a forward-only stream, `next()` moves exactly one server row, across chunk boundaries: holds;
    - on a stored or filled result, getters return the row the cursor is on and
      the position queries tell the truth: holds;
    - on streams, getters return the row the cursor is on, the position queries
      tell the truth, and `rowPointer ∈ [-1, dataSize]`: do not hold. The
      look-aheads, `relative()`, `setFetchSize(0)` and a failed `next()` break
      them; these are hazards with TLC traces;
    - every `data[]` access is in bounds: does not hold (a finding and a hazard);
    - it behaves as an abstract cursor (`Cursor.tla`): does not hold, because
      `last()` moves a forward-only stream back (a finding);
    - the application sees every row once and in order, whatever other commands
      drain: does not hold (a finding);
    - the destructor never throws: does not hold (a finding).
- **Batch:**
  - The hard part: the error handling across two loop variants and three options.
  - What makes it correct (spec §7, Scenario E):
    - with `continueBatchOnError`, every entry is sent and the first error is raised;
    - without it, the batch stops at the first failure.
- **Share counter:**
  - The hard parts:
    - release through two paths (`close` and the destructor);
    - one of them is unlocked, and they interleave across statements.
  - What makes it correct (spec §8, refcount safety): the counter equals the
    number of users, and the handle is freed at most once and never while in use,
    whatever clones, executions, closes and destructors interleave.
- **Host address parser:**
  - The hard parts: `size_t` index arithmetic (`npos + 1`), the IPv6 bracket
    form, and a loop over `(key=value)` pairs.
  - What makes it correct: `parse` returns or rejects every input, and what
    `toString` writes parses back to the same addresses.
- **SQLString:** the hard parts are `size_t` positions at the boundaries (an
  empty argument, an argument as long as the string, `npos`) and the
  null-pointer tests of the `const char*` operators. What makes it correct is
  that each operation agrees with its plain definition.

## 2. Modules

| Module | Models | Instance |
|---|---|---|
| `Pool.tla` | the connection pool | `MC_Pool.tla` |
| `SelectResultSetCapi.tla` | the streaming result set | `MC_SelectResultSetCapi.tla` |
| `StatementBatch.tla` | `executeBatch` / `executeBatchInternal` | constants in the cfg |
| `PrepareShare.tla` | statement `clone`/`setParameter`/`executeInternal`/`close`/destructor against one shared prepare handle | `MC_PrepareShare.tla` |
| `Cursor.tla` | the abstract cursor: a position among the rows of a result | instantiated by `SelectResultSetCapi.tla` |
| `SharedConnection.tla` | a streamed result set and another command of its connection, around the connection lock | `MC_SharedConnection.tla` |
| `SQLString.tla` | the `SQLString` operations, as operators | extended by `HostAddress.tla` |
| `HostAddress.tla` | `HostAddress::parse`, `toString`, and the checks of the `SQLString` operations | `MC_HostAddress.tla` |

### Pool

**Threads and their state.**
- Each user thread has a program counter `upc[u]` and the connection it handles, `ucon[u]`.
- The appender thread has `apc`, and the tasks waiting in its queue are counted by `tasks`.
- `close()` has `cpc`.

**Actions, by source function.**
- **`getPoolConnection`:**
  - `GetPoolConnection` does `++pendingRequestNumber`.
  - `PollFirst` is the near-zero poll; on a miss it calls `addConnectionRequest`.
  - `PollWait` is the blocking poll.
  - `WaitTimeout` is the expiry, followed by the decrement.
- **`getPoolConnection(username, password)`:** `GetPoolConnectionAs` compares
  the user name with the pool's (the code compares it twice and never the
  password). The pool's user takes the pooled path above. Another user gets a
  dedicated connection (`upc = "dedicated"`) with no event listener, so the
  pool never counts it, and `CloseDedicated` closes it without any pool event.
- **`getIdleConnection`:** `Validate` covers `isValid()`. A connection that fails it is discarded, a replacement is requested, and the loop polls again.
- **The appender:**
  - `AppenderTake` runs the queued task and re-checks the counts.
  - `AppenderConnect` is `addConnection`, and its connect may fail.
- **`removeIdleTimeoutConnection`:** `RemoveIdleTimeoutConnection` is one scan of the idle list. It is a `FoldLeft` of `EvictStep` over the list, given a nondeterministic age for each entry. `ShouldBeReleased` is the source's decision, with the `waitTimeout > 0` branch.
- **Connection events:**
  - `ConnectionClosed` reads `poolState`.
  - `ResetConnection` covers the `reset()` round trip, then the push, or the discard when the reset fails.
  - `ConnectionErrorOccurred` handles a connection error.
- **`close()`:**
  - `CloseStart` sets the state, zeroes pending and cancels the tasks.
  - `CloseLoop` and `CloseTimeout` are the bounded 10 s loop over `closeAll`.
  - `CloseFinal` is the rest.

**Abstractions.** Time becomes nondeterministic choices: idle ages, validation results, connect and reset failures, and poll and close-loop timeouts.

**Fairness.** It is weak fairness on the library's own threads:
- the appender;
- the eviction timer;
- each step of `close()` separately: a pass of the loop (`CloseLoop`), the
  10 s deadline (`CloseTimeout`) and the final pass (`CloseFinal`). The loop
  sleeps 1 s per pass and its condition reads the clock, so the deadline is
  bound to pass while connections stay borrowed;
- a user's poll, which returns or times out.

There is no fairness on what a user chooses to do: a user may keep a connection
for ever. No run checks a liveness property of the pool. `close()` returning
would follow from the shape of its bounded loop and the fairness of its
deadline whatever the code did, so it is not claimed. `MinRestored` (the
minimum size comes back) is kept in `Pool.tla` as the evidence for the hazard
at Pool.cpp:681, where TLC finds it violated. The pool_safety run checks
safety only and uses symmetry over users and connections.

### SelectResultSetCapi

**State.**
- The object is one record `rs`, with fields named after the class members.
- `readCount` is the number of rows taken from the wire.
- `capiRow` and `capiPos` are the client library's row and its seek position.
- `rowSrc` says what the row object reads.
- `oob` records an out-of-bounds `data[]` index.
- `thrown` marks an exception in flight.

**Methods.**
- Each method is an operator from record to record.
- Calls inside a method compose: `last()` uses `FetchRemaining`, and `FetchRemaining` uses `CacheCurrentRow`, `DrainStream` and `ResetRow`.
- The loops are `RECURSIVE` operators: `ReadChunk`, `DrainStream`, `SkipRows` and `ReadAll`.

**Actions.**
- Each action `DoX` is one call of a public method. A method runs entirely under the connection lock or on the owning thread, so one call is one step.
- The guards are the source's throws: `checkClose()`, and the `TYPE_FORWARD_ONLY` checks in `ForwardOnlyStream`.
- The environment has two actions:
  - `ConnectionFails`, after which every read throws;
  - `Destroy`, the destructor.

**Constants.**
- `Modes` gives the ⟨scroll type, fetch size⟩ pairs of results read from the connection.
- `FilledScrolls` gives the scroll types of filled result sets. These come
  from the second constructor, which takes rows the connector already holds
  (`NewFilledResultSet`: `isEof` set, the rows in `data`, fetch size 0, no lock).
- `Calls` is a usage profile: the set of methods the application calls.
- `FetchSizes` are the arguments of `setFetchSize`.

**Helpers for the properties.**
- `Exposed(r)` is the row a getter returns.
- `Current(r) == readCount - dataSize + rowPointer + 1` is the server row the cursor is on.
- `IsBeforeFirstAnswer`, `IsFirstAnswer`, `IsAfterLastAnswer` and `IsLastAnswer`
  are what the query methods return, computed from the object before the call
  (the look-ahead of `isAfterLast()` and `isLast()` included).

**Refinement.** `Cursor.tla` states what a cursor promises, independent of
chunks and caches:
- a position `pos` in `0..size+1`;
- moves only while open;
- a cursor that cannot scroll only moves forward (spec §4.3 refuses every
  other move of a forward-only cursor);
- `close` ends every move.

`SelectResultSetCapi` instantiates it with `size <- rows`,
`scrollable <- ~ForwardOnlyStream(rs)`, `open <- alive /\ ~rs.closed` and
`pos <- Position` (that is, `Current(rs)` while open). The
cursor_forward_only_last run checks `CursorRefinement == AbstractCursor!Spec`
as a `PROPERTY` and finds it violated. `last()` (lines 704-713) has no
`TYPE_FORWARD_ONLY` check: after `next()` has gone past the end of an empty
forward-only stream, `last()` moves the cursor back to before the first row.
Other ways the refinement fails on streams are listed as hazards: `relative()`
followed by `next()` leaves the range of positions, and `setFetchSize(0)` turns
a forward-only stream into a scrollable result.

**Stored results.** `Stored(r)` (not streaming, no chunk ever fetched) marks
a result stored by the client library or filled from rows in hand.
`RowCorrect` and `PositionQueriesAgree` are stated for these, the default
`fetchSize 0` path. They are checked in the run with every method, every
mode and connection failures. On streams they fail through the look-aheads
and `relative()`, as the hazards record.

### SharedConnection

`SharedConnection.tla` extends `SelectResultSetCapi` with the other party of
the connection lock.

**State.** Two variables are added:
- `apc` is `"chunk"` while `next()` has decided to read a chunk and waits for the lock;
- `lastDelivered` is a history variable, the server row the last successful `next()` stood on.

**Actions.**
- `NextUnlocked` is `next()` up to its lock: the closed check, then a step
  within the rows held, the decision to read, or the end of the data.
- `NextLocked` is the rest. It reads a chunk unless the stream ended
  meanwhile, then restarts at 0 (forward-only) or steps on.
- `OtherCommand` is another statement's command: with the lock held, the
  protocol drains the active stream (`cacheCompleteLocally`). Which result is
  active is the protocol's business, outside `src/`; spec §4.3 says it is drained.
- The other calls of the owning thread are those of `SelectResultSetCapi`,
  taken only while `next()` is not half-way.

**Property.** `RowsDeliveredInOrder` says that each `next()` returning true
stands on the row after the one the previous such call stood on.

### StatementBatch

**State.** One call of `executeBatch`:
- `opts` holds `continueBatchOnError`, query timeout > 0, and bulk.
- Then the closed flag, the batch size, `counter`, `exceptionSet` and `exception`.
- Then the connection's connected and interrupted flags, the lock, the outcome `raised`, and the history sets `sent` and `failed`.

**Actions.**
- `ExecuteBatch` runs `checkClose`, the empty-batch return, and the lock.
- `BatchPrologue` is the prologue and the bulk path (`executeBatchServer`).
- `SendEntry` is one loop iteration. It includes `stopIfInterrupted`, the server's answer (ok, fail, or fail with the connection lost), and the catch block. `KeepGoing` and `Remember` hold the catch block's conditions and assignments, exactly as in each of the two loops.
- `BatchEnd` is the rethrow check after the loop.
- `TimerFires` is the query timer.

### PrepareShare

**State.**
- Per statement:
  - a `pc`;
  - `holds`, meaning `serverPrepareResult != nullptr`;
  - `stmtClosed`.
- Shared:
  - `lock`, the protocol lock;
  - `shareCounter` and `beingDealloc`;
  - `freed`, a count of deletes.

**Actions.**
- `Clone(s, t)` is `clone()` of `s` creating `t`, with its `prepare()` under
  the protocol lock. Following spec 4.2 (same connection), `t` takes a share
  while the handle is still registered. Otherwise the prepare fails, and `t`,
  closed and never deleted, becomes `leaked`.
- `SetParameter`, `Describe` (`toString()` and `getServerThreadId()`) and
  `ExecuteStart` read `serverPrepareResult` before any closed check. Without a handle this is a null dereference, recorded in
  `nullDeref`. With a handle, `ExecuteStart` takes the lock and `ExecuteRun`
  runs the query and unlocks.
- `Close` covers the early return on a second call, `markClosed` under the lock, and the hand-over to `releasePrepareStatement`.
- `ReleaseDecrement`, `ReleaseCheck` and `ReleaseFree` are the release, modelled from spec 4.2: decrement, then `canDeallocate`, then free. `ReleaseCheck` also sets `serverPrepareResult = nullptr` and unlocks.
- `Destroy` and `DestroyDecrement` are the destructor: `canBeDeallocate()`, then delete or decrement.
- Every step on the handle is atomic, because the handle has its own mutex. The steps of different statements interleave.

**Init.** Every statement built by the constructor shares the handle, so the counter equals their number. A failed `prepare()` throws out of the constructor and leaves no object. The statements in `U` start `unborn` and can only be created by `Clone`.

### HostAddress

**Data.**
- A string is a sequence of symbols. The keywords (`address`, `host`, `port`, `type`, `master`, `slave`) are single symbols.
- `Npos == -1`, so `npos + 1 = 0` as with `size_t`.
- A result is `Ok(v)` or `Err(e)`, where `e` names the C++ exception.

**Operators.**
- The `SQLString` operations come from `SQLString.tla`. `Split` (which keeps empty pieces) is modelled from the spec.
- `GetPort` is `std::stoi` on the leading digits. It throws `invalid_argument` when there are none.
- `ParseSimpleHostAddress` covers the bracketed IPv6 form and `host:port`.
- `ParamPass` is one pass of the `(key=value)` loop. `ParamLoop` repeats it. When a pass leaves the address unchanged, the C++ loop would run for ever, and the result is `Err("Hang")`.
- `Parse` is the whole of `HostAddress::parse`: the `SEQUENTIAL` shortcut, the split on `,`, the choice of form per token, the first error, and `AssignRoles` for `REPLICATION`.
- `HostsToString` is `toString`.

**State machine.** `url` and `haMode` are the input. `ParseUrl` parses it. `PrintHosts` prints the result and makes the printed string the next input, so the next `ParseUrl` re-parses it.

### SQLString

**Operators.**
- Each member is an operator on sequences of symbols. `Code` is the unsigned
  character code by which `std::char_traits<char>` compares.
- `LexCompare` is `basic_string::compare`: the sign of the first differing
  character, then of the lengths. `StdCompare` adds the `(pos1, count1, str, count2)` form.
- `Compare`, `StartsWith`, `EndsWith`, `Less`, `Eq`, `Neq` and `CaseCompare`
  are the members of those names, written through `StdCompare` as in the code.
- `EqCStr` and `NeqCStr` take a C string or `NullPtr`.
- `Find`, `FindFirstOf` and `FindLastOf` return 0-based positions or `Npos`.

**Checks.** `HostAddress.tla` states four properties of these operators. Each
is checked in every state of the parser's run, with the current host list
paired with every string of up to two symbols over space, `a`, `A` and `:`.
A property compares the operator with a plain definition written without the
library calls: lexicographic order, prefix and suffix, or the positions that
hold a match.

## 3. Runs

| Run | Config | Expect | What it checks |
|---|---|---|---|
| pool_safety | `MC_Pool.cfg` | pass (2 433 states, with symmetry) | `TypeOK`, `PoolBound` (total ≤ max), `CountMatches` (total = connections owned), `Exclusive` (no connection both idle and held, or held twice), `PendingMatches` (pending = getters inside `getPoolConnection` while open) |
| pool_close_leak | `MC_Pool_CloseLeak.cfg` | violation | `ClosedPoolHasNoIdle`: `connectionClosed` pushes into the idle list of a pool whose `close()` has returned (Pool.cpp:678) |
| cursor_all_methods | `MC_SelectResultSetCapi.cfg` | pass (61 094 states) | every method in every mode, filled result sets included, with connection failures: `TypeOK`; `EofMeansDrained` (isEof only when every row was read, or after `abort()`); `RowCorrect` (on a stored or filled result a getter returns the row the cursor is on, through `resetRow()`'s seek-or-fetch); `PositionQueriesAgree` (on a stored or filled result `isBeforeFirst`, `isAfterLast`, `isLast` and `getRow` match the position); `LookAheadKeepsPosition` (action property: a getter, `isAfterLast()` or `isLast()` leaves the cursor on the same server row, even when `isLast()` reads ahead into the stream); `NextMovesOneRow` (action property: on a forward-only stream a `next()` that returns advances exactly one server row, across chunks, whatever look-aheads, drains, `setFetchSize` calls and failures came before) |
| cursor_forward_only_last | `_ForwardOnlyLast.cfg` | violation | `CursorRefinement`: `last()` moves a forward-only stream back (after `next()` past the end of an empty result, to before the first row), which spec §4.3 refuses (SelectResultSetCapi.cpp:704) |
| cursor_scroll_fetch_one | `_ScrollSingle.cfg` | violation | `MemorySafe`: `fetchRemaining()` on a scrollable fetchSize-1 stream writes past `data` |
| cursor_destructor_throws | `_Destructor.cfg` | violation | `DestructorDoesNotThrow`: the destructor's `fetchAllResults()` throws after a connection failure |
| batch_safety | `MC_StatementBatch.cfg` | pass (604 states) | `TypeOK`, `ContinueRunsAllEntries`, `StopsAtFirstFailure` |
| batch_first_error | `MC_StatementBatch_FirstError.cfg` | violation | `BatchReportsFirstError` (spec §7, Scenario E): with `continueBatchOnError` failures are swallowed (lines 280, 299-302, 310) |
| share_safety | `MC_PrepareShare.cfg` | pass (854 states) | `TypeOK`, `CounterMatches`, `FreedOnceAfterLastUse` for four statements, some created by `clone()`, executing, closing and being destroyed |
| shared_connection_rows | `MC_SharedConnection.cfg` | violation | `RowsDeliveredInOrder`: a drain by another command before the first `next()` of a forward-only fetchSize-1 stream makes `next()` skip the first row (SelectResultSetCapi.cpp:244) |
| host_parse | `MC_HostAddress.cfg` | pass (3 714 states) | `TypeOK`, `RoundTripPlain`: for every host list of up to three symbols and five longer lists, in every HA mode, what `toString` writes parses back to the same addresses. The `SQLString` checks: `CompareIsLexicographic`, `SearchAgrees` (`startsWith`, `endsWith`, `find`, `find_first_of`, `find_last_of` at every start position), `CaseCompareIgnoresCase`, `TrimStripsBlankEnds` |
| host_keyvalue_hang | `MC_HostAddress_KeyValue.cfg` | violation | `ParseReturnsOrRejects`: `parse` of `address=(host=a)(port=1)` never returns (HostAddress.cpp:180) |

Each property of a passing run has a mutant in `PROJECT.json`: a plausible
bug in one mapped definition, defined just before it. TLC finds the property
violated when that definition is replaced by its mutant.

**Bounds, and why they are enough.**
- **Pool:** two users, `maxPoolSize = 2`, `minPoolSize = 1`, and three connection identities. This gives one connection more than the maximum, so a connect can race a discard. It is enough for every pairwise race: user vs user, user vs appender, user vs eviction, user vs `close()`. Symmetry over users and connections is sound because the pool run checks only safety properties.
- **Cursor:** up to 3 rows and fetch sizes 0, 1 and 2. With these a chunk can end before, at and after the end of the data, and a forward-only cursor drops rows at least once.
- **Cursor constraint:** `DataWithinBound` bounds the length of the cache. Repeated failed reads could otherwise grow it for ever.
- **Batch:** up to 3 entries. This gives a failure before, between and after successes.
- **Share counter:** four statements. Each can be cloned into existence, execute, be closed, be destroyed without a close, or be destroyed after one.
- **Host addresses:** every string of up to three symbols over `a 1 : [ ] , space`, plus five longer lists (IPv6 with and without a port, the key=value form, replication lists). These reach every branch of `ParseSimpleHostAddress` and `Parse`, the empty token, and `npos` arithmetic.
- **Shared connection:** forward-only streams of fetch size 1 and 2 over up to 3 rows.
  The drain can then come before the first `next()`, between chunks, or
  between `next()`'s test and its lock.
- **SQLString:** strings of up to two symbols against every host list. This
  covers the empty string, equal lengths, a proper prefix, and the case pair `a`/`A`.

## 4. Findings

Each finding is a violation run above; `PROJECT.json` gives the source lines.

- `parse` never returns for the key=value form, which is the form `toString`
  writes for typed addresses. The loop searches from position 0 of an
  unchanged token.

- `connectionClosed` recycles a connection into a pool closed during its
  `reset()`. The connection is never closed.
- A drain of a forward-only stream with fetchSize 1 before the first `next()`
  skips the first row. `fetchRemaining()` caches the one row held and sets
  `rowPointer = 0` although the cursor was before it, so `next()` steps to the
  second row. A one-row result returns no row at all.
- A scrollable stream with fetchSize 1 makes `fetchRemaining()` write out of bounds.
- The destructor can throw, which calls `std::terminate`.
- `last()` on a forward-only stream is not refused (spec §4.3). After `next()`
  has passed the end of an empty result, it moves the cursor back to before the first row.
- `continueBatchOnError` never reports an error.

Seen with TLC and recorded as hazards rather than runs. The number of runs is
limited, so some violation runs of earlier sittings were retired to make room
for newer runs; their evidence is kept in the hazards:
- A failed reset is not replaced, so the pool stays below `minPoolSize`
  (`MinRestored` in `Pool.tla`, against spec.md line 35).
- A drain between `next()`'s unlocked test and its lock restarts a
  forward-only fetchSize-2 cursor at row 0 of the cache, so rows are delivered
  again (`RowsDeliveredInOrder`).
- `relative()` past the rows held, followed by `next()`, breaks the pointer bound
  promised in spec §8.
- The `isLast()` / `isAfterLast()` look-ahead changes the row the getters read.
- `last()` after `next()` has dropped every row of a forward-only stream
  returns false for a result that had rows.
- `setFetchSize(0)` on a forward-only stream sets `streaming` to
  `dataFetchTime == 1`, so a stream that fetched once becomes scrollable
  (`CursorRefinement` fails with a next/setFetchSize profile).
- `isFirst()` is true on the first row of every chunk of a forward-only stream.
- `setParameter()`, `toString()`, `getServerThreadId()` and `executeInternal()`
  on a closed statement dereference a null handle (`ClosedStatementFailsCleanly`, spec §7).
- A negative pending count after `close()`.
- An out-of-bounds read after `setFetchSize(0)`.
- A getter after `close()` of a result set: `checkObjectRange()` has no closed
  check and `realClose()` clears `data` but keeps `rowPointer` and `dataSize`,
  so the getter reads the freed cache (spec §7 asks for an error).
  `DoGetValue` models the missing check; no run is left to state it.
- A leaked prepare handle when the last statement is destroyed without `close()`. This one assumes the spec's `canDeallocate` contract.

## 5. Not modelled, and why

- **Pool:**
  - The password of `getPoolConnection(user, password)`: the code never
    compares it (Pool.cpp:449), so a caller with the pool's user name and any
    password gets a pooled connection. No other operation reads a password, so
    the model holds none and this is a hazard without a property.
  - Pool tags, logging and statistics getters hold nothing to check.
  - The destructor is not modelled: `Pools::remove`, which decides when it
    runs, is outside `src/`.
- **Result set:**
  - Column decoding and conversions hold no cursor state.
  - The callable-result (out-parameter) path is not modelled.
  - Warnings and metadata are not modelled.
- **Statement:**
  - The parameter values and metadata hold no state the share counter or the
    batch depends on. The text `toString` builds is not modelled, only its
    read of the handle.
  - A clone whose handle has already been freed re-prepares a new handle. Only
    one handle is modelled, so `Clone` is enabled only while it is registered.
  - `executeBatchEpilogue` and the query timer's cancel are outside `src/` and not in the spec.
- **SQLString:**
  - The constructors, assignment, `append`, `reserve`, the iterators,
    `c_str`, `hashCode` and `operator<<` delegate to `StringImp`, which is not under `src/`.
  - The null state of a string belongs to `StringImp`. Every modelled string holds a value.
  - `s == nullptr` reaches `strlen(nullptr)`, but `s != nullptr` returns true.
    `EqCStr` models this, and the checks use non-null C strings only.
- **Result set, updatable rows:** `updateRowData`, `deleteCurrentRowData` and
  `addRowData` are called only by the updatable result set, which is not under `src/`.
- **Parameter holders:** value formatting, with no state after construction.

## 6. Plan for later work

Done:
- the pool (safety only: `close()` termination is not claimed);
- the result set, with the abstract cursor and its refinement (a violation run: `last()` on a forward-only stream), and the position queries on stored and filled results;
- the batch;
- the share counter, with clone and execution;
- the host-address parser;
- the string class, checked against reference definitions;
- a streamed result set sharing its connection with other commands;
- filled result sets.

Next, in order:
1. **Cursor monotonicity (spec §8).** `dataSize` does decrease in the code
   (a forward-only stream at a chunk boundary, line 284; `close()`, line 1938;
   `fetchAllResults()`, line 164), so the spec's claim is a divergence to
   state as a violation run once a run slot is free; `isEof` set once is a
   passing action property still to add.
2. **Getter liveness.** Check that a getter eventually returns or times out.
3. **Composition.** A statement drains its streaming result set
   (`cacheCompleteLocally`) before the pool resets the connection on return.
4. **Shared connection with scrollable streams.** Add the scrollable modes
   and the navigation methods to `SharedConnection`.
