# A TLA+ model of VertexDB

VertexDB is an in-memory relational database with a write-ahead log, binary
snapshots, transactions by snapshot, multi-version rows, hash and B+ tree
indexes and a small SQL dialect. This directory holds TLA+ modules for the parts
that carry its correctness, the TLC configurations that check them, and TLAPS
proofs. Paths below are relative to `src/`.

## 1. Inventory

| Component | State | Operations | Works with |
|---|---|---|---|
| `QueryExecutor` (`src/execution/query_executor.cpp`) | `database_`, `transactionSnapshot_`, `activeTransaction_`, `preparedStatements_`, `replayingWal_` | one handler per statement; recovery in the constructor | everything below |
| `Database` (`src/storage/database.cpp`) | catalog of tables | create, drop, rename, clone | `Table` |
| `Table` (`src/storage/table.cpp`) | row store, version chains, three index maps | insert, erase, update, createIndex, replaceRows, lookups | row store, MVCC store, indexes |
| Row stores (`src/storage/row_store.cpp`) | a vector; or slots, pages and a pool | append, erase, update, get, snapshot, replaceRows | `BufferPool` |
| `BufferPool` (`src/storage/buffer_pool.cpp`) | pages, LRU list | put, get | `PageRowStore` |
| `MVCCRowStore` (`src/transaction/mvcc_row_store.cpp`) | versions by row id | write, erase, clear, read, visibleRows | `Table` |
| `TransactionManager` (`src/transaction/transaction_manager.cpp`) | ids and states | begin, commit, rollback | executor |
| `WriteAheadLog` (`src/persistence/write_ahead_log.cpp`) | the log file, `nextLsn_` | append, readAll, reset | executor |
| `StorageManager` (`src/persistence/storage_manager.cpp`) | snapshot files | saveDatabase, loadDatabase, loadFirstDatabase | executor, `Database` |
| `HashIndex`, `BTreeIndex` (`src/indexing`) | entries; node layout | insert, remove, clear, find, ranges | `Table` |
| `QueryPlanner` (`src/planner`) | none | planSelect | SELECT |
| `Parser`, `Tokenizer` (`src/parser`) | a cursor | parse | executor, recovery, EXECUTE |
| `LockManager` (`src/concurrency`) | one shared mutex | acquireRead, acquireWrite | `execute()` |
| `main.cpp`, benchmarks | none | | executor |

Statements that change anything run one at a time: `execute()` takes the lock
exclusively. What makes the system hard is mostly elsewhere:

- **crash and recovery.** The log is logical: a record is a statement printed as
  SQL, and recovery parses it and runs the ordinary handler. SAVE is three disk
  writes, INSERT one log record per row, and recovery itself can be cut short.
- **partial failure.** Handlers mix changes in memory, changes on disk and
  checks that throw. Streams are checked before their destructors flush them.
- **conversions.** A DOUBLE in the log is a six-digit decimal; whole values lose
  their point and come back as INT. The index definitions of a snapshot are read in
  an order the language leaves to the compiler.
- **positional row ids.** Deleting a row renumbers the rows behind it, while
  index entries and version chains are kept by row id.
- **check and act across two locks.** EXECUTE looks its text up under one lock
  and runs it under another; a PREPARE, a DROP or a second EXECUTE can come in
  between, and a lock kept too long would make a thread wait for itself.
- **two ways to the same rows.** A comparison is answered by a hash index, by the
  leaves of a B+ tree or by a scan, inside a transaction through version chains;
  all of them have to agree, for NULL and for values of another type too.
- **text as the carrier.** The log, PREPARE and EXECUTE pass statements as SQL text:
  precedence, parentheses and the places of parameters have to survive.

What makes each component correct:

- executor: recovery gives back what was in memory; a statement that throws
  changes nothing; recovery writes nothing and ends; COMMIT and ROLLBACK always
  find the transaction that belongs to the snapshot;
- log: sequence numbers increase across restarts; each record replays to the
  state its statement left;
- storage manager: a snapshot is the database as of the record where replay
  starts;
- table: indexes list exactly the rows; version reads agree with the rows;
- indexes: the leaf pages are the entries in order, range lookups return what a
  comparison of every key would;
- SELECT and JOIN: the answer is the one their definition over the rows gives,
  whatever the access path;
- parser: a printed statement parses to itself; binding fills each place or refuses;
- sessions: each statement is atomic for the others, and each call returns;
- row store: pages behave as a vector of rows; pool: bounded, and current.

## 2. Modules

```
SqlText            values, literals, statement texts, parsing them again
  Database         the catalog; the effect of each handler on it
    StorageManager   the snapshot files
WriteAheadLog      the log file and its writer
TransactionManager ids and states
Executor           = WriteAheadLog + StorageManager + TransactionManager,
                     the handlers, the end of the process, recovery
                     <- DatabaseProofs, ExecutorProofs, DurabilityProofs
                     instances: MCExecutor
ValueOrder         values, their order and their comparison
  BTreeIndex       the hash index, the B+ tree and its leaf pages
                                                          <- BTreeIndexProofs
    Table          rows, version chains and indexes       <- TableProofs
      Select       planner, SELECT and JOIN over a table;  instance:  MCTable
                                                          <- SelectProofs
  Predicates       WHERE clauses and their evaluation on a row
SqlGrammar         (an instance of SqlText) tokens, the parser, printed
                   statements, binding of parameters
  SqlRoundTrip     texts that are printed, bound and parsed; instance: MCSqlRoundTrip
SerialSessions     what clients of one executor may rely on
  Sessions         threads, the lock, PREPARE and EXECUTE; implements
                   SerialSessions;                         instance:  MCSessions
                                                          <- SessionsProofs
RowStore           what a row store promises
BufferPool         the LRU pool
  PageRowStore     pages and slots, implements RowStore; instance:  MCPageRowStore
                                                          <- PageRowStoreProofs
```

**SqlText.** A value is a record with its type; a DOUBLE is the decimal `m * 10^e`
that identifies it. A statement's text is the statement with each value replaced
by the literal it prints as (`sqlLiteral`, `streamDouble`), and `parse` replaces
the literals by the values the parser reads (`parseValue`). Everything else in
the text survives the round trip and is left alone. WHERE clauses are those a
one-column table can tell apart: no clause, equality, an unknown column, and AND
and OR of the two, with the short-circuit evaluation of `matches()` that decides
whether the unknown column throws. Strings are model values (escaping in
`sqlLiteral` is undone by the tokenizer). An INT keeps its value: 64-bit overflow
is refused by the parser before a statement exists.

**Database.** A table has one column, so a row is a value; rows are a sequence
because row ids are positions. Each operator is one handler and returns the new
database, the outcome, and whether the handler logs. `update` and `delete` keep the
order in which the code visits rows and stop where it throws.

**WriteAheadLog.** `walFile` is the sequence of complete records, `walTorn` says
an incomplete one is in the file as well, `nextLsn_` is the lazy counter. `WalFaults`
selects the failures of the environment: the file cannot be opened, a write fails
halfway and append() throws, the destructor's flush fails and nobody notices,
truncation fails, the process ends inside an append.

**StorageManager.** `saved` maps names to images. A snapshot appears by rename or
not at all; `StorageFaults` adds an exception before it (with the old file kept or
removed) and a file cut short by an unreported flush failure. A load does not give
back everything that was saved (`Loaded`): the name and the column of an index are read
by the two arguments of one call (`storage_manager.cpp:197`), whose order C++ leaves
open. `readOrder` is the order of the build, one of two for a whole behaviour. Read from
right to left, as GCC does, name and column change places, `createIndex` refuses the
unknown column and the refusal is ignored, so that the index is gone unless it is named
like its column.

**Executor.** A handler is one action, except INSERT (one step per row) and SAVE
(record, snapshot, truncation), whose remaining work is in `pending`. `Stop` may
happen between any two steps, including those of recovery (`recoverFromStorage`,
`recoverFromWal`, one `replayRecord` per record, `replayDone`). `StopsDuringSave =
FALSE` excludes exactly one window, the one the run `save` shows to lose data.
`history` and `stopImage` are auxiliary: they record the database each log record
led to and the database in memory when the process ended; no action reads them. The
properties of recovery compare databases with `Same`: equality while there is no
snapshot to load, and from then on equality of what a load gives back of the two, which
is equality again in a build that reads from left to right.

**ValueOrder, BTreeIndex.** A value is a type and a number; `less` is `operator<`, which
orders NULL first and then by type. A hash index is a function from values to the
sequence of row ids kept for them, so that a stale, doubled or reordered entry
shows. A tree is such a function and the nodes `rebuildLayout` cuts from it: leaves
of at most `maxKeysPerLeaf_` keys linked in order, and a root when there are several.
Lookups read the nodes, as the code does, never the entries.

**Table.** All operations of `Table`, each under its mutex and hence one action,
over both kinds of index. `erased` is auxiliary. Loops over rows, versions or row ids
(`hashFill`, `treeFill`, `visibleRows`, `Without`, and `RowsOutside` of Database) are
recursive functions of the number of turns, like the loops they stand for; the proofs
follow them turn by turn.

**Select.** A SELECT runs under the read lock, so it is an operator on the state of
a table: the planner's choice (`planSelect`), the rows of the access path
(`collectRows`), sort, limit and projection in the code's order, each place where the
code throws. `std::sort` leaves the order of equal rows open, so an operator gives
the set of possible results. `tx` says whether a transaction is active, which sends
every read through the version chains. JOIN builds the map of the right rows by key
(`rightRowsByKey`), walks the left rows (`joinedPairs`), evaluates the WHERE clause on
each pair it finds (`matchesJoinedPredicate`), and resolves qualified and ambiguous
column names as `resolveResultColumn` does. The properties compare these with definitions over the
rows alone, in every state the table can reach. Loops that skip rows (the scan, rows
that a lookup no longer finds, the right rows of a key) are one recursive function,
`Picked`. The truth of a predicate on a row is the parameter `Truth`, assumed only for
single comparisons, so that the module can be reasoned about; MCTable gives it as
`matches` of Predicates, which follows the tree of ANDs and ORs as the code does.

**SqlGrammar, SqlRoundTrip.** A text is a sequence of tokens. Each production of the
parser takes the tokens and a position and gives its result and the position behind,
or a refusal where the code throws. The printing operators give the tokens of every
statement the executor logs, and `bindPreparedSql` fills placeholders or refuses. A
behaviour of SqlRoundTrip takes one statement (or one chain of comparisons),
replaces some of its literals by placeholders, binds parameters (too many and too
few among them), and parses.

**SerialSessions, Sessions.** In `SerialSessions` a statement happens in one step that
gives its result; an EXECUTE happens in two, since the code promises no more.
`Sessions` has the threads' steps: a line is parsed without the lock, readers share
the lock, everyone else holds it alone, an EXECUTE takes it for its lookup, lets it
go, binds, parses and calls `execute()` again. The rows of an INSERT go in one by one
and a JOIN reads its tables one after the other, which is where a missing lock would
show. The refinement mapping takes the rows of an INSERT that has not returned out
of the table again, and reads a text that was looked up and not yet parsed as the
statement it will be parsed to. `Parse` and `Bind` are parameters, so that the module
can be reasoned about without the recursive grammar; MCSessions gives them as tables
and an assumption that TLC evaluates checks the tables against SqlGrammar. `Fits` is
a parameter too: what `validateRow` says of a row. An INSERT validates all of its rows
before the first goes in, and throws under the lock when one does not fit.
Statements not among those of Sessions change the database under the same exclusive
lock, and their effect is the Executor's subject.

**PageRowStore** models `replaceRows` (and so `erase`) turn by turn, with the rows
still to be appended in `refill`; the abstraction to `RowStore` counts them in.

Operators marked as broken variants (`replayRecordStuck`, `writeOver`,
`EvictedLate`, ...) stand next to the definition they alter; each is a plausible
mistake in that piece of code, and no action uses them. PROJECT.json pairs every
checked property with one that breaks it.

## 3. Runs

| Run | Checks | Shows |
|---|---|---|
| `core` | `TypeOK`, `RowsFitSchema`, `RecoveredState`, `MemoryIsLogged`, `RecordsReplay`, `CheckpointIsSaved`, `LsnIncreasing`, `ThrowsChangeNothing`, `RecoveryReadsOnly`, `Progress` | without disk faults every statement that took effect is recovered, wherever the process ends, in builds of either read order; index definitions that loading loses excepted |
| `faults` | `SnapshotHasTransaction`, `LogGivenUpForSnapshot`, `TornLogIsFinal`, `Progress` | all faults, LOAD and transactions together: the log is emptied only behind a snapshot, a torn one never written |
| `table` | `TypeOK`, `IndexExact`, `TreeLayout`, `LookupsExact`, `RemoveUndoesInsert`, `RowsFitSchema`, `VersionsAgree`, `SelectExact`, `TopRows`, `TransactionReads`, `JoinExact`, `SnapshotsStable` | a table's rows, versions, indexes and leaf pages stay consistent, and SELECT and JOIN answer by their definition in every state |
| `rowstore` | `TypeOK`, `SlotsDense`, `PoolBounded`, `PoolCurrent`, `RefinesRowStore` | pages implement a vector of rows |
| `sessions` | `TypeOK`, `RefinesSerial`, `EveryCallReturns` | clients see statements one at a time, and no call hangs |
| `grammar` | `TextParses`, `BindExact`, `PrecedenceHolds` | printed statements parse to themselves, parameters find their places |
| `save` | `RecoveredState` violated | process ends between SAVE's record and its snapshot |
| `rollback` | `RecoveredState` violated | ROLLBACK is not logged |
| `literal` | `RecordsReplay` violated | 120000.0 is logged as an INT |
| `predicate` | `ThrowsChangeNothing` violated | a predicate that throws midway |
| `index` | `IndexesRecovered` violated | CREATE INDEX, SAVE, restart: the index is gone in a build that reads from right to left |
| `erase` | `EraseHides` violated | update then delete: the old version is read again |

`core` issues every statement that is logged, with values that print exactly,
predicates that throw on the first row or not at all, no LOAD and no ROLLBACK.
Each of the runs `save`, `rollback`, `literal` and `predicate` lifts one of these
restrictions and loses the property; `index` keeps them and asks for the index
definitions as well. The theorem `RecoveryKeepsData` (section 4) has the same
restrictions as hypotheses, and `core` is an instance of it.

Bounds. `core`: three log records between checkpoints (plus SAVE records and the
rows of a statement in progress), two rows, two tables, one index, two ends of
the process: enough for a SAVE between two mutations, for a crash inside a
statement followed by a crash inside the recovery, and for a rename over data.
`faults`: one record and a checkpoint, two transactions, one restart, every fault:
a fault either hits the record, the checkpoint or the restart. `table`: three rows,
four versions, two columns of which one is nullable, one index, leaves of two keys: an
erase in the middle with rows on both sides, an update of a shifted row, and a tree
that grows from one leaf to two with a root and back (three distinct keys). The
queries are every comparison of each column with each value of every type, compound
predicates and one that throws; joins with a fixed second table that has NULL and a
doubled key, and with the table itself. `sessions`: two clients with two statements
each out of thirteen, among them an EXECUTE of a text that executes another one, a
PREPARE that replaces it, a multi-row INSERT against a JOIN, DROP and CREATE of the
joined table, unknown names, a row that does not fit and a text that does not parse;
two threads suffice for a reader against a writer and for the window inside EXECUTE. `grammar`: every
statement form with one value of each type, predicates two levels deep on both sides,
chains of up to four comparisons, parameter counts one above and below. `rowstore`: pages
of two rows, three pages, a pool of two: page boundaries, eviction, a page that
disappears and comes back.

Deadlock is checked in the runs of the executor, the table and the row store: their
bounds always leave some statement possible. In `sessions` clients may stop calling,
and in `grammar` a behaviour ends with the parsed text; that nobody is stuck inside a
call is the liveness property `EveryCallReturns`.

Fairness. `FairSpec` adds weak fairness to `Continue` (the steps of a statement
that has begun) and to `Recover` (the steps of the constructor). Both are
straight-line code on a thread that holds the lock; nothing they wait for is held
by someone else. No client is required to issue anything, and `Stop` is not fair.
`Sessions` has weak fairness for each thread's next step inside a call: the scheduler
runs every thread. `std::shared_mutex` promises no order among waiting threads, and
none is assumed: acquiring the lock is fair only while it stays free. With a bounded
number of calls everyone's turn comes; with endless readers a writer may starve, in
the model as in the code.

## 4. Proofs

All theorems hold for every value of the constants, under the named assumptions of
the modules, which TLC evaluates for the values of the runs:

- executor and log: `NoLsn`, `NoTransaction` are not numbers, the fault sets contain
  known faults, statements are well formed, and `Operation` and `Payload` contain what
  the handlers log;
- table and indexes: values are NULL or of one of the three types, `Valid` gives each
  column some of them, inserted rows have the schema's columns, a leaf has room for a
  key, and the stand-ins for "no page", "no transaction" and "no row" are none
  themselves;
- queries: `Schema` lists the columns once each, a single comparison says of a row what
  `compare` says of the column's value and throws for an unknown column, limits are
  numbers, the stand-in for "none" is neither a number nor an ORDER BY, the rows of the
  joined table have its columns (`OtherAssumption`), and the star after SELECT is not the
  name of a column (`StarAssumption`);
- row store: pages and the pool have room for one;
- sessions: tables hold sequences of rows, and what is prepared or bound is text again
  (`TextAssumption`; MCSessions checks its tables against the grammar as well). Nothing is
  assumed of `Fits`.

- **DatabaseProofs.** Lemmas on every handler: a well-formed database stays one,
  results have one of the four shapes, a handler that does not log leaves the
  database alone unless it throws, and `parse(Sql(s)) = s` for statements whose
  values print exactly (`TextExact`).
- **ExecutorProofs.** First the log alone. `WalTypeCorrect`: `WalSpec => []WalTypeOK`.
  `SequenceNumbersIncrease`: `WalSpec => []LsnIncreasing` when truncation does not
  fail. `LsnIncreasing` is not inductive; `LsnAhead` (the counter is above every
  number in the file) is what an append needs, and the first append of a process
  needs that `LsnAfter` returns a number above all of the file.
  Then the executor. The inductive invariant `ExecInv` is type correctness
  strengthened by: records in the file parse to statements about names that exist
  (`LogInv`, without which replay could leave the type), nothing is pending
  while not ready and the loop's position is within the log (`ControlInv`), a
  statement in progress still has its database and its table (`DataInv`). One
  lemma per action. From it: `TypeCorrect` (`Spec => []TypeOK`),
  `TransactionsConsistent` (`Spec => []SnapshotHasTransaction`, which is inductive
  together with it), `RecoveryOnlyReads` (`Spec => RecoveryReadsOnly`),
  `LogIsGivenUpForSnapshot` (`Spec => LogGivenUpForSnapshot`, for which `ResetHasSnapshot`
  says that a SAVE about to truncate the log has a database whose file is its image or
  a damaged one),
  `ImplementsLog` (`Spec => WalSpec`: every step of the executor is a step of the
  log or leaves it alone), hence `ExecutorLsnsIncrease`; and `TornLogStays`
  (`Spec => TornLogIsFinal`), for which one adds that a SAVE past its append belongs
  to a process that has numbered a record (`SaveHasNumber`).
  `ExecutorRowsFitSchema` (`Spec => []RowsFitSchema`, with no restriction on faults or
  statements) needs `FitInv`: rows also fit in the copy ROLLBACK restores and in every
  loadable snapshot, and the rows an INSERT has still to enter fit the column of a
  table that no other statement can change meanwhile. A replayed literal may have
  changed its type, so the step for replay rests on the handlers' own checks
  (`ApplyFitted`), not on what the log holds.
- **DurabilityProofs.** Recovery, under the hypothesis `Durable`: no disk
  faults and no end of the process between SAVE's record and its snapshot when
  an older snapshot exists; one database name; and every statement `Repeatable`
  (no LOAD, no ROLLBACK, literals that parse to the value they print, predicates
  that do not throw on some rows only). `RecoveryKeepsData` is
  `Spec => []RecoveredState`, for builds of either read order: exact until the first
  SAVE, afterwards up to the index definitions that a load loses. `RecoveryIsExact`
  says that in a build that reads from left to right nothing is excepted.
  `LogIsComplete`, `LogIsRepeatable`, `SnapshotIsCheckpoint` and `ThrowingIsHarmless`
  are the properties they go with.
  `RecoveredState` speaks of one moment, so the invariant `DurableInv` follows the
  database along the log: record `i` replays `history[i]` to `history[i + 1]`
  (`HistoryReplays`), memory is the last entry when ready (`MemoryInv`), the
  entry at `cursor + 1` while replaying and the entry of the last SAVE record
  after a snapshot was loaded (`PositionInv`), of which the snapshot file is the exact
  image (`CheckpointIsSaved`); the process ended at the last entry (`StopInv`); and
  the rows still to be inserted fit and print exactly (`PendingInv`), so that the
  record written before the row replays to the row. A handler's record replays
  because `parse(Sql(s)) = s` and the same `Apply` runs both times.
  "Is" in these sentences is `SameIn`, since memory may have lost index definitions that
  the history still has. What makes this inductive is that no handler
  tells such databases apart (`ApplyAgrees`, one lemma per handler): applied to two of
  them it throws on both or on neither and leaves two that agree again. Only CREATE INDEX
  answers differently, failing where the index still exists and logging where it was
  lost, and what it adds is what a load would lose (`CreateIndexAgrees`).

- **SessionsProofs.** `SessionsTypeCorrect`, and `SessionsAreSerial`
  (`Spec => RefinesSerial`) for any number of threads. `LockInv` says who holds the lock
  and how, from the program counters alone; `Progress` how far the holder's statement
  has come: the rows an INSERT has put in are the first of the statement and the last
  of the table, the rows a JOIN has read are still those of its left table. Each step of
  a thread then maps to one step of `SerialSessions` or to a stutter, one lemma per step;
  the rows of an unfinished INSERT can be taken out of the picture because its thread
  holds the lock alone.
- **PageRowStoreProofs.** `RowStoreTypeCorrect`, `SlotsAreDense`, `PoolIsBounded`,
  `PoolIsCurrent` and the refinement `PagesAreRows` (`Spec => RefinesRowStore`), for any
  page size and capacity. `StoreInv` gives the length of every page from the number of
  rows, which is what an append trusts when it decides whether to open a page; `PoolInv`
  says that the list names each cached page once, without which moving a page to the
  front would leave a second entry to evict. Most of the work is division by a page
  size that is not a number known to the prover (`DivMod`, `PairOrder`).
- **BTreeIndexProofs.** What the indexes' operators compute: `less` is a total order on
  values; `Ascending` lists each key once, in order (by rank, the number of smaller
  keys); the leaves are this list cut at multiples of the capacity (`Cuts`), and
  passing over them gives the list back (`LeavesHoldEntries`, through `PiecesFlatten`);
  the nodes are a B+ tree (`LayoutIsBTree`); and `find`, `lessThan`, `greaterThan` collect
  the row ids of exactly the keys in their range (`StretchCollects`).
- **TableProofs.** The invariant `TableInv` is `RowsInv` (rows fit), `IndexInv` (each hash
  index lists the rows in row order, each tree is the one built from the same entries)
  and `ChainInv` (chains for the ids `0 .. n-1`, versions created below the counter, and
  until something is erased the newest one is the row, unmarked). It gives
  `TableTypeCorrect`, `TableRowsFitSchema`, `IndexesAreExact`, and with the lemmas on the
  operators `OrderedIndexesAreBTrees`, `LookupsAreExact`, `RemovingUndoesInserting`,
  `VersionsReadAsRows` and the action property `SnapshotsAreStable` (a version written
  with a number above the reader's is not visible to it).
- **SelectProofs.** `SelectsAreExact` (`Spec => []SelectExact`), `TransactionsReadRows`
  (`Spec => []TransactionReads`), `TopRowsAreFirst` (`Spec => []TopRows`) and
  `JoinsAreExact` (`Spec => []JoinExact`), from `TableInv`. The argument is about positions: a sequence `Enumerates` a set of positions
  of the table if there is a bijection from its indexes to the set along which the
  elements agree. What the scan keeps enumerates the matching positions
  (`PickedEnumerates`), so does what a lookup's row ids are read to, because the ids are
  those of the rows that compare so, each once (`IndexPath`, `RowsByIds`); an arrangement
  of such a sequence enumerates the same positions (`Arranged`: a function of a finite
  set into itself that is one-to-one is onto). Two sequences that enumerate the same
  positions hold each tuple equally often (`SameCount`), and of one that is cut off, a
  tuple that is missing occurs behind the cut (`PrefixCount`), where nothing belongs
  before what was kept.
  For a join the positions are pairs. The right rows under a key enumerate their
  positions (`FoundEnumerates`); put one after another for every left row they enumerate
  the pairs with equal keys (`PairsEnumerate`, by `FlattenEnumerates`: sequences that
  enumerate disjoint sets enumerate together their union); and what the WHERE clause
  keeps of an enumeration enumerates the kept places (`Composed`). The clause is
  evaluated on these pairs and no others, which gives exactly when a join throws
  (`SaysOfPairs`). A bare name that both tables have ends two of the joined columns and
  is none of them, so it does not resolve (`Ambiguous`).

The library's induction theorems take a predicate as a parameter and cannot be used with
the provers at hand. Where a proof has to follow a loop, it applies `SetInduction`
(a set of numbers that contains 0 and with each number the next contains all), which
follows from the well-foundedness of `<`, to the set of turns for which the claim
holds.

Only model-checked: `Progress` and `EveryCallReturns` (liveness is outside the
prover's reach); `TextParses`, `BindExact` and `PrecedenceHolds` (the grammar is
recursive over tokens, and so is what it computes). The theorems about SELECT and JOIN
hold for whatever `Truth` says of compound predicates; that `matches`
satisfies what is assumed of it is evaluated by TLC for the rows and predicates of `table`.

## 5. Not modelled

- Characters: whitespace, the case of keywords, escapes, and a `?` inside a string
  literal, which `bindPreparedSql` replaces as well (`query_executor.cpp:669`). The
  grammar starts at tokens.
- A prepared statement that executes itself: the code recurses until the stack ends.
- Printing in `main.cpp` and the benchmarks: no state another part depends on. Binary
  encodings are complete or cut short; a log whose bytes are damaged in the middle is
  the same as a torn one (`readAll` throws on both).
- `BufferPool::get`: no caller in the system. The planner's estimated rows and costs:
  computed and never read.
- Two live processes over one storage root: nothing in the code guards against it.
- `create_directories` failing inside `append` or `reset`: as `OpenFails`.
- Recovery with two databases in the root: the order of `directory_iterator` is
  unspecified, so every property of it fails on the first restart; the theorems on
  durability assume one name.
- A transaction and prepared statements are shared by all clients; Sessions has no
  BEGIN, and the executor's modules have one client.

Disagreements between code and documentation that have a run are under
`findings` in PROJECT.json. Met while reading, without a run yet:

- `docs/deep_features.md:21-27` says "The WAL records logical operations before mutating
  in-memory state"; only INSERT and CREATE DATABASE do. The other handlers
  (`query_executor.cpp:257`, `:269`, `:280`, `:365`, `:384`, `:396`) change the database first, so
  that a statement whose append throws stays in effect until the process ends and is not
  recovered. `core` has no such fault, and with `WalFaults = {"OpenFails"}` TLC finds
  `MemoryIsLogged` violated by the first CREATE TABLE.
- A snapshot whose last bytes are lost by the destructor's flush is published and the log
  emptied behind it (`storage_manager.cpp:143`; hence `Damaged` in
  `LogGivenUpForSnapshot`), and a log record lost the same way is lost without a trace
  (`write_ahead_log.cpp:46`). `docs/deep_features.md:36` names tests of partial writes as a
  next step.
- LOAD is not logged, and with two databases in the root recovery takes the
  first file of the directory (`storage_manager.cpp:224`) where `docs/sql.md:54` says
  "the latest saved snapshot".
- LOAD inside a transaction leaves `activeTransaction_` set
  (`query_executor.cpp:414-424`); SELECT keeps reading versions.
- A crash in a multi-row INSERT recovers the rows logged so far, and the statements
  of a transaction that never committed are recovered too.
- LIMIT 0 returns one row (`query_executor.cpp:345`; `TopRows` states it so), and
  LIMIT -1 returns all of them (`parser.cpp:320`).
- NULL equals NULL in a predicate and in a join (`operator==` of `Value`; `JoinExact`).
- Inside a transaction a row deleted after an UPDATE is read again, through a scan
  or an index (`TransactionReads` holds only until something is erased; the run
  `erase` shows the cause).
- When `reset()` cannot truncate the log, sequence numbers start again below those
  in the file (hence the hypothesis of `SequenceNumbersIncrease`).

## 6. Plan

1. Done: executor with log, snapshots, transactions and recovery; table; row
   stores; the theorems of section 4.
2. Done: SELECT, JOIN, planner, value order, both indexes with the leaf pages; the
   grammar and prepared texts; sessions and their refinement of the serial
   specification.
3. Done: theorems on Sessions, PageRowStore, BTreeIndex, Table and Select, the refinements
   of `SerialSessions` and `RowStore`, and `RowsFitSchema` of the executor.
4. Done: `JoinExact`, which now also says exactly when a join throws, and its theorem.
5. Done: loading a snapshot in builds of either evaluation order, with the theorems on
   durability restated for it; the log given up only for a snapshot; writes that fail
   halfway; rows that do not fit, in Sessions.
6. What is left needs other tools: liveness, and the grammar for texts of any length.
