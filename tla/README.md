# Verification of tabularis-sqlserver-plugin

TLA+ models of the SQL Server plugin for Tabularis (`src/`), the TLC runs that
check them and TLAPS proofs about them. The plugin is a Rust process that
answers JSON-RPC 2.0 lines on stdin/stdout by running SQL through pooled TDS
sessions. Two things are hard in it: what happens around the SQL (tasks,
channels, a pool registry shared by handlers and a cleanup task, sessions that
are reused after anything may have happened on them), and the agreement of two
parties about one request (the server about the text that was sent, the host
about the value it was shown, other clients about the schema).

## Inventory

| Part | Source | State | Operations | Talks to |
|------|--------|-------|------------|----------|
| Dispatcher | `src/main.rs` | request and response channels (64 each), a mutex on the request receiver, 4 workers, `shutdown` watch | `run_reader`, `run_worker`, `run_writer`, `run_pool_cleanup`, the joins of `run` | calls `rpc::handle_line`, `pool_manager::cleanup_idle_pools` |
| RPC table | `src/rpc.rs`, `src/handlers/*` | none | decode, call one driver operation, exactly one response | settings, registry, driver |
| Settings | `src/settings.rs` | `SETTINGS`, `SETTINGS_VERSION` | `initialize`, `current`, `subscribe` | read by new pools and by the cleanup task |
| Pool registry | `src/pool_manager.rs`, `acquire` in `src/driver/mod.rs` | `SQLSERVER_POOLS` behind an `RwLock` | `get_sqlserver_pool`, `remove_sqlserver_pool`, `cleanup_idle_pools`, `shutdown` | deadpool |
| Session | `src/driver/pool.rs`, `src/driver/error.rs` | `BridgeConnection::recyclable`, the client's transaction | `simple_query`, `query`, `execute`, `create`, `recycle`, startup script | bridge and `mssql-tds` |
| Connection parameters | `src/connection.rs`, client configuration in `src/driver/pool.rs` | none | parse a connection string, reconcile it with discrete fields | before every lookup, twice per request |
| Query execution | `src/driver/mod.rs`, `execute_batch` in `ops.rs` | none beyond the session | `execute_on_connection`, `run_query_collecting`, row ceiling, affected rows, pagination | classification, session |
| SQL classification | `src/driver/helpers.rs` | none | code mask, statement splitting, page clause, affected-rows wrapper, quoting | query execution, row edits |
| Row edits and BLOBs | `src/driver/ops.rs`, `helpers.rs`, `blob.rs` | on the server: rows, `IDENTITY_INSERT` of the session | insert, update, delete a record, preview and save a BLOB | session, values |
| Values | `src/driver/extract/`, `src/common.rs` | none | cell to JSON, JSON to parameter | query execution, row edits |
| Introspection | `src/driver/introspection.rs`, `version.rs` | none | tables, columns, keys, snapshot, AI context, version probe | session |
| DDL builders | `src/driver/ddl/mod.rs`, `ops.rs` | on the server: the schema | create table, add and alter column, foreign keys | the host runs the statements |
| Users and privileges | `src/driver/users.rs` | on the server: logins, users, permissions | create, drop, set password, apply privileges in a transaction | session |
| Other builders | `routines/`, `triggers/`, `query_templates.rs`, `types.rs`, views in `ops.rs` | none | SQL text | session |
| TypeScript | `explain/`, `ui/` | none | SHOWPLAN parser and a form control in the host | none |

How a request travels: the reader puts its line in the request channel; a
worker takes it, the handler resolves the parameters, looks a pool up, checks
out one session (no operation holds two), runs its calls, drops the session,
and the worker sends the response to the writer. Meanwhile the cleanup task
sweeps the registry, `initialize` changes the settings, `shutdown` drains the
registry.

What makes each part correct:

- Dispatcher: one answer per line, bounded memory, drained before exit, a slow
  handler does not block others, ends after stdin ends.
- Registry: lookups find open pools built for the key; a failed pool does not
  come back; nothing in use is closed; no pool outgrows its size; getters are
  served; unused pools go.
- Session: nothing of one request is visible to the next; a session that may
  hold unread packets is not reused.
- Parameters: no source is dropped silently, TLS is never weaker than asked, the
  order of keywords is irrelevant, resolving what was resolved changes nothing.
- Queries: scanner and server read the same code, what the plugin appends is
  read as it is meant, the ceiling holds, nothing is lost without its flag, the
  sentinel never reaches the host, pages tile and end.
- Row edits: a shown cell binds back to itself, an edit hits its row and no
  other, values reach their columns, `IDENTITY_INSERT` never outlives the request.
- Catalog: keys and columns are those of their table, the dialect fits the
  server, an edit that succeeded is the one asked for.
- Accounts: a failed create leaves nothing; a batch of privileges is applied
  whole or not at all.

The full list of hazards, each at its line, is `hazards` in `PROJECT.json`.

## Modules

### RequestService, Dispatch, MCDispatch, DispatchProofs

`RequestService` is what the host may rely on, with four variables (`answered`,
`open`, `broken`, `exited`): lines are accepted and answered at most once, and
the process ends only after every accepted line was answered, unless stdout
broke. `Dispatch` is `main.rs`:

| Code | TLA+ |
|------|------|
| `run_reader` loop, its bounded send, end of input | `ReadLine`, `SendRequest`, `StdinEnds` |
| `req_rx.lock().await`, `rx.recv().await` (a line, or `None`) | `LockReceiver`, `Receive`, `ReceiveClosed` |
| `rpc::handle_line` | `Handle` |
| `resp_tx.send` and its error branch | `SendResponse`, `SendResponseFails` |
| `run_writer` | `ReceiveResponse`, `WriteBody`, `WriteFails`, `FlushFails`, `WriterCloses` |
| the end of `run`, `run_pool_cleanup` on `shutdown_rx` | `CleanupStops`, `JoinWorkers`, `JoinWriter`, `JoinCleanup` |

A line stands for its own response, since `handle_line` returns one value for
every line; blank lines and cleanup ticks change nothing here and are
stuttering steps. `stdout`, `accepted` and `stdoutFailed` are histories that
only properties read (and `WriteBody`, to stop after a failure).

### PoolRegistry, MCPoolRegistry, PoolRegistryProofs

A configuration is one set of resolved parameters, `KeyOf` is
`build_connection_key`. Handlers go through `Lookup` (`get_sqlserver_pool`
under the write lock), `EnterGet`, `GetPermit` or `GetClosed`, `CheckOut`,
`RecycleFails`, `CreateFails`, `FailRequest` (the error branch of `acquire` with
`remove_sqlserver_pool`) and `Return`. The sweep holds the lock from
`SweepStart` to `SweepEnd`; between `SweepInspect`, which reads the status of one
pool, and `SweepClose`, handlers go on with the handles they have.
`ShutdownDrain` and `ShutdownClose(p)` are the two halves of `shutdown`;
`Initialize` sets `max_pool_size`.

deadpool is not in the repository. It is modelled from how this code uses it
and marked external in the map: permits, the idle list, `size` (a session
counts once its `create` returned), `users` (counted from the start of `get`),
`available`, `close`, and that a pool lives as long as a strong handle to it
while a session has a weak one. Pool identities are reused once nothing refers
to one.

### Session, SessionProofs

One record per slot of a pool. `Call` and `CallFails` are `simple_query`, `query`
and `execute` of `BridgeConnection`, with `discard_if_transaction_open` and
`format_result`; `RawStart`, `RawEnd`, `RawFails` are `run_query_collecting` on
the TDS client; `BatchBegin`, `BatchCommit`, `BatchFails` are
`execute_transaction_batch`; `Connect`, `MayRecycle`, `Reset`, `ApplyScript`,
`ScriptFails`, `Discard` are `BridgeManager::create` and `recycle`. SQL is
abstracted to what a later request could see of it: changed settings or
temporary objects, an open transaction. A fault is a server error, a timeout, a
lost transport or another conversion error; a batch that fails may have had any
of its effects. The history `faulted` remembers on which path a fault that
requires a discard occurred.

The `has_active_transaction` flag of the client is taken to be right
(external), and `reset_session` to forget everything but an open transaction.

### Accounts, MCAccounts, AccountsProofs

The account requests of `driver/users.rs` and the server state they change:
`logins` and `users` by name, each login with an identity (its SID) by which users
refer to it, and the direct permissions of one scope per user (scopes do not
influence each other). Handlers run on sessions of their own and take one step
per statement or catalog query, so that requests on the same names interleave
at every point where the code awaits.

| Code | TLA+ |
|------|------|
| `create_user`: the two checks, `CREATE LOGIN`, `CREATE USER`, `DROP LOGIN` on failure | `LoginExists`, `UserExists`, `CreateLogin`, `CreateUser`, `Cleanup` |
| `ensure_account` before each of the others | `Ensure` |
| `drop_user`, `set_password` | `DropUser`, `DropLogin`, `SetPassword` |
| `apply_privileges`: `permissions` and the diff | `Inspect`, `Plan` |
| `execute_transaction_batch` | `BeginTransaction`, `Change` (one statement), `Rollback`, `Commit` |
| `recycle` dropping a session with an open transaction | `Discard` |
| an administrator with another client | `Deny` |

A statement ends in one of four ways: `ok`, `refused` (a server error: no effect),
`lost` (it took effect but its answer did not arrive) and `undone` (no answer, no
effect). The handler sees one error in the last three. The server (external) keeps
`perms` as the open transaction sees them and `undo`, what a rollback restores;
`txn` names the handler that holds the locks, or `Abandoned` once that handler has
answered and its session waits to be discarded. `Committed(u)` is what everybody
else sees. `made`, `excused` and `late` are histories that only properties read.

### ConnectionParams, MCConnectionParams, ConnectionParamsProofs

One request's parameters on their way: `ConnParams` (`rpc.rs` resolves them),
`GetPool` (`get_sqlserver_pool` resolves the result again), `BuildConfig`
(`build_config`).

| Code | TLA+ |
|------|------|
| `ParsedConnectionString` and its keywords | `Unset`, `Assigns`, `ApplyKeyword`, `Parse` |
| `set_string`, `set_sensitive_string`, `set_value` | `Add` |
| `finish_tls` | `TlsFromKeywords`, `FinishTls` |
| `reconcile_string`, `reconcile_value` and the fields they are used for | `ReconcileText`, `ReconcileValue`, `ReconcileDatabase`, `ReconcileFlag`, `Merge` |
| without a connection string; the checks at the end | `Alone`, `Checked` |
| `resolve_connection_params` | `Resolve` |

A connection string is the sequence of keyword/value pairs its tokenizer yields.
A text is what is left without case and outer blanks, with one flag for each: that
is what `trim`, `eq_ignore_ascii_case` and `non_empty` tell apart. `Bad` is a text
that is no value of its keyword, and the error. The host of a URL is a pair of its own
(`HostKeys`): it is checked before its percent encoding is undone, so that it may be
blank, which a keyword's may not (`Hostless`).

### StatementText, ServerText, QueryExecution, MCQueryExecution, QueryExecutionProofs

`StatementText` is the lower half of `helpers.rs` over sequences of tokens: `Scan` is
one turn of `code_mask`, `Statements` and `TopWords` split its result,
`ReturnsResultSet`, `CanBePaginated` and `ReportsAffectedRows` classify a text,
`Paginated` and `Wrapped` add to it. Each loop is a function from the positions of the
text to the state behind them (`Scans`, `Depths`, `Splits`, `Picks`). `ServerText`
(external) says what the server makes of a text by another route. It defines by
counting marks which prefixes are complete literals, names and comments, instead of
carrying a mode from token to token; and it has statements of its own
(`ServerStatements`), which need no semicolon: outside parentheses a word of
`Beginnings` begins one, unless the statement in progress takes it as a part (`SELECT`
behind `INSERT` or `UNION`, `EXEC` behind `INSERT`, `SELECT` or `INSERT` behind
`WITH`). A text that creates a module is one statement, whatever its body has. The
server refuses (`Refused`) what ends inside a lexeme, parentheses that do not match or
that enclose a `;`, `ORDER` without `BY`, `CREATE` that is not first, and an `OFFSET`
clause without an order: what can depend on the text that the plugin appends. Other
errors are `Fail`. Words stand for their kind: `INSERT` for all DML (so it takes a
`SELECT` or `EXEC`, as `INSERT` and `MERGE` may), `UNION` for set operators, `CREATE`
for procedures, functions, triggers and views, `DROP` for any other word that begins a
statement.

`QueryExecution` is `execute_on_connection` on a session, in steps of the TDS stream:
`Send` (`close_query`, `execute`), `OpenSet`, `RetainRow`, `DropRow`, `EndSet`,
`Finish` for `run_query_collecting` and what follows it, `RunPlain` for
`simple_query`, `Fail` for an error at any of them, `NextPage` for a host that follows
`has_more`. The outcome of each text of a batch is kept as `BatchStatementResult`
keeps it. What the server answers depends on what it makes of the text that was sent
(`Served`, `Answers`). To a paged text that sorts it answers with the rows of a table
of `Total` rows at the offset of the clause; to one that gets `ORDER BY (SELECT
NULL)`, with the rows at that offset in any of `Orders`, another one for each page;
with the whole table, in any of `Orders`, when a comment swallows the clause; with any
result sets when it reads several statements or a clause that stands apart. A module
that is created answers with nothing. Everything else is answered with any result sets
within the bounds. A query that sorts is taken to tell all rows apart, as
`README.md:212-217` of the plugin asks for: rows that tie may move between pages.

### CellValues, RowEdits, MCRowEdits, RowEditsProofs

`CellValues` follows a cell around: `Extract` (`extract_value_as`), `Host` (a JSON
number is a double, here with the three limits 2^53-1, 2^63-1 and 2^64-1 as
constants), `Bind` (`value_to_sql_param` with `decode_blob_wire`), `Convert` (the
server's conversion to the column's type). Floats are counted in halves, legacy
datetimes in ticks of 1/300 s.

`RowEdits` puts it to use: a table with a composite key and a data column, a
request that names rows and values by what was shown.

| Code | TLA+ |
|------|------|
| the adapters of `handlers/crud.rs` | `Ask` |
| `detect_identity_column`, `get_columns` for a BLOB | `Probe` |
| expressions, markers and parameters of `insert_record` | `ValueExpressions`, `BoundValues` |
| `build_insert_sql*` with `TRY`/`CATCH` around `IDENTITY_INSERT` | `Batch`, `InsertStatement` |
| `build_update_composite_sql*`, `build_delete_composite_sql`, `fetch_blob_bytes` | `UpdateStatement`, `DeleteStatement`, `FetchStatement` |
| keys of `pk_map` in their order | `WhereClause`, `BoundKeys` |
| `conn.query` and `affected_rows_from_query`; its timeout | `Execute`, `Cancelled` |
| the row of a BLOB, `ensure_preview_size` | `Fetch`, `Fetched` |

A batch is the list of its statements; `Ends` (external) runs them one by one with the
rules of T-SQL for `@@ROWCOUNT`, errors and `CATCH`. Between two steps of the request,
`Elsewhere` changes rows and `Redefine` gives the table an identity column or takes it
away, so that the probe may be out of date. A constraint, a trigger or a missing
permission may deny the DML (`denied`): the batch fails there, `CATCH` runs, and the
session is kept.

### Catalog, MCCatalog, CatalogProofs

The schema of the server as `sys.tables`, `sys.columns` and `sys.foreign_keys` hold
it, a request that reads it and an edit that changes it, while another client
replaces whole tables.

| Code | TLA+ |
|------|------|
| `get_tables`, `get_all_columns_batch`, `get_all_foreign_keys_batch` and their queries | `ReadTables`, `ReadColumns`, `ReadKeys`; `TablesOf`, `ColumnsOf`, `KeysOf` |
| `build_table_column`, `character_length_from_sys_columns` | `TableColumn`, `CharacterLength` |
| `build_foreign_keys`, `split_agg_columns` | `BuildForeignKeys`, `SplitColumns` |
| `detect_server_version` | `ProbeVersion`, `ReadBanner` |
| `get_schema_snapshot`, `get_ai_schema_context` | `Entries`, `Begin`, the end of `ReadKeys` |
| `alter_column_sql` | `Unsupported`, `RenameSql`, `RetypeSql`, `DefaultSql`, `AlterColumn` |
| `create_foreign_key_sql`, `get_create_table_sql`, `get_add_column_sql`, `drop_foreign_key` | `AddForeignKey`, `CreateTable`, `AddColumn`, `DropForeignKey` |

A rule of a foreign key is a word and how it is written (`Styles`): `ActionSql` trims
it and writes it in capitals, `BadAction` refuses other words. The size of a `text`,
`ntext` or `image` column in `sys.columns` is that of a pointer, of `sysname` 256
bytes, of `xml` -1 (`SysType`), and `CharacterLength` makes of these what the code
makes of them.

The host runs the statements it was given in order and stops at the first that
fails (`RunStatement`, `StatementFails`). `past` holds the catalogs since a reading
request began, `edit.asked` what the user wants: both are read by properties only.

## Runs

| Run | Instance | Shows |
|-----|----------|-------|
| `dispatch_safety` | 7 requests, 2 workers, channels of 1, stdout may break | `TypeOK`, `PayloadBound`, `ExactlyOnce`, `DrainedBeforeExit` |
| `dispatch_live` | 4 requests, one of which may hang, 2 workers, channels of 1 | `ImplementsService`, `Responsive`, `ExitsAfterEof` |
| `pool_registry` | 2 handlers, 2 keys, 3 configurations (two under one key, one of them unreachable), 3 pools, sizes 1 and 2 | `WithinPoolSize`, `RegisteredPoolsOpen`, `FailedPoolStaysOut`, `SweepSparesCheckedOut` |
| `pool_live` | 2 handlers, 1 key, pools of size 1 | `WaitersServed`, `UnusedPoolsEvicted` |
| `session` | 2 sessions, query timeout, a script that may open a transaction | `CleanHandout`, `ClientFaultsDiscarded` |
| `session_faults` | 1 session | `FaultsDiscarded` is violated |
| `accounts` | 2 handlers, 1 user name, 2 login names, 3 SIDs, 2 privileges, lost statements, denials by others | `TypeOK`, `FailedCreateLeavesNothing`, `AllOrNothing`, `KnownDenialsStand` |
| `connection_params` | 29 keyword/value pairs, up to 3 pairs and fields together | `NothingChosenSilently`, `TlsAsAsked`, `OrderIrrelevant`, `CanonicalIfTidy` |
| `query` | every text of 2 tokens, of 3 marks, of 3 of the nine tokens that delimit or classify, of 4 of the five that nest, of 3 words that ask for and set an order; four kinds of beginnings, four of middles and four of ends of statements in a row; batches of 2; up to 2 sets of 3 rows against a ceiling of 2; 3 rows in two orders, in pages of 0, 1, 2 and 4 | `ScannerReadsAsServer`, `AdditionsAreRead`, `Ceiling`, `NothingLostUnmarked`, `OwnFaultsOnly`, `PagesTile`, `PagingEnds` |
| `query_paging` | a query with up to 3 tokens behind it | `PagedRequestIsPaged` is violated |
| `row_edits` | 5 types of data, 2 values for each half of the key, 2 rows | `ShownCellsBindBack`, `IdentityInsertCleared`, `EditsAreExact`, `InsertsAsGiven`, `FetchesTheValue` |
| `catalog` | 2 tables in 3 shapes, a server 2016 and one newer than the banner parser knows, one change by another client | `SnapshotTruthful`, `DialectUnderstood`, `EditsAsAsked` |

Bounds, and why they are enough to be interesting:

- Seven requests are one more than two workers, two channels of one slot, the
  reader and the writer hold, so every blocking case occurs: a full request
  channel, a full response channel, a worker that waits for the mutex.
- Two handlers and a sweep are enough for every race the registry has between a
  holder of a handle and whoever closes or replaces the pool; a third pool lets
  an old pool, its replacement and a pool of the other key be alive together.
  The proofs cover every number.
- `ShutdownDrain` waits until an earlier shutdown has closed its pools: one
  shutdown at a time.
- Sessions of one pool share nothing but the manager's configuration; two are
  there to show it.
- Two handlers on one user name and two login names meet in every race on names;
  two privileges make a difference that can be applied in part. Three SIDs are
  as good as any number here: with four, TLC finds the same number of states up
  to symmetry.
- No resolution of parameters relates more than three sources: a keyword, its
  alias or another TLS keyword, and a discrete field. Fields other than the host
  are given in one or two of their forms.
- Four tokens are a mark that opens, one that is doubled or nested, one that closes
  and what follows. Only batches of up to two tokens (`MaxAnswered`) are answered with
  rows of their own, since how a text is read and how its answer is collected meet in
  nothing but the plan and in what the server reads (`Served`).
- A ceiling of two rows is crossed in the first set, in the second, or exactly at the
  end of one. Pages of 1 and 2 over 3 rows end in a full and in a short page; those of
  0 and 4 are what the host may ask for and the ceiling does not allow. `U32Max` is 4,
  above the last row: the model pages through tables smaller than the saturation of
  the offset, as `QueryAssumption` says. Two orders, one the reverse of the other, let
  every row come twice or not at all.
- `JsMax` 3, `I64Max` 7 and `U64Max` 15 keep the order of the real limits, and every
  bigint is tried; ticks cover a whole second and the last of a day.
- One change by another client falls between any two queries of a snapshot and
  any two statements of an edit. A composite key has its columns out of order, one
  name has a comma, one default was made by the plugin.
- Requests, workers, handlers, pools, SIDs and privileges are symmetric in the safety
  runs, not in the liveness runs. Deadlock is not checked for the dispatcher, which
  stops when `run` returns, nor where a request and an edit come to their end
  (`query`, `row_edits`, `catalog`).

Mutants (operators whose comment begins with "Mutant:") are wrong variants of
one definition each; `PROJECT.json` says which property notices which.

## Fairness

- Dispatcher: a task that can run is polled again (weak fairness). tokio's
  mutex and channel permits are first come first served, hence strong fairness
  for `LockReceiver` and `SendResponse`, where workers compete. Nothing makes the
  host write a line or close stdin, and nothing makes a handler in `Slow`
  return. That the writer goes on means that the host reads stdout.
- Registry: the connect timeout bounds `create`. `reset_session` has no timeout
  in the code: that a recycle ends is an assumption about the server. That a
  handler gives its session back is what `query_timeout_seconds` ensures when it
  is not 0. The semaphore and the lock are fair (strong fairness for `GetPermit`
  and `FailRequest`), the cleanup timer fires again and again.
- Query: the session's task runs on whenever the server has answered or the call
  timed out (`Send`, `RunPlain` and the steps of `Collect` are weakly fair), and the
  host keeps asking for pages (`NextPage`). An error is never obliged to happen.
- The other modules claim no liveness.

## Proofs

All for every value of the constants under the assumption named in the module
(`DispatchAssumption`, `PoolAssumption`, `SessionAssumption`, `AccountsAssumption`,
`ParamsAssumption`, `CellAssumption` with `EditAssumption`, `CatalogAssumption`). They
say what types the source gives its inputs, that markers like `None` are no such
values, and how the limits are ordered (a table has at most `u32::MAX` rows, a double
holds fewer integers than an `i64`); every run evaluates them. Deadlock, liveness and
bounds of the runs play no part in the proofs.

- `DispatchProofs`: `TypeOK`, then `ControlInv` (inductive with `TypeOK`: which task
  state goes with which queue and lock state), then `ExactlyOnce` by counting each
  request's place in six disjoint stages, one lemma per move between stages;
  `DrainedBeforeExit` follows from `ControlInv` (every stage but `Written` is empty
  at exit) and `ExactlyOnce`; `PayloadBound` from the capacities and the
  cardinality of the busy workers; `ImplementsService` by mapping every action to
  a step of `RequestService` or a stutter, with the invariants for `JoinCleanup`.
- `PoolRegistryProofs`: `TypeOK`; an inductive invariant that ties `phase`, `at` and
  `req` together, says that no live pool is registered under two keys or both
  registered and drained, and that what handlers, registry and `drained` refer to
  carries a configuration. `RegisteredPoolsOpen`, `FailedPoolStaysOut` and
  `SweepSparesCheckedOut` rest on it. `WithinPoolSize` needs the number of busy
  handlers to grow by at most one per step, from the cardinality theorems.
- `SessionProofs`: `TypeOK`; the invariant that a session in the pool carries the
  effects of requests only until `Reset`, that a request's transaction never
  survives into `reset` or `fresh`, and that a session with a fault on the client
  path is not recyclable.
- `AccountsProofs`: `TypeOK` with `Progress`, the invariant of a batch: what it has
  done of its plan is what the transaction has changed, and nothing else, until
  the commit finds nothing left. `StepOutcome` then says what any step does to the
  permissions others see, from which `AllOrNothing` follows. For
  `KnownDenialsStand` the invariant `Known` (what of a plan in progress is denied
  has been denied since it was made) is carried along; for
  `FailedCreateLeavesNothing` the invariant `Provenance`: an identity that a
  request made is known by no other name than the request's, and never comes back.
- `ConnectionParamsProofs`: all four properties of the run. The inductive invariant says
  that request and parameters are objects of the source's types, that without a
  connection string there are no pairs, and that `params` (once built, what `config`
  comes from) is reconciled with the request (`FollowsRequest`). `Reconciled` lists,
  field by field, what a resolution promises: the value of the string or of the
  object, equal where both are given, and a TLS mode that every keyword admits. It
  is inductive because what was reconciled with a request is reconciled again to
  itself, which is also what `CanonicalIfTidy` needs. What a connection string comes
  to is a fold over its pairs. `FoldGathers` gives it a closed form, `Gathered`: `Bad` if a
  pair is malformed or two pairs differ about a field, else for each field the value
  some pair gives it. `OrderIrrelevant` follows, since the closed form depends on the set
  of pairs alone. The induction over the length of the string is first-order: `Induction`
  says of a *set* that holds 0 and is closed under successor that it holds every
  number, and `FoldIs` that the fold is the one function with its equation.
- `QueryExecutionProofs`: `Ceiling`, `OwnFaultsOnly`, `NothingLostUnmarked`,
  `PagesTile`, `ScannerReadsAsServer`, `AdditionsAreRead` and type correctness. `IInv`
  is the conjunction of `TypeInv`; `Progress` (what was read so far and what is still
  in the stream together are the answer, and the answer has a shape that fits the
  plan: without it neither a prefix nor a missing set of affected rows can be told);
  `Counting` (`retained` is the number of rows in the sets that count against the
  ceiling, so the guard of `RetainRow` bounds what is kept); `AllReportable` (each
  recorded outcome is within the ceiling and not the plugin's own fault);
  `NothingLostUnmarked`, which carries the prefix through the outcomes; and `Paging`
  (where the server reads the clause and the ceiling allows the page, as many rows
  were collected as the offset of the next page says, `has_more` says whether some are
  left, and those of a query that sorts are the first rows in order). `Planned` (the
  text in progress was asked for, and what was sent is what its plan makes of it)
  reduces `ScannerReadsAsServer` and `AdditionsAreRead` to facts about texts of any
  length:
  - `Turns` and `SameTurns`, by `Induction` over a set of numbers: a loop over a text
    has a state behind every token, and loops that begin and go on alike are alike.
    `ScansRun`, `DepthsRun`, `SplitsRun`, `PicksRun` and `CutsRun` are the loops of
    scanner, parentheses, splitter, word collector and server.
  - `ScannerIsServer`: scanner and server read alike (`ReadAlike`). Either both are between two
    lexemes, or the server has a lexeme in progress and the mode, the nesting and the
    pending doubled mark of the scanner say what its marks count up to (`Inside`).
    `QuotedFollows`, `LineFollows` and `CommentFollows` carry this over one more token of a
    literal or name, a line comment and a block comment.
  - `CodeOfWrapped`: a line end closes what `Closed` allows to be open,
    so the semicolon and the sentinel are code. For the server they are a statement of their
    own (`BatchEnd`), because parentheses that the server accepts are closed by then, so the
    semicolon ends whatever statement is in progress.
  - `ReadsRun` and `TokenRead`: the server's statements grow token by token, a token
    joins the statement in progress, begins one or ends one. `DepthIsLevel` says that
    plugin and server count parentheses alike where they match, although the plugin's
    depth saturates at zero. `WordsSort` and `FirstSorts` say that `HasOrderBy` of a
    text, `HasSort` of its code and `HasSort` of its one statement agree.
  - `ModuleAlone`: without semicolons the plugin has one statement too
    (`OneWithoutSemicolons`), whose first word is the module's `CREATE` (`FirstWord`).
  - `ClauseRead`: what `Normalized` trims is read as line ends and semicolons only, so
    that the trimmed text has the statements of the whole (`SemicolonsRead`); no word
    of the clause begins a statement outside parentheses, so it joins the one in
    progress (`StatementGrows`).
- `RowEditsProofs`, about any table, cells and limits:
  - `ShownCellsBindBack` by the type of the cell. The integer case splits at `JsMax`, the
    datetime case is the arithmetic of ticks, milliseconds and back.
  - The invariant: `Typed`; `Keyed` (rows are told apart by their keys, whoever changes
    them, so that a `WHERE` on the key selects at most one); `Faithful` (until it is executed,
    the request says what the intent says and the session is as a reset left it);
    `Translated` (the statement is the one that is built for the request, with every
    parameter bindable); and `IdentityInsertCleared`.
  - `HowItEnds` and `WhenCut` unfold a batch of at most four statements under the server's
    rules: it succeeds with the edit done once and counted, or fails with nothing
    done, and in either case `IDENTITY_INSERT` is off; cut off anywhere, the session is
    discarded. `IdentityInsertCleared` follows.
  - `SortedKeys`, `KeysBack`, `UpdateFinds`, `DeleteFinds`, `FetchFinds`: the
    condition finds the row whose key was shown, because clause and parameters list
    the columns in one order and a marker and its parameter have the same place
    (`Selected`). `InsertValues`: markers are numbered by the bound columns before
    them (`Place`), which is where `At` puts their parameters, so raw expressions
    shift nothing. `EditsAreExact`, `InsertsAsGiven` and `FetchesTheValue` combine
    these with the ways a batch ends.
- `CatalogProofs`:
  - `DialectUnderstood`. The invariant relates `version` and `source` of the request
    to the server's version, which never changes.
  - `EditsAsAsked`, for any sound tables (no two columns and no two keys of one name)
    and any definitions. An alteration is at most four statements, each left out when
    it is not needed. `TableAfter(n)` is the table with the column as the first `n` of
    the four leave it. `Altering`, the heart of `EditorInv`, says that while nobody
    else changes the table it is `TableAfter(n)` for some `n` and the statements left are
    those from `n + 1` on. That is inductive only together with `NameIsOwn` (after the
    rename no other column has the new name: otherwise the statements behind it would
    reach two columns) and with the tables being sound when the editor opens one.
    `RunsPart` takes one needed statement from `TableAfter(n)` to `TableAfter(n + 1)`;
    `NotNeeded` shows that leaving one out changes nothing, for which the type that was
    shown must be the declared one (`TypesReadBack`: sizes in bytes and `(max)` read
    back as they were declared). `Adding` covers the edits of a single statement.
  - `SnapshotTruthful`, in three parts.
    - What one answer says. `OrderedNames`: `ORDER BY` lists every name once. `Flattened`
      gives the places of the blocks in a `FlattenSeq` (by `SetInduction`, an induction over
      numbers stated for a set, as tlapm takes no induction rule with an operator
      parameter), so that `KeysOfTable` can say that the pairs of a constraint stand
      together in the bucket of its table; `KeyRead` and `NamesSplit` that joining and splitting
      column names gives the names back unless one has a comma; `ColumnsRead` that sizes
      in bytes read back as characters.
    - `ServerInv`: the catalog stays one a server can have (`SoundCatalog`), whatever
      statements the plugin runs and whatever others leave, since all of the first
      part is about such catalogs. One lemma per kind of statement (`RenameKeepsSound` to
      `AddKeyKeepsSound`).
    - `ReadInv`: `past` ends with the current catalog while a request is in progress, and
      tables, columns and keys are the answers for `past[i]`, `past[j]` and `past[k]`
      with `i <= j <= k`.

The inductive invariants of `ConnectionParams`, `RowEdits` and those of `Catalog` were
checked by TLC on the instances of their runs, that of `QueryExecution` on smaller
ones, before they were proved.

Only model-checked: the liveness properties (`Responsive`, `ExitsAfterEof`,
`WaitersServed`, `UnusedPoolsEvicted`, `PagingEnds`), since liveness under fairness is out
of the prover's reach; and the two disagreements under Findings, which runs show.

## Findings

1. `FaultsDiscarded`: errors on the raw TDS path do not mark the session for
   discard (`driver/mod.rs:107`), against `driver/error.rs:108-109`.
2. `PagedRequestIsPaged`: the page clause is appended on the line of the query
   (`helpers.rs:378`). A trailing `--` comment swallows it, a comment behind the
   terminator (`SELECT x; /* c */`) cuts it off, although the result carries
   pagination metadata (`README.md:192-200` of the plugin). A host that follows
   `has_more` of such a query gets its first rows again and again. Statements without a
   semicolon between them (`SELECT x SELECT x`) are counted as one (`helpers.rs:353`)
   and paged too, against `README.md:195-196`: the last gets the clause, the first is
   cut to the page. `AdditionsAreRead` (proved) shows that a text which the server
   accepts and reads as one statement goes wrong only for what stands behind it: a
   comment, or terminators on several lines.

## Known departures

What the modules reach or leave out knowingly, and no run demonstrates:

- Dispatcher: `run` keeps its own handle of the receiver, so the reader's error
  branch (`main.rs:118`) cannot be taken; with stdout and all workers gone the reader
  blocks on a full channel.
- Registry: the sweep takes a pool to be idle while its first session is being
  created (`pool_manager.rs:101`), since deadpool does not count it yet, and closes it;
  a getter that waits for a permit gets an error. The key leaves out the startup
  script, the password and, under a connection id, host and port
  (`pool_manager.rs:28`, against `README.md:356-357` of the plugin).
- Accounts: a `DENY` set between the check of `apply_privileges` and its transaction
  is replaced (`users.rs:726`). A `drop_user` that another request overtakes drops by
  name what it has not checked; a `CREATE USER` whose answer is lost leaves a user
  whose login the cleanup removes; a `drop_user` whose second statement fails
  cannot be retried.
- Parameters: outer blanks that braces, percent encoding or `tcp:` protect make the
  second resolution refuse what the first accepted (`connection.rs:624`), hence
  `Tidy` in `CanonicalIfTidy`.
- Queries: a `CREATE PROCEDURE` or `CREATE TRIGGER` whose body ends in DML behind a `;`
  gets the affected-rows `SELECT` appended (`helpers.rs:361`), against the comment at
  `helpers.rs:358-360`. The module is created with it, and the call fails for want of
  the answer: the exceptions in `AdditionsAreRead` and `OwnFaultsOnly`. Rows of
  `DECLARE`, `IF` or a parenthesised `UNION` are discarded as those of a plain
  statement (`mod.rs:261`). A column that has the sentinel's name escapes
  the ceiling (`mod.rs:117`). A page size above `MAX_RESULT_ROWS` skips rows between
  pages (`mod.rs:288`), and with a page size of 0 `has_more` never ends
  (`handlers/query.rs:31`): the model does both, `PagesTile` is about sizes from 1 to
  the ceiling and `PagingEnds` about sizes other than 0. DML without a result of its
  own clears only the first set (`mod.rs:255`).
- Values: text that begins with `BLOB:` is decoded as bytes (`blob.rs:118`), hence
  `LooksLikeBlob`; whole floats between 2^63 and 2^64 are refused (`helpers.rs:202`).
- Catalog: `text`, `ntext`, `image` and `sysname` columns are reported with a maximum
  length of 16, 8, 16 and 256 (`introspection.rs:341-344`), where their values have no
  such bound, or one of 128 characters. `SnapshotTruthful` leaves these four lengths
  out (`Counted`) and compares everything else. The schema of a
  referenced table is dropped (`introspection.rs:417`);
  columns whose names have a comma are split (`introspection.rs:439`), hence `Tidy`;
  a failed version probe on a server before 2017 selects `STRING_AGG`, hence the
  exception in `DialectUnderstood`; `ALTER COLUMN` restates no collation
  (`ddl/mod.rs:45`), which the model leaves out; an edit whose `ADD CONSTRAINT` fails
  leaves the column without a default, which `EditsAsAsked` allows.

## Plan

Done: Dispatch, PoolRegistry, Session, Accounts with their proofs; then
ConnectionParams, QueryExecution with StatementText, RowEdits with CellValues, and
Catalog, each with its run; every safety and action property of a passing run is
proved. Next, in order:

1. Indexes in `Catalog`: their listing, creation and drop.
2. A composition of Dispatch, PoolRegistry and Session: a request from line to
   response, with shutdown of the process while sessions are checked out.

## Not modelled

Identifier quoting, error wording and redaction, the tokenizers of connection
strings, the catalog queries of views, routines, indexes and triggers, the
builders of routine, trigger and view text, the constant table of data types, the
parsers of single settings, the table of RPC methods and the TypeScript parts:
stateless formatting and decoding, covered by the repository's unit tests. TLS
and the TDS protocol are in the libraries.
