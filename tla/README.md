# Verification of the Oracle backend plugin

TLA+ models, TLC runs and TLAPS proofs for `mcpg-plugin-backend-oracle`: a plugin
that runs operator-fixed Oracle statements for an MCP gateway. Paths below are
relative to the repository (`src/src/lib.rs` is the crate's `lib.rs`).

## 1. The system

| Component | Where | State it keeps | Operations |
|---|---|---|---|
| Pooled runner | `lib.rs` `run_pooled`, `oracle.rs` | a deadpool pool per binding: semaphore permits, parked sessions; blocking tasks; what the database has open or committed per session | `get` (ping or connect), spawn the task, run the statement, commit, hand the session back, two timers |
| execute dispatch | `lib.rs` `execute`, `finish_error` | none beyond the call | look up the binding, parse, evaluate params, choose statement and op, shape the result, classify the error, emit |
| Envelope and classification | `envelope.rs` | none | `classify_error`, `build_result_envelope`, schemas |
| Observability | `lib.rs` `emit_host_observability` | none: the host has the metrics and the audit log | one histogram, one counter, an audit event per failure |
| Surface shaping | `surface.rs` | none | bodies of `resources/read` and `prompts/get`, listing pages, completion values |
| Resource listing | `lib.rs` `list_resources`, `surface.rs` | none: the cursor lives with the client | one page per call, keyset or offset |
| Completion | `lib.rs` `complete_template_variable` | none | candidates for one template variable |
| Registration and registry | `lib.rs` `register_profile`, `types.rs` | binding name to profile, behind a `RwLock` | validate, build the lazy pool, replace the profile; sync readers for schemas |
| Catalog introspection | `catalog.rs` | none | resolve owner and table filters, build the dictionary query and its binds |
| Params and binds | `params.rs` | compiled CEL programs | evaluate, lower to scalar binds |
| Row projection | `oracle.rs` `row_to_json` | none | rows to JSON objects, column values to JSON by their type |
| Watch strategy | `watch.rs` | a pool of one session, a runtime, the SDK loop's cursor | poll, cancel |
| cdylib bridge | `cdylib.rs` | a tokio runtime with its blocking threads | blocks on the async method of the same name; drops plugin and runtime when unloaded |

How they interact. A gateway call enters through the bridge on a host thread, which
blocks while a runtime worker runs `execute`, `list_resources` or
`complete_template_variable`; any number of them run at once. All three end in
`run_pooled`, which shares one pool per binding, moves a session into a task on a
blocking thread and waits for it under a timer. The task returns the session to
the pool when it ends, which may be long after its caller was answered. The
watcher has a thread, a runtime and a pool of its own.

What is hard here:

- a timed-out caller and its running task (`lib.rs:910-914`): the mutation may be
  committed after the failure was reported, and the session is busy meanwhile;
- an abandoned connect (`lib.rs:897`): `get` is dropped, its blocking login is not;
- sessions are reused with whatever transaction they carry (`oracle.rs:155-160`);
- two timers in a row and pings under neither (`lib.rs:897`, `910`, `oracle.rs:78`);
- a listing spans calls while its table changes (`lib.rs:803-833`);
- early returns that each have to tell caller, metrics and audit log the same
  story (`lib.rs:484-592`, `657-699`);
- late statements of a watcher on a pool of one (`watch.rs:188-206`);
- jobs that timers abandoned, on the threads that everyone shares, and still there
  when the host unloads the plugin (`cdylib.rs:19-33`, `lib.rs:227`);
- an argument's way through JSON, CEL, JSON and a bind, and a result's way through
  typed reads and unordered objects (`params.rs:73-162`, `oracle.rs:169-255`).

What makes each component correct, in one line: no permit or session is lost or
shared and answers agree with the database (pooled runner); what every observer is
told agrees (dispatch); nothing is listed twice or missed, and the walk ends
(listing); every advance is seen once and only as news (watch); in-flight calls
see one registration or the other (registry); an operator's filter is
never lost (catalog); binds are what the params say (params); no value is shown as
null (completion); every call returns and nothing outlives the plugin (bridge).

## 2. Modules

| Module | Models | Kind |
|---|---|---|
| `CallContract` | what a caller may rely on: done means durable, not-run means no effect ever, unknown means nothing | abstract specification |
| `PooledCalls` | concurrent `run_pooled` calls over the pool, the sessions and the database | detailed specification |
| `PooledImplements` | the refinement mapping from `PooledCalls` to `CallContract` | composition |
| `PooledCallsProofs`, `PooledImplementsProofs` | theorems about the two above | proofs |
| `MCPooledCalls` | symmetry for TLC | model checking |
| `TimedCall` | one call's clock: both timers, pings, round trips | detailed specification |
| `TimedCallProofs` | its time bounds | proofs |
| `CallDispatchProofs`, `ResourceListingProofs`, `RegistryProofs`, `OracleWatchProofs`, `BridgeProofs` | the inductive invariant and the safety properties of the five modules below | proofs |
| `CallInputs` | params to binds, catalog filters to a dictionary query, the inputs a schema names | pure operators |
| `Completion` | rows to JSON to completion candidates, for given column names and number of rows | pure operators |
| `CallDispatch` | `execute` from lookup to reply, metrics and audit, and `complete_template_variable`; extends the two above | detailed specification |
| `ResourceListing` | a client's walk of `resources/list` while the table changes | detailed specification |
| `Registry` | the profiles, registrations that replace them, calls and late tasks on old pools | detailed specification |
| `OracleWatch` | one `oracle_poll` watcher with its thread, tasks and pool | detailed specification |
| `Bridge` | calls and jobs on the bridge's runtime, and unloading the plugin | detailed specification |

`CallDispatch` treats `run_pooled` as one step that succeeds or fails in one of the
ways `PooledCalls` produces; `PooledCalls` treats everything before `run_pooled` as
the choice of an entry point. The two meet in `EffectiveOp` and in the kinds of
failure. `Registry` keeps of a call only what its references to a profile and pool
depend on; the statement it says a call runs is the one `CallDispatch` and
`PooledCalls` choose the op for. `Bridge` keeps of a call which of its jobs it waits
for, with a pool that never runs out, since permits are `PooledCalls`'.
`TimedCall` is `PooledCalls` for one call with a clock instead of a database.

### PooledCalls and the code

One call is one invocation of `run_pooled`. `pc` is where the async function stands,
`worker` the blocking task it spawned, `held[c]` the session that the call's `get`
or task owns. Owning a session and holding a permit of deadpool's semaphore are the
same thing, so there is no separate permit per call; `permits` counts the free ones.

- `Begin`, `AcquirePermit`, `TakeSlot`: `pool.get()` (`lib.rs:897`). The loop inside
  it is deadpool's: a parked session goes to `recycle`, an empty pool to `create`.
- `PingOk`, `PingFails` (`oracle.rs:71-81`): the ping runs inline, so the timer
  cannot fire in `recycling`. A failed ping evicts and the loop goes on.
- `ConnectOk`, `ConnectFails`, `AcquireTimeout` (`oracle.rs:56-69`, `lib.rs:897-901`).
  A dropped `get` leaves its connect in `orphans`; `OrphanConnects` and `OrphanEnds`
  are what that blocking login still does.
- `WorkerQueries` to `WorkerPanics` (`oracle.rs:113-167`): the task. Every ending is
  a `Finish`, since the pooled object is dropped by the closure on every path.
  `WorkerCommitFails` is the error of `row_count` or `commit`: no arm rolls back, so
  the work may be left open on the session, rolled back, or committed with the reply
  lost.
- `Deliver`, `CallTimeout` (`lib.rs:910-914`): a timeout answers the caller and
  leaves the task alone.
- `SessionDies`: the server or the network drops a session and its open work.

The statement of an `op: execute` call is taken to be a plain DML statement that
works within the session's transaction, neither DDL nor PL/SQL that commits by
itself.

### The other modules and the code

- `TimedCall` follows `lib.rs:889-915` with `Tick` for time; a deadline that has
  come stops the clock until its timer fires or its round trip ends (`Due`). A task is
  `"queued"` from `Spawn`, with the second timer running, until a blocking thread takes it
  (`Start`); nothing bounds that wait, and the call may be answered meanwhile.
- `CallDispatch` has one action per stretch of `execute` between two early returns.
  An error message is the set of marks `classify_error` and the label search look
  for. `Failures` lists which marks the fixed texts of the code carry and which
  the quoted driver text or CEL source may add. `arguments` is the parsed payload
  from `Parse` until `run_pooled` takes the binds; only arguments the binding
  mentions are enumerated there (`Mentioned`, for TLC's sake), and `SchemaNamesInputs`
  asks about the others.
  `CatalogBind` and `ParamsBind` are the two branches that make `statement`;
  `CompletionLookUp`, `CompletionOk` and `CompletionFails` are
  `complete_template_variable`, which records nothing.
- `CallInputs`: `JsonToCel`, `EvalCel`, `CelToJson` and `ToBind` are the four stages of a
  param. Values are a type and a number, the widths scaled down in proportion
  (`ExactMax` for 2^53, `I64Max`, `U64Max`) and a float kept as its whole part. CEL is
  external; a param reads an argument, guards against its absence, divides by it,
  which is how a value stops being finite, falls back to another argument, or reads one
  by index. `Source` is its CEL text in tokens, and `ParamArguments` the scan of
  that text for `arguments.` (`lib.rs:933-986`), a way of its own beside `EvalCel`.
  `Resolve` and `BuildQuery` are those of `catalog.rs`; `FilterArguments` and
  `ParamArguments` are what `input_schema` names.
- `Completion`: a cell is the set of typed reads that succeed on it, so that each
  fall-through of `column_to_json` is taken. `ColumnNamed` is a JSON object's way with a
  name that occurs twice. The order of an object's keys is a property of the build
  (`serde_json` with or without `preserve_order`), hence a choice.
- `ResourceListing` has one action per page (`ListPage`: binds, statement, rows to
  page, next cursor) and the table's writers. A row is a number that is both its
  cursor column and its resource. `binding` is the mode and a trait of the operator's
  statement: how it compares with a NULL cursor, in which order it uses the
  placeholders, whether its column names are the configured ones, and whether the
  cursor column has NULLs or numbers beyond i64. `Rounded` is `number_to_json` there:
  the number becomes the nearest value on a grid, as it does among doubles.
- `Registry`: `StartRegister` is `register_profile` up to the write lock, `Insert` the
  replacement under it (`lib.rs:438`). A lookup does not pass a registration that waits
  for the lock (`Enter`). `Enter` and `Clone` are the lookup at the head of `execute`,
  `list_resources` and `complete_template_variable`; the last two are one entry,
  `listing`, as are the two optional specs they run. `DropPools` is what dropping the
  last `Arc` of a pool does: deadpool's sessions know their pool weakly, so the
  session of a late task is closed if its pool is gone (`EndLateTask`).
- `OracleWatch`: the poll closure (`watch.rs:188-208`) is `Acquire` to `Deliver`.
  The loop around it belongs to the SDK and is modelled from its description in
  `watch.rs:3-17` and `src/README.md:323-361`. The scalar only advances or vanishes,
  as a high-water mark does. `firstKey` says whether it is the first key of the row's
  JSON object, which is what `cursor_from_outcome` reads; of another key it sees
  nothing change.
- `Bridge`: `Begin` is a host thread entering `block_on`, up to the job it hands to
  `spawn_blocking`; `Timeout` either timer of `run_pooled`; `Fail` the reply, preceded by
  an audit job if it is `execute` that failed. `AuditEnds` is the end of that job however
  it ends: an error of the host's sink and a panic are passed over (`lib.rs:227-233`), so
  `attempted` says only that the event reached the sink. `queue` and `running` are tokio's blocking
  pool, first in first out with `MaxThreads` for its 512. `Unload` drops the fields of
  `OracleBackendCdylib` in their order; `DiscardJob`, `StartJob` and `RuntimeDropped` are
  the drop of the runtime. That the host unloads only with no call in flight is an
  assumption.

## 3. Runs

| Run | Checks | Bounds |
|---|---|---|
| `pooled_safety` | session ownership, pool bound, durability of success, no effect of refused calls, reads never write, where open work comes from, the inductive invariant (type, permits and the rest), refinement of `CallContract` | 3 calls, pool of 2, 3 session names; 200,629 states |
| `pooled_liveness` | every call is answered; every slot returns | 2 calls, pool of 1 |
| `pooled_session_cap` (violated) | logged-in sessions never exceed `pool_max_size` | 2 calls, pool of 1 |
| `pooled_commits` (violated) | a commit makes only its own call's statement durable | 2 calls, pool of 1 |
| `timed_call` | answer within two timeouts plus pings; session back within one call timeout per round trip, counted from when the task has a thread | timeout of 3 units, pool of 2, 3 round trips, 1 session parked by others |
| `dispatch` | observers agree, errors after a commit are the known ones; binds match params and placeholders, operator filters stay, the schema names every input not read by index; only NULL is null | every binding, payload and failure class; 2 arguments, 2 params, doubles exact to 4, i64 to 7, u64 to 15; 2 columns, 2 rows; 680,029 states |
| `dispatch_rejection` (violated) | rejections and param errors are not retryable | as above |
| `listing` | listed once, nothing stable missed, the walk ends | 6 keys, pages of 2, 3 changes, 1 failed page, 7 kinds of statement; 14,484 states |
| `listing_offset_binds` (violated) | the documented offset statement lists everything | 3 keys |
| `registry` | whatever is accepted has a statement to run, a pool serves one spec, no session is stranded, replaced pools close, a registration takes effect although calls never cease | 1 binding, 2 operations, 2 surfaces, 2 calls, 2 pools of 1; 170,395 states |
| `oracle_watch` | one statement at a time, events are news, catches up, ends when cancelled | 3 values, 3 faults; 30,071 states |
| `bridge` | unloading discards no audit event, nothing outlives the plugin, calls return, unloading ends | 3 calls, 2 threads; 27,900 states |

Why these bounds are enough. Three calls and a pool of two let one task run late,
one call use the other session and a third draw what the first gives back; the names
of sessions are reused once a session is gone, and the proofs drop the bound.
Symmetry of calls and sessions is used for safety only. Two calls over one session
are the smallest case where a slot has to come back for somebody else. Six keys with
pages of two give three full pages, and three changes fall before, between and after
them. In `TimedCall`, three units let timers start and end out of step. Three faults
let a watcher abandon a statement and two connects, or stumble over its late
statement twice. In `Registry` two pools put an old and a new one side by side, and a
pool of one lets a late task of the old one keep it waiting; a third registration has
to wait there until the first pool is gone. In `Bridge` two threads are few enough
for two abandoned connects to hold them all while a third call needs one. In
`dispatch` an integer is zero, the last of i64, which no double equals, or beyond i64
between two doubles. `listed` is counted up to two, which stands for more than once.
One of the six keys has no uri, fewer than a page: with a page full of them keyset mode
does end early, see below. Every run of a module with proofs checks its inductive
invariant `IInv`, of which `TypeOK` is the first part; in `timed_call` the proof alone
does. The proofs drop all of these bounds.

`IsCatalog` and `HasReadQuery` are FALSE and the binding declares `op: execute` in
the pooled runs: that is the binding on which reads and mutations mix. The theorems
hold for every binding.

### What the violated runs show

- `pooled_session_cap`: call 1's `get` times out while it connects. The permit is
  free, call 2 connects, and both logins succeed: two sessions with `pool_max_size: 1`,
  against `types.rs:155-156`.
- `pooled_commits`: call 1 executes, its commit returns an error and leaves the work
  open, the session is parked, call 2 draws it, the ping succeeds, and call 2's
  commit makes the work of call 1, reported as failed, durable.
- `dispatch_rejection`: a rejected statement or a failed param whose text quotes a
  name such as `POOL_UK` is answered as a retryable transport error.
- `listing_offset_binds`: `types.rs:213` gives `OFFSET :2 ROWS FETCH NEXT :1 ROWS ONLY`
  with `:1` the page size. Binds go by position (`catalog.rs:85`), and `list_resources`
  passes the page size first (`lib.rs:821`): the first page skips one page and fetches
  no row, and the listing is over.

More disagreements were read off while modelling and have no run of their own. For
several of them a property of a passing run names the exception: it shows that nothing
else goes wrong, and does not catch the disagreement itself. In `PROJECT.json` those
hazards therefore name no property:

- `README.md:62` calls `timeout_ms` a "Per-call ceiling (connect + statement + read)",
  but `get` and the task have a timer of that length each and pings run under neither
  (`lib.rs:897`, `910`, `oracle.rs:78`): the bound that `timed_call` checks and
  `TimedCallProofs` proves is twice that plus the pings.
- `lib.rs:394` says that "a `resources/read` never mutates". It does on a resource binding
  that declares `op: execute` and no `read_query` (`lib.rs:601`); without a uri it
  moreover answers with an error after the commit (`lib.rs:657`,
  `CommittedErrorExplained`).
- `lib.rs:756-757` says that the referenced argument names are surfaced. The scan looks
  for `arguments.` and misses `arguments["x"]` (`lib.rs:965`); `SchemaNamesInputs` excepts
  arguments read by index.
- A param that evaluates to an infinite or undefined number is bound as NULL
  (`params.rs:134`): no error tells the caller (`BindsAreParams`).
- The keyset statement of `types.rs:209` compares with NULL on the first page, so that
  page is empty and the listing ends (`StableListed`, trait `null_finds_none`).
- `README.md:369` says large NUMBERs are projected as strings. `number_to_json` makes
  doubles of those beyond i64 (`oracle.rs:231`); as a keyset cursor one that is rounded
  down returns the same page for ever (`WalkEnds`, `cursor_rounded`). A NULL in the cursor
  column does the same by restarting the walk (`surface.rs:80`, `cursor_nullable`).
- A statement that does not quote `uri` or the cursor column returns them in upper case:
  the listing is empty, or ends after one page, without an error (`surface.rs:37`, `52`).
- In keyset mode a full page whose rows all lack a string `uri` is returned as an empty
  page without a cursor, since the cursor is that of the last row with a uri
  (`surface.rs:37-39`, `63`): the listing ends although there are rows behind it. Hence
  `Unhindered` asks for fewer such rows than a page has. The attempt to prove
  `StableListed` found this; the bounds of the run had hidden it.
- `README.md:114` and `catalog.rs:7-8` say that a caller's filter can only narrow. An
  `owner_arg` replaces the operator's owner, or the default `owner = USER`, by any other
  (`catalog.rs:72-77`); `FiltersStay` says what does hold.
- `lib.rs:316-318` wants `list_columns` scoped to a table; with only a `table_arg`, a
  caller who leaves it out lists the columns of every table of the owner.
- `types.rs:240` speaks of the first column, as do `watch.rs:72-73` and `README.md:353`.
  With several, the candidates come from the first in the order of the names, unless the
  build keeps keys as inserted (`lib.rs:870-874`). Both orders are in `Completion`
  (`KeyOrders`), and no property asks which column it is; the watcher reads its scalar the
  same way (`watch.rs:115`), and `CatchesUp` supposes the right one.
- The `request.op` label of a `read_query` read is the declared `op`, not the one that
  ran (`lib.rs:623-630`).
- `watch` accepts `timeout_ms: 0`, which `register_profile` refuses: no tick would succeed.
- The bridge implements neither `input_schema` nor `output_schema`, so a host that loads
  the library sees the trait's defaults.

### Fairness

- `CallerFairness`: tokio fires expired timers, resumes a future whose task has ended,
  and starts calls. A recycle ping returns, because a parked session carries the call
  timeout set by the statement that used it last (`oracle.rs:124`). Nothing is
  assumed of connects, of statements, or of the order in which permits are granted,
  so `EveryCallAnswered` rests on the timers alone.
- `WorkerFairness`: `set_call_timeout` bounds every round trip and the statement makes
  finitely many. It is the hypothesis of `EverySlotReturns`, which does not hold
  without it.
- `Registry`: calls end by their timers and late tasks by their call timeout, and the lock
  goes to a registration that waits for it when no reader is left. tokio's `RwLock` lets no
  new reader past a writer that waits, which is the guard of `Enter`; without it
  `RegistrationNotStarved` fails. Nothing makes the gateway register or callers call.
- `ResourceListing`: the client asks for the next page.
- `OracleWatch`: the loop ticks, tasks end by their call timeout, and a connect ends
  or is timed out. `CatchesUp` holds after finitely many faults (`MaxFaults`).
  `EndsWhenCancelled` has the end of abandoned connects as a hypothesis: ending the
  thread drops a tokio runtime, which waits for its blocking tasks, and no timer of
  the plugin bounds a login.
- `Bridge`: timers fire, threads take jobs, statements end by their call timeout and the
  host's audit sink answers. Nothing is assumed of connects: `EveryCallReturns` has as its
  hypothesis that they do not hold every thread for good, because the audit event of a
  call that timed out needs one; `UnloadEnds` has that they end.

Deadlock is checked in every run; a system that may stop has an explicit stuttering
action (`Quiet`, `Over`, `Answered`, `Listed`, `Stopped`, `Gone`).

## 4. Proofs

Checked by `tlapm`, for every value of the constants that satisfies the named
assumptions, which TLC evaluates on every run of their modules:

| Assumption | Says |
|---|---|
| `CallsAssumption`, `SessionAssumption`, `PoolAssumption`, `BindingAssumption` | finitely many calls, the absence of a session is not a session, a pool of at least one, what a binding declares |
| `TimeAssumption` | the timeout is positive |
| `ScaleAssumption` | doubles are exact to less than i64 reaches, and i64 to less than u64; no argument has the name that stands for none |
| `CompletionAssumption` | column names are in an order; finitely many rows |
| `ListingAssumption` | finitely many keys, pages of at least one row, known modes and statements |
| `RegistryAssumption` | finitely many calls, numbered pools of at least one session, known operations and surfaces |
| `WatchAssumption`, `ThreadsAssumption` | a scalar that has a value; finitely many calls and at least one thread |

Each proofs module shows `Spec => []IInv` for the `IInv` of its component, one lemma per
action or group of actions and under it one step per conjunct the action can disturb,
and takes the safety properties of the component's run from it. What `IInv` adds to the
properties, and why they need it:

`PooledCallsProofs`. `PermitAccounting` needs to know that a call which gives back a
permit owns one (`Holding`, `Stages`); `PoolBound` needs that each free permit leaves
room for one parked session (`ParkedWithPermits`), and then follows by counting holders,
parked sessions and permits; `SuccessIsDurable` needs that a task which has applied its
statement finds it in the transaction of its own live session (`WorkStages`);
`NotRunHasNoEffect` needs that refused calls never had a task (`Stages`) and that all
work belongs to calls whose task got that far.

`PooledImplementsProofs` proves `Spec => KeepsContract`. A statement is unapplied,
open, durable or void by where the database has it and how far its task is; an answer
is done, not-run or unknown. `Begin` maps to `Submit`, `WorkerExecutes` to `Apply`,
a commit to `CommitAll`, evictions, deaths and failures to `Discard`, answers to
`Done`, `NotRun` and `Unknown`, everything else to a stutter. That `CallTimeout` can
only map to `Unknown` is what the contract says about retrying: only a failed `get`
makes it safe.

`TimedCallProofs` proves both time bounds for every timeout, from `TimeInv`: time not
spent in pings is time taken off a timer, and each round trip begun, once
the task has a thread, accounts for at most one call timeout. `TimeInvariant` proves `TypeOK` and `TimeInv`, which the run
therefore leaves out.

`CallDispatchProofs`. `Stages` says that nothing is concluded, reported or run before its
stage, so that what the last stage adds to the metrics and the audit log is all there is;
`Concluded` carries the agreement of reply and label (`ReplyAgrees`) from the stage that
decides both to the one that tells the audit log, and `ObserversAgree` follows.
`CommittedErrorExplained` is inductive with `Stages`, because only the step that takes the
runner's result sets `committed`. `Statements` says that the statement about to run is
the one its arguments make, which turns the remaining properties into lemmas about pure
operators: `BuildQueryShape` for `FiltersStay`; `BuildQueryNames` and `BindsNames` for
`SchemaNamesInputs`, a statement is unchanged under arguments it does not name, with
`ReadsAreScanned`: whatever argument a form of param reads by name, on any branch, is one
of those the scan finds in its tokens;
`ParamBind` and `ParamBindNearly` for `BindsAreParams`. The last needs that every integer
up to the end of u64 has a double within one part in `ExactMax` (`DoubleNear`), and that
`Nearest` finds one (`NearestIs`): the integer lies between two neighbours on the grid of
the least power of two that reaches it. `Completed` says that the candidates
are those of some result and key order; `OnlyNullIsNull` then holds for any column names
and number of rows. `Runs` ties the op that ran to the binding and the entry point, and a
commit to a mutation that ran. A result has one column or two.

`ResourceListingProofs`. In keyset mode what was listed lies at or before the cursor, once,
and what was there all along and is not listed lies after it (`KeysetListed`,
`KeysetStable`); `Position` says that the cursor is a row. In offset mode the cursor counts
rows, so the same two facts are about a row's rank, the number of rows before it
(`OffsetListed`, `OffsetStable`), and an inserted or deleted row moves ranks one way only.
They rest on lemmas that count: a short page has all rows (`ShortPage`), no page has more
than its size (`PageBound`), and a row is on the page, or behind it, by its rank
(`OnOffsetPage`, `AfterOffsetPage`). `ListingAdvances` is an action property: a page with a
successor moves the cursor on, whatever the writers do. It is the part of `WalkEnds` that is
safety.

`RegistryProofs`. `PoolServesOneSpec` needs that a pool of a registration that waits for the
lock is nobody else's (`RegistrarStages`), and that a call has a profile exactly from its
lookup to its answer (`CallStages`). `NoSessionStranded` follows from `ParkedInLivePools` and `CallStages`: whoever keeps a pool
alive is a binding or a call that has not answered. The tasks on a pool are counted
(`TaskStarts`, `TaskLeft`): with the late ones and the parked sessions they are no more than
`PoolMaxSize`, which is the last part of `TypeOK`.

`OracleWatchProofs`. `OneStatement` follows from `OnePermit`, the permit is free, with the
present tick or with a late statement, which is inductive with `Stages`. `EventsAreNews`, an
action property, needs `InOrder`: what the tick, its statement and the cursor know of the
watched value is in the order in which they learned it, and the value never falls.

`BridgeProofs`. `NoAuditDiscarded` needs that a call in `"audit"` has its job among those queued or
running, and the other way round (`JobStages`), and that no job is there twice
(`JobsOnce`), so that its end is the end; then a call that reports a failure has
given its event to the sink (`AuditAwaited`), and the host unloads only when all have
returned. The first form of `JobStages` was not inductive: it
had to say that a call whose audit is awaited has failed. `NothingOutlivesUnload` counts
sessions against the calls that carry one (`CarryOne`, `CarryOneLess`) and needs `Dropped`: a
plugin that is being dropped has neither pools nor calls.

Induction. The library's induction theorems cannot be used with the provers at hand, but that
a relation is well founded can: `Least` derives from it that a nonempty set of naturals has a
least element, and `Induction` the principle for a set. `Pow2` is thereby shown to be
what its equation says (`Pow2Is`), and a finite set of rows to have a last one (`MaxIs`).

What was proved is safety. Only model-checked is liveness, which is out of the prover's
reach: `EveryCallAnswered`, `EverySlotReturns`, `WalkEnds`, `CatchesUp`,
`EndsWhenCancelled`, `ReplacedPoolCloses`, `RegistrationNotStarved`, `EveryCallReturns` and
`UnloadEnds`.

## 5. Not modelled

- deadpool, tokio, rust-oracle and the SDK's polling loop are external: modelled as the
  code relies on them. deadpool's semaphore is fair, here permits are granted in any
  order; tokio's blocking pool is first in first out in `Bridge`.
- The values of columns, beyond which read yields them, and CEL values that are bytes,
  durations or timestamps: no property here tells them apart. Filters that are blank but
  not empty.
- Transactions that a read leaves open (`SELECT ... FOR UPDATE` under `op: query`).
- JSON schemas, plugin descriptor, build files: constant data.
- Concurrent registrations, and `output_schema`. It and `input_schema` fall back to a
  default when `try_read` fails (`lib.rs:738-743`, `762-777`), which needs a writer at that
  moment; the bridge forwards neither method, so nothing in this repository calls them
  beside a registration. Of `input_schema` only the names it gives are modelled.
- The validation of the watch spec, and `register_profile` through the bridge:
  `Registry` has the checks of registration, and the watcher starts from a spec that
  passed. What the SDK's polling helper does with changes before the first tick that
  succeeds.

## 6. Plan

1. (done) `PooledCalls`, `CallContract`, `PooledImplements`, proofs; `TimedCall`.
2. (done) `CallDispatch`, `ResourceListing`, `OracleWatch`, `Registry`, model-checked.
3. (done) `CallInputs` and `Completion` inside `CallDispatch`, `Bridge`, the statement
   traits of `ResourceListing`, model-checked.
4. (done) Proofs of every safety invariant and action property that a run checks.
5. Proofs of the safety part of further liveness properties: that a step of an abandoned task,
   connect or job only lowers what remains to be done (`EverySlotReturns`,
   `ReplacedPoolCloses`, `UnloadEnds`), as `ListingAdvances` does for `WalkEnds`; that what
   was committed or answered stays so.
