# A verification of Yasumu's core

Yasumu is an API laboratory: a Tauri shell, a web front end and a TypeScript
back end (`packages/tanxium`) that keeps each workspace in SQLite, mirrors it in
YSL files under version control, and executes its requests together with the
scripts hooked to them.  This directory holds TLA+ models of that core, TLC
configurations that check them on small instances, and TLAPS proofs.

    tlc -config MCSyncCalm.cfg MCSyncHistory      # model-check one configuration
    tlapm ExecutionProofs.tla                     # check one module's proofs

## 1. Inventory

| component | state | operations | hard because |
|---|---|---|---|
| Workspace mutex (`tanxium/src/common/mutex.ts`) | `locked`, queue of resolvers, one mutex per key | `acquire`, `release`, `runExclusive` | the lock is handed over, so between hand-over and continuation nobody runs and nobody may enter; a function that throws must release |
| Three-way decision (`headless/src/reconciliation.ts`) | none | `reconcileThreeWay`, `mergeValue` | three snapshots, any of them missing, nested values |
| Workspace synchronization (`tanxium/src/rpc/modules/synchronization`) | rows, files, stored baselines | load on activation, sync on request: read, decide, save, store baselines, push, clean up | two stores without a common transaction, edited from outside between any two awaits; crashes; partial failure |
| Record services (`rpc/modules/{rest,graphql,sse,environment,email}`) | rows, dependency rows | create, update, delete; SMTP settings created on first use | take no part in the mutex; SSE dependencies replaced by two statements |
| Workspace persistence, loader (`headless/persistence`, `headless/src/workspace-loader.ts`) | SQLite; none | `get`, `save` of the aggregate, source revisions; read and validate every file | whole-aggregate overwrite; all or nothing: one bad file rejects the workspace |
| Execution engine (`headless/src/execution.ts`, `runtime-host.ts`) | active executions and their linked controllers, events, history | execute, cancel, hooks before and after, nested execution | aborts at any await, errors in any phase, a history store that fails after the terminal event, nested runs that outlive their hook |
| Script worker (`tanxium/src/workers`, `headless/runtime/tanxium-script-runtime.ts`) | queue of calls, the worker thread and its state, pending requests, heartbeat, handlers of host calls | start, invoke a hook, answer, call the host, cancel, time out, crash, restart, dispose | a worker is replaced while messages to and from it, waits for it and handlers for it are under way |
| SSE client (`headless/src/sse.ts`) | parser buffer, last event ID, connection | open, read, parse, filter, reconnect, abort | events split over chunks, the end of the stream inside an event, resuming behind the right event, aborts between two checks |
| Mailbox (`headless/persistence/email-provider.ts`, `smtp/create-email.ts`) | message rows, a cursor per wait | store, delete, await | a cursor over rows that appear while it moves; a poll at the deadline |
| Front doors of runs (`use-rest-request.ts`, `use-sse-request.ts`, `execution.service.ts`, `mcp/server.ts`) | the run in hand, the phase shown; active runs; active tool calls | run, cancel, leave; tools/call, notifications/cancelled | requests, cancellations, events and results travel separately and overtake each other; IDs chosen by clients |
| Editor autosave (`use-serialized-autosave.ts`) | per record: pending updates, save in flight, error | `enqueueSave`, `flushSave`, mount, unmount | edits during a write, failing writes, lost answers, several editors of one record |
| Entity groups (`rpc/modules/entity-group`) | parent of each group | create, update, delete | cycles make every save throw |
| Workspace life cycle (`rpc/modules/workspaces`) | active workspace, module hooks | create, activate, deactivate, delete | hooks of all modules run on activation, one of them loads |
| Cookie jar, CRUD (`headless/src/{cookies,crud}.ts`) | stored jar, entities | read, change, store | read-modify-write by concurrent responses |
| Mail server and hooks (`smtp/server.ts`, `headless/src/email.ts`) | a session per mail | receive, run the hook | the protocol is a library's; the hook is one session with one call |
| Node runtime (`packages/runtime-node`) | the command line's twin of the script worker | the same | the same, with another thread API |
| Request building, RPC layer, command line, YSL text format, lock file, native shell, user interface | little of their own | build, dispatch, parse, present | not concurrent, or not this repository's logic |

**How they interact.**  RPC calls and MCP tools reach the record services, which
write SQLite rows directly.  An activation and the "synchronize" command call
the synchronization service, which runs `reconcile` (loader + repository +
three-way decision) and then the pusher under the mutex of that workspace.
Other programs change the YSL files at any time.  The request views and MCP
clients ask `ExecutionService` for runs and for their cancellation; a run opens
a runtime session on a script worker, whose hooks call back into the host: for
nested runs, which are runs with a controller linked to the hook's, and for mail,
which the host polls from the table the SMTP server writes.  An SSE run consumes
its stream through the SSE client.  The autosave hook in the front end is the
source of most record updates.

**What makes each correct.**  Mutex: exclusion, no lock without an owner, FIFO,
progress.  Decision: an edit of one side wins, edits of two sides merge or are
reported, nothing else is reported.  Synchronization: no edit is lost, only real
races are refused, a refusal changes nothing, after a push files and rows agree,
references resolve, one job at a time, every job ends.  Runs: an abort reaches
everything below, is reported, and ends the run; no session is left open; events,
result and history agree.  Sessions: hooks run one at a time and in order, each
call settles, only the call at fault fails, nothing outlives its call.  SSE: events
are whole whatever the chunks; none is skipped or repeated by reconnecting.
Mailbox: nothing that arrives is passed over.  Front doors: nothing stale is shown,
no run is left behind, no cancellation outlives its call.  Autosave: no edit is
forgotten, "saved" means stored, a failed write never brings an older value back.

## 2. Modules

| module | models |
|---|---|
| `AsyncMutex` | `AsyncMutex`/`KeyedMutex` of `common/mutex.ts`; `stage` is where each caller is inside `runExclusive` |
| `Lock`, `AsyncMutexRefinement` | what a mutex promises: one holder, never free while a caller waits; the refinement mapping |
| `ThreeWay` | `reconcileThreeWay` and `reconcileRecord` as operators on three snapshots |
| `JsonMerge` | `mergeValue` on nested values, with an editor on each side.  `Merging` is the body of the function and `MergeValue` the function that calls itself through it; `Level` bounds how deep objects nest |
| `WorkspaceSync` | a workspace's rows, files and baselines; the record services; synchronization jobs step by step; other programs; faults.  It runs its jobs through an instance of `AsyncMutex` |
| `SyncHistory` | history variables over `WorkspaceSync`, and the properties that speak of what was agreed rather than of what is stored |
| `Execution` | `HeadlessExecutionService`: runs, hooks, nested runs, linked controllers, terminal events, history |
| `ScriptSession` | `TanxiumRuntimeSession`, `ScriptWorker` and the program in the worker thread, which exchange messages |
| `SerialCalls` | what a session promises: calls answered in order, each once, one hook at a time |
| `SseClient` | `consumeSse` over a chain of connections, with the parser |
| `Mailbox` | storing and deleting mail, `awaitEmail` and the provider's cursor |
| `RunClients` | the request view, the MCP server and `ExecutionService` with the messages between them |
| `Autosave` | `use-serialized-autosave.ts`: the registry entry of one record, its hooks, and the back end it saves to |
| `DraftStore` | what autosaving promises: a stored value only moves forward along the edits |
| `RecordKinds`, `MCWorkspaceSync`, `MCSyncHistory`, `MCRunClients`, `MCJsonMerge` | instances for TLC |
| `...Proofs` | theorems about the module of that name; `AsyncMutexProofs` also about its refinement, `WorkspaceSyncProofs` also about `SyncHistory`, `ThreeWay` and `JsonMerge` |

`ThreeWay` and `AsyncMutex` are composed into `WorkspaceSync`.  The four modules
about runs meet at their interfaces: a run of `RunClients` is one of `Execution`, a
hook of `Execution` (`Invoke` to `HookReturns`, `HookThrows`, `HookDies` or
`HookRejected`) is a call of `ScriptSession`, whose host calls are `HostExecute` of
`Execution` or a wait of `Mailbox`; the handlers that `ScriptSession` cuts
(`handlerCut`) are the children that `HookDies` aborts.

Definitions introduced by "Faulty" are variants that no behaviour uses: each is
a plausible mistake which one property notices.

### WorkspaceSync and the code

`db` holds the rows as `repository.get` reads them, `file` the content of the YSL
files as the loader reads it, `revision` the rows of the source-revision table
(a source half and a database half).  A record has a *content* (everything both
sides can carry), a *script*, and *dependencies*; environments and the SMTP
configuration also show an *origin* in their snapshot, because
`safeEnvironmentSnapshot` and `safeSmtpSnapshot` keep that field: the text's hash
for a file, and for a row that of the file it was last reconciled with.

| action | code |
|---|---|
| `UpdateRecord`, `CreateRecord`, `DeleteRecord` | `update` (any columns at once), `create`, `delete` of the record services, one statement each |
| `UpdateDependencies`, `InsertDependencies` | `replaceDependencies` of the SSE service: delete, await, insert |
| `OpenMailbox` | `EmailService.getSmtp`, which creates the row on first use |
| `EditFile` | an editor or a checkout changes, adds, repairs or removes one file |
| `Request` | a call of `loadFromFileSystem` or `synchronizeWorkspace` that asks for the mutex |
| `Begin` | the mutex is ours; `repository.get` reads the rows synchronously before the loader's first await |
| `ReadSource` | `workspaceLoader.load`: all files, or an error |
| `Reconcile` | decisions, conflicts, `applySnapshot`/`removeRecord`, `referenceConflicts`, `repository.save` |
| `PersistBaselines` | `persistReconciliationBaselines`; ends a load |
| `ListKind`, `WriteFile`, `Cleanup` | `pushAll`: list the rows of a kind, write each, `cleanupDeletedFiles`, next kind |
| `End` | the `finally` of `runExclusive` |
| `WriteFails`, `Crash` | a failing write; the process dies, while storing baselines or writing a file in particular |

The actions split where the program awaits something that other work can slip
in front of.  `Interference` says whether that other work may happen while a job
is under way; the calm instance sets it to FALSE to ask what holds when a user
lets a job finish.

### Execution and the code

An action is one turn of `executeInternal`: what runs between the await that has
just settled (`step` names it) and the next one.  `Load`, `Started`, `Open`,
`Build`, `Respond`, `Answered` and `Close` follow the body; `Announce`, `Invoke` and
`HookReturns`... follow `invokeHooks`, where a hook is announced before it is
invoked; `LoadFails`, `OpenFails`, `BuildFails`, `SendFails`, `AnswerFails` are what
can throw in each phase.  `Throw` is an error inside the body: with an open session
it passes through the `finally` block (`Close`) before the catch block (`Catch`).
`Record` and `RecordFails` are `saveHistory`, which comes after the terminal event
and whose failure is caught and reported like any other.  `HostExecute`, `Launch`
and `Refuse` are `createHostCallHandler` and the head of the nested
`executeInternal`.

`Linked` are the controllers that are, or will be at their start, tied to one by
`linkedAbortController`, through any number of levels.  `early` remembers which
runs were aborted while a check of the signal still lay ahead of them, and
`loose` which nested runs were not waited for by the hook that started them.

### ScriptSession and the code

An action is one turn of the host's event loop or of the worker's.  Continuations
of settled promises run before the host's next event, which is the guard `Quiet`
of everything that is an event.  `queue` is the chain of `#queue`; `waits[c]` the
worker whose readiness promise `ensureWorker` handed to call c; `pending` is
`pendingRuntimeRequests`, `running` a worker's `activeRuntimeState`, `serving` the
handlers of host calls and `handlerCut` those whose controller is aborted.

| action | code |
|---|---|
| `Open`, `Dispose` | `createSession`, `dispose` |
| `Invoke`, `BeginRefused`, `BeginAwaiting`, `BeginStarting` | `invokeHook`, `invokeNow`, `ensureWorker` |
| `ResumeRefused`, `ResumeInvoking` | `invokeRuntimeHook` behind its await |
| `TimeOut`, `Abort`, `HardCancel` | the request's timer, the caller's signal, `hardCancelRuntimeRequest` |
| `GiveUp` | the heartbeat monitor |
| `HandleReady`, `HandleAnswer`, `HandleHostCall`, `HandleEnd` | `handleMessage`, `handleError`, `handleExit` |
| `ResetWorker`, `RejectAll`, `StopThread` | `resetWorker`, `rejectRuntimeRequests`, `cleanupWorker` |
| `Boot`, `StartHook`, `CallHost`, `HostAnswered`, `FinishHook`, `Die` | the preload in the thread; the engine |

### SseClient, Mailbox and the code

A stream holds events of a head line (name, and ID if it is numbered), two lines of
data and an empty line.  `wire` is what the server has still to send, `chunk` what
the client has read and not yet looked at; `TakeLine`, `Flush` and `Dispatch` are
the parser, `Emitted` the await of `onEvent`, `Leave` the way out of
`consumeSseResponse`, `DelayOver` the end of `abortableDelay`.  The server resumes
behind an ID as the one in `packages/echo-server` does.

In `Mailbox`, `Await`, `Loop` and `Judge` are the script's side (`awaitEmail` in the
preload), `Look`, `LookInVain` and `Wake` the provider's `findNext`; rows are ordered
by time and ID, and IDs are random.

### RunClients and the code

`run` is a run in `ExecutionService`, from the request under way (`asked`, `loading`)
over the announcement of its start (`started`) to its end.  `cancels`, `events` and
`answers` are the messages under way: `execution.cancel` requests, events to the
view, results; `lost` are the runs of the view whose call failed on the way, so that
no result comes (`CallBreaks`, the `catch` and `finally` of the React hook).  `current`,
`phase` and `shown` are the view's; `call`, `entry` and `cut` the MCP server's, where
`entry` is `activeToolCalls`, keyed by the JSON-RPC id.  A tool call gets its run (`ToolRun`) or throws without one (`ToolFails`).
`wanted` remembers the runs somebody asked to cancel.

### Autosave and the code

`pending` and `error` are the fields of the registry entry; `phase` is its
`inFlight` promise together with the `await` the loop stands at; `sending` is
the loop's local `pending`.  The value of a field is the number of the edit that
gave it, so that "older" has a meaning: `latest` counts the edits and `stored` is
what the back end has.  `timer` holds the hooks whose debounce timer runs, and
`flushing`, `goal` record which flush is awaited and what had been edited when it
was called.

| action | code |
|---|---|
| `Mount`, `Unmount` | the subscription; the clean-up of the effect, which clears the timer and saves.  A change of the identity is both |
| `Enqueue` | `enqueueSave` and the new timer |
| `TimerFires`, `Flush` | the timer's callback; `flush`, called by save commands and retries |
| `StartSave` | the head of `flushSave`: join, return, or start the loop (part of the three above) |
| `PersistSucceeds`, `ReportSucceeds` | `persist` and then `onSaved` have resolved; the loop goes on, or the `finally` block ends it |
| `PersistFails`, `ReportFails` | either rejects; for the first the updates may or may not have been stored |

## 3. Runs

| run | asks | bounds | states |
|---|---|---|---|
| `mutex` | FIFO, progress, refinement of `Lock` | 4 callers, each any number of times: 2 owners-to-be and 2 waiters, so that order matters | 129 |
| `json_merge` | the merge follows the edits, and fails exactly on clashes | 2 keys, 2 scalars, objects of depth 2: every triple of such trees, up to the names of keys and scalars (symmetry) | 747 376 |
| `sync_calm` | references resolve, no edit of a settled record is lost, conflicts are races, races are reported, a refusal mutates nothing, pushed files equal rows | 2 SSE records (one imported, one to be created), 1 environment, 3 contents (base, mine, theirs), 2 row edits, 1 file edit, 1 failing write or crash in any phase, any number of jobs | 1 641 425 |
| `sync_concurrent` | references resolve, one job at a time, every call ends, under interference at every step | 2 calls, 2 SSE records (one imported), an SMTP row to be generated, 1 row edit, 1 file edit, 1 failing write, or crash while reading, storing baselines or writing | 222 577 |
| `autosave` | what "saved" means, flushes, no value goes back, every edit settles | 2 fields, 2 hooks of one record, 2 edits of each field, any number of failures, flushes, mounts and unmounts | 80 772 |
| `execution` | aborts reach nested runs, are reported and end the run; nested runs inside their hook; sessions; events, result and history | a run and a nested run, 1 lifecycle script and up to 2 tests each, 1 level, aborts and failures at every await | 64 927 |
| `script_session` | one hook at a time, failures are the call's own, handlers are cut, every call settles, refinement of `SerialCalls` | 2 calls and 3 workers (each call may start one), a death, a hang, a timeout or an abort at any point | 33 627 |
| `sse` | nothing skipped, nothing repeated, whole events, aborts end | 4 events, 3 numbered, one numbered event filtered out; up to 4 connections that end after any line; chunks of 1 to 4 lines; at most 3 events wanted | 4 667 |
| `mailbox` | only twins are missed, sleepers wake | 1 wait (waits do not share anything), 3 messages with IDs in any order, clock to 3, with and without a deadline | 72 540 |
| `clients` | nothing stale is shown, no run is left behind, what is shown as cancelled stays so, no cancellation outlives its call, cancelled runs answer | 2 runs, each of the view or of an MCP client, all clients counting from one id, 2 events under way | 22 486 |
| `reverted_edit`, `lost_cancel` | documented promises that the code breaks (section 5) | the smallest instance that shows each | |

*Why the bounds are enough.*  `json_merge` covers every triple of trees, so that each
branch of `mergeValue` is taken at the root and below it, next to a key where another
is; the proofs of section 4 are for every depth.  A decision reads one record's three snapshots and
the references between records, so two dependent records and three values of a
field realise every row of the decision table; one more edit on a side can only
revisit a row of that table from another baseline, which two row edits and an
unbounded number of jobs already do.  A crash in each phase is one fault; after the
last phase it differs in nothing from one between jobs.  That a job comes between the
deletion and the insertion of dependencies needs interference: in `sync_concurrent`
the job may remove the record that depends, or add the one it depends on; the proof
is for any records.  For
autosaving, a failed update meets a newer one of the same field with two edits
and of another field with two fields.  Every step of a run in `Execution` looks at
one run, its controller and its parent; one script makes each kind of hook happen,
and tests may be one more than scripts.  A larger instance (a run and two nested
ones, two levels, no scripts but the tests) has been checked once: 720 047 states.
In `ScriptSession`, the call behind a failing one is the one that could suffer, and
it needs a worker after the one that was reset: two calls, and three workers with
the first that `createSession` starts.  In `SseClient` two reconnections in a row
without an event, a filtered event before the break, and a break inside an event
need the four connections and four events.  `RunClients` needs a run to be
superseded, hence two; with three runs and one event under way (912 761 states) the
same properties hold.  The proofs hold for any number of each.

*Settled records.*  The three `Settled...` properties speak of the records
whose row and file were equal when their baseline was stored.  That restriction
is what separates what the code does from what the documentation promises: for
all records the same statements are `EditsSurvive`, `ConflictsAreRaces` and
`RacesAreReported`, which small instances refute.

*Fairness.*
- `EveryWaiterEnters`: resolved promises are continued, and critical sections end.
- `EveryCallEnds`: some step of some job is taken while one is possible; they are
  continuations of promises that have settled, which the event loop runs.  The
  mutex being FIFO, it needs no fairness of the single call.
- `EveryEditSettles`: timers fire, and every call of the back end is eventually
  answered or fails; nothing is assumed of retries, which is why an edit may also
  settle as a visible error.
- `AbortedRunsEnd`: the turns the service takes by itself, with its own disk and
  workers.  Servers and scripts owe nothing: what ends the wait for them is the
  signal, which the transport and the session are given.
- `EveryCallSettles`: continuations, timers and messages are served and a worker
  that is started boots (or dies).  Hooks and handlers may hang.
- `AbortedStreamsEnd`: the client's own turns; and, once the signal is aborted, that
  the transport and the reader give up.  A server need not send or close anything.
- `SleepersWake`: time passes and timers fire; a predicate need not return.
- `CancelledRunsAnswer`: messages arrive and the services answer.  An aborted run
  ends (this is `AbortedRunsEnd` of `Execution`); since its last event needs a place
  among the bounded number of events under way, this one is strong fairness.

No fairness is assumed of edits, faults, or of requests being made.

*Deadlock* is checked in the `mutex`, `sync_...` and `autosave` runs.  The other systems stop
when their calls, runs, events or edits are used up.

*Types.*  `TypeOK` of a module is a theorem and is not run again.

## 4. Proofs

For every set of callers, records, contents, calls and runs, and for every bound:

* `AsyncMutexProofs`: `MutexTyped`, `MutexExcludes`, `MutexNotOrphaned`,
  `MutexServedInOrder`, `MutexImplementsLock`, `MutexWaitersHaveAnOwner`,
  `MutexWaitersMoveUp`.
  Exclusion alone is not inductive, since `release` grants the lock to the head of the
  queue: one has to know that the head is a waiting caller and not the one that
  releases.  The invariant is therefore exclusion together with the agreement of
  queue, `locked` and `stage`.  That a waiting caller leaves only from the
  front of the queue follows from it, since the queue names each caller once.  In the
  refinement the holders of the abstract lock are the callers that were granted it
  or are inside: an `Enter` is a stutter and a hand-over is one step.
* `WorkspaceSyncProofs`:
  - `SyncTyped`.  The types of the data need `TodoListed` (only listed rows are
    left to be written), those of the mutex its own invariant.  `MutexStep`
    shows that every step of the workspace is a step of the mutex, leaves it
    alone, or resets it, so that the theorems about the mutex carry over.
  - `SyncReferencesResolve`.  Inductive with the types: each of the ways in
    which rows change (request, late insertion, decision, generated SMTP row)
    keeps dependencies resolved.
  - `SyncOneJobAtATime`.  `StageMatches`: a call works exactly while it is
    inside the mutex and is idle exactly while outside.  With `MutualExclusion` this is
    the theorem.
  - `SyncACallHasATurn` and `SyncCallsComeDown`, with edits and crashes at any moment.
    While a call is under way somebody is inside the mutex or has been given it (whoever
    waits has an owner in front, `Queueing`), and the phase of that call says which of its
    steps is possible.  Each step of a working call leads to a later phase, a later kind
    or a shorter list of files to write (`AllCallsMove` lists the ways).
  - `SyncRefusalMutatesNothing`, without interference, of all rows, files and both
    halves of all baselines, for a conflict as for a file that does not load.
    `found` is what there was when the call at work began, and `Untouched` says that there
    still is, until the call decides and when it is refused.  It rests on `Calm` (nobody else
    steps while a call works, and rows and files are what it has seen of them as long as
    it has written neither).
  - `SyncPushWritesAll` and `SyncPushedFilesAgree`, without interference.  `Pushed`: of
    the kinds the push has been through, every file is the one written for its row
    (`Written`); of the kind in hand, this holds of every row no longer on the list and
    of every file without a row once the clean-up is over.  The first theorem holds for
    records of any kind.  The second needs `Lossless` to go from "written for the row" to
    "equal to the row": it excludes REST and GraphQL records, and scripts of the
    workspace record, which the pusher leaves out of the files (section 5, number 5).
  - `SyncSettledEditsSurvive`, `SyncSettledRacesAreReported`,
    `SyncSettledConflictsAreRaces`, without interference and for `Lossless` records.  The
    argument has two halves.  `DecisionIsRight` is about the three-way decision alone:
    if both halves of the baseline stand for one and the same value, its outcome
    carries the edits of both sides and it is a conflict exactly when they clash.
    `Agreement` is about the history: the baseline of every settled record is that of the
    value on which both sides agreed, and while a call pushes, the row still has that
    value.  Where a file loses something, the value pushed is not the one the baseline
    stands for, and these properties fail; hence the hypothesis.
  - `MergeTypeCorrect`, `MergeFollowsEdits`, `MergeClashesAreReal`, for any keys, scalars
    and depth.  `mergeValue` recurs on the values of keys, and the prover's induction
    rules take a predicate as a parameter, which no backend can instantiate; the same
    argument over a set does (`InductTo`: a set of numbers that is not closed
    under the step has a least exception, from `WFMin` of the library).  The number is the
    level of the values (`Level`), which bounds how deep they nest.  With it:
    `MergeUnfolds`, there is a function that equals its own body, since what the body does
    with values of a level calls only the level below; `MergeStaysInLevel`, merging makes
    nothing deeper; `ValueAtDown`, a walk along a path is a step and a shorter walk; and
    `MergesKeepEdits`, which states both properties for three values of any level.
  - `MergeCommutes` and `MergeAgain`, by the same induction.  The second says that
    merging once more with the old base, after one side has taken the outcome, has that
    outcome.  It needs that a merge which gives the base back had nothing to merge
    (`GivesBase`), else the third equality of the code would give way to the other
    side.  `DecisionRepeats` says the same of the whole decision on a record, and so of a
    crash between storing rows and storing baselines, when both halves of the baseline
    are the same.
  - `MergeIsFieldByField`: on values of the same shape, the conflicts and the merge
    of `ThreeWay`, which `WorkspaceSync` uses, are those of `mergeValue` at every path.
* `AutosaveProofs`: `AutosaveTyped`, `AutosaveSavedMeansStored`,
  `AutosaveNoForgottenEdit`, `AutosaveFlushStores`, and
  `AutosaveImplementsDraftStore`.  `Chain` says for each field where its last
  edit is: pending, else being sent, else stored; and that what is being sent is
  no older than what is stored.  Neither half stands alone: a failure puts the
  sent value back, so it must be the last one wherever nothing newer is pending.
* `ExecutionProofs`: `ExecutionTyped`, `ExecutionSessionsAreDisposed`,
  `ExecutionResultIsRecorded`, `ExecutionEarlyAbortIsReported`,
  `ExecutionAbortReachesChildren`, `ExecutionChildrenRunInsideTheirHook`,
  `ExecutionNoWorkAfterAbort`, `ExecutionAbortedRunsHaveATurn` and
  `ExecutionAbortedRunsComeDown`, for any number of runs, scripts and levels.  Every
  step is first classified (`Classified`): a run goes on in its body, fails, or
  takes one of a few turns that touch more.  The invariant adds to the properties:
  `FinalsFit` (the events, the result and the record of a run fit its step),
  `EarlyRunsFail` (a run aborted early is not beyond its last check of the signal,
  and its session is being disposed of because it failed), `NestedHaveParents`
  and `DepthBounded`.  That an abort reaches all runs below rests on
  `LinkedClosed`: the linked controllers are closed under the links.  An aborted run
  comes down because a step that fails skips ahead to the closing of the session, and
  none after the abort leads back into the body (`Distance`).
* `RunClientsProofs`: `ClientsTyped`, `ClientsNoRunIsLeftBehind`,
  `ClientsNoCancelOutlivesItsCall`, `ClientsForwardAborts`,
  `ClientsShowNothingStale`, `ClientsCancelledStays`,
  `ClientsCancelledRunsComeDown`.  What makes the view safe is
  that it asks before it forgets, and that a result under way means a run that is
  over (`AnsweredRunsAreOver`); what makes the MCP server safe is that only calls
  under way are noted under an id.
* `MailboxProofs`: `MailboxTyped`, `MailboxPassesNothingOver`,
  `MailboxMissesOnlyTwins`.  `LeftOnlyTwins`: what a wait has not looked at is ahead
  of its cursor, or a twin.  A message that arrives keeps this because no row looked
  at is younger than the clock, a look because it takes the first candidate.
* `SseClientProofs`: `SseTyped`, `SseNothingIsSkipped`, `SseNothingIsRepeated`,
  `SseEventsAreWhole`, `SseAbortedStreamsComeDown`, for any stream, chunks and number of
  connections.  The parser is
  at a place of the stream, the next line it looks at.
  - Skipping needs little (`TornInv`): of every wanted event in front of the place some
    part has been handed on, or is being held; and the ID of an event handed on tells
    that all up to it have been.  `lastId` is such an ID, and the server goes on right
    behind it.  This holds even when a chunk ends between the CR and the LF of a line
    and the LF then cuts an event in pieces.
  - Repetition and wholeness need that no line end is split (`~SplitsLineEnds`; section
    5, number 10, is what happens otherwise).  Then data, name and ID follow from the
    place (`Placed`), the IDs handed on over a connection climb (`Climbing`), and what
    earlier connections handed on is not behind the ID the server was asked to go on
    from (`Behind`).  An event cut off by the end of a connection is the last one of it
    and is handed on as it is (`Entire`).
* `ScriptSessionProofs`: `SessionTyped`, `SessionHookRunsForItsCall`,
  `SessionStateTellsTheWorker`, `SessionFailuresAreOwn`, `SessionHandlersAreCut`,
  `SessionImplementsSerialCalls`, `SessionMailIsTaken` and `SessionSomethingIsDue`, for any number of calls and workers.  `TokensFit`:
  a pending request has one token, the message that invokes it, then the hook
  that runs, then its answer, always in the current worker; whatever settles the
  call has the answer in hand or stops the thread.  That the worker is the current
  one rests on `StateFits` and `WorkersFit`; that a reset finds nobody about to go on
  with the worker it stops rests on `Quiet`, the order of promises and events in
  the host's loop.  In the refinement a call that settles, for whatever reason, is
  an `Answer`, a hook that starts is `Work`, one that ends or dies is `Rest`.
  That something is due for a call that is not settled (`DueInv`) follows the one thing
  it waits for: a continuation in the host's loop, a timer of its own, a message on the
  way, or a worker that is being started.  What is left is `Stranded`, a call
  that waits for a worker that was abandoned while it started: nobody settles its promise.

Assumed, besides that sentinels ("absent", "none", "no parent") are not proper values
and bounds are naturals: `SyncAssumptions` (kinds of records, an imported workspace
record), `SessionAssumptions` (finitely many calls, a worker for each and one more),
`ExecutionAssumptions` (roots and nested runs are different runs), `JsonAssumptions`
(objects, scalars, nothing and a failed merge are different things; a value nests at
least one object),
`ClientAssumptions` (each call has an id).

Two hypotheses are about the surroundings and are named in the theorems that need
them.  `~Interference`: nobody edits rows or files between the steps of a call.  The
code does not promise that; it is the question what a user may rely on who lets a
synchronization finish, and section 5 names what is lost otherwise (number 7).  It
cannot be dropped: with `Interference = TRUE` TLC refutes each of the five properties
that are proved under it, on the instance of `sync_calm`.
`~SplitsLineEnds`: no chunk ends between a CR and its LF.  Streams with LF alone, which
the echo server sends, are never cut there.

Only model-checked: the eight liveness properties, since the prover handles neither
ENABLED nor fairness.  Every other property of a passing run is stated by a theorem.  Of
what a liveness property rests on, the part that is a matter of safety is proved for most:
that what must happen can happen at every moment before it (the guard of a fair action
holds), or that each step brings it nearer (a measure falls).  `EveryWaiterEnters` has
`MutexWaitersHaveAnOwner` and `MutexWaitersMoveUp`; `EveryCallEnds` has
`SyncACallHasATurn` and `SyncCallsComeDown`; `EveryEditSettles` has
`AutosaveNoForgottenEdit`; `AbortedRunsEnd` has `ExecutionAbortedRunsHaveATurn` and
`ExecutionAbortedRunsComeDown`; `EveryCallSettles` has `SessionMailIsTaken` and
`SessionSomethingIsDue`; `AbortedStreamsEnd` has `SseAbortedStreamsComeDown`;
`CancelledRunsAnswer` has `ClientsCancelledRunsComeDown`; `SleepersWake` has none.  These
theorems speak of guards where the fairness of the runs speaks of ENABLED.  For
`EveryCallEnds`, `AbortedRunsEnd` and `EveryCallSettles` TLC has compared the two in every
state of the run's instance: they are the same there.

## 5. What the code does not keep

Two are runs that TLC refutes; the shortest behaviour is its output.

1. `reverted_edit`: the push never advances the source half of a baseline.  Change
   a row, synchronize, change it back: the row now equals the old source half,
   the file the program wrote counts as the edit, and the user's edit is undone.
   The same cause refuses "edit, synchronize, edit, synchronize" as a conflict.
2. `lost_cancel`: a cancellation that reaches `ExecutionService` before the run has
   announced its start finds nothing to abort (`execution.service.ts:49`).  The view
   has already dropped the run and shows it as cancelled; the run sends its request
   and completes.  The MCP server loses cancellations in the same way.

Numbers 3 to 11 are stated in the modules and fail on the instances named here; a
configuration that differs from the one of the run in these constants shows each.
Numbers 12 to 15 are what the properties of the runs leave open or exempt.

3. `SyncHistory.RacesAreReported` (one SSE record, 1 row and 1 file edit, both
   modes): a load stores the row as the database half of the baseline although no
   file has it.  A later edit of the same field in the file then silently replaces
   the row.
4. `SyncHistory.ConflictsAreRaces` (one environment that was not imported): the
   origin of a value takes part in the comparison, and the origin of a row created
   in the application is never that of its file: an environment created in the
   application, and the SMTP row that the push itself generates, conflict at the
   second synchronization.
5. `WorkspaceSync.PushedFilesAgree` (one REST record, 2 scripts): REST and GraphQL
   files are written with `dependencies: []` and without the test script.
6. `WorkspaceSync.FailsOnlyOnFaults` (an SMTP record, 2 scripts): a script in
   `smtp.ysl` makes `applySnapshot` throw.
7. `SyncHistory.OverwritesOnlyWhatItSaw` (one SSE record, interference): an edit
   made by the application between a job's snapshot and its save is overwritten.
8. `Execution.ChildrenEndWithTheirParent` (the instance of the run): a hook that
   does not wait for the nested run it started answers, and the handler of that host
   call goes on (`script-worker.ts:169` leaves the controller of an answered request
   alone), while `scripting.mdx:263-264` says nested runs end with their parent.
   `ChildrenRunInsideTheirHook` is what holds.
9. `SseClient.LatestIdIsSent` (the instance of the run): `sse.mdx:75-81` says that
   the IDs of filtered events are tracked for the next connection; `sse.ts:61-67` looks
   at the events that were handed on.  A filtered event is sent again, and filtered
   again; nothing is lost, which is `NothingIsSkipped`.
10. `SseClient.EventsAreWhole` with `SplitsLineEnds = TRUE`: when CR and LF come in
   different chunks, the LF reads as an empty line and ends the event (`sse.ts:167`).
11. `Mailbox.NoMailIsMissed` (the instance of the run): a message of the same
   millisecond as one looked at, with a smaller ID, is behind the cursor at once
   (`email-provider.ts:12` calls the provider race-free).
12. When storing the history fails, a run emits a second terminal event
   (`execution.ts:474-475`), although `architecture.mdx:77-78` speaks of one; and an
   SSE run that is aborted while its last event is being handled is reported as
   completed.  `ResultIsRecorded` and `EarlyAbortIsReported` say what remains true.
13. Two MCP clients may count their requests from the same number.  `activeToolCalls` is
   keyed by that number alone (`server.ts:877-898`), so `notifications/cancelled` of one
   client aborts the call that was noted last under it, which may be the other's
   (`Notify`); and a call that returns takes the other's entry with it (`ToolReturns`).
   No property of `RunClients` excludes either; `NotedCallsAreActive` is what holds.
14. A worker that is given up while it boots leaves its readiness promise unsettled
   (`resetWorker` rejects pending requests only), and calls that wait for it are never
   answered: `Stranded` in `ScriptSession`, which `EveryCallSettles` and
   `SessionSomethingIsDue` exempt.
15. When the call for a run fails on the way, the request view shows an error and drops
   the run without a request to cancel it (`use-rest-request.ts:224-240`): the run goes
   on unseen.  `NoRunIsLeftBehind` exempts these runs (`lost`).

## 6. Abstractions and what is left out

*In the modelled parts.*  `stableHash` is injective.  Files of one job are read in
one step, although the loader reads one at a time; a kind without records is skipped
by the push.  Group records, the order of dependency lists, and the import of a
workspace that has no row are not in `WorkspaceSync`; that import runs under a key of
its own (`discover:` and the path), not under the workspace's mutex.  `Execution`
leaves out environments, redaction, the content of requests and results, and the
order in which the stages of an SSE response emit.  `ScriptSession` leaves out the
`execute` and `publishMessage` interface of the worker, which runtime sessions do not
use, and the APIs that scripts see.  `SseClient` leaves out comments, `retry` values
and the length of delays; a server that ignores the ID it is asked to resume behind
is not one its properties speak of.  In `RunClients` the SSE view is taken to be like
the REST view, from which it differs in what it displays.  Names, texts and reports
are left out everywhere.

*Not modelled.*  Request building, the YSL parser, the RPC layer, the command line
and the user interface are pure or stateless; the lock file is written and never read
by the reconciliation; the native shell embeds Deno and Tauri.  The mail server's
protocol is a library's, and a mail hook is one runtime session with one call.  The
Node runtime is the twin of the script worker for the command line (a late exit of a
terminated thread reaching its successor, which its conformance suite tests, would be
its particular hazard).  Cookie jar, entity groups and workspace life cycle have
little state, and what is known to go wrong in them is listed as a hazard: two
responses that read, change and store the jar lose one of the two changes, parents
that close a cycle of groups make every save throw.

## 7. Where to go on

1. Synchronization with interference: what a call owes to the edits it has not seen, as
   a property that names the moment of the edit, in place of `~Interference`.
2. `EntityGroups`: parent changes from both sides, `orderGroups`, and the cycle that
   makes every save throw.
3. `CookieJar`: concurrent responses and their read-modify-write, inside `Execution`'s
   step from `received` on.
4. The Node runtime as a second implementation of `SerialCalls`.
