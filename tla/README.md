# opencode-a2a: specification and proofs

`opencode-a2a` is an A2A (agent-to-agent) server in front of an OpenCode
instance. A client sends messages; the server runs each of them as an
*execution* on an upstream OpenCode *session*, streams the output back, lets
clients cancel tasks, answer permission and question prompts and act on sessions
directly. This directory holds TLA+ models of the server: of the parts that keep
state across awaits, and of the path of one request through the stack of
middlewares, dispatch and handlers. TLC checks them on small instances, and
TLAPS proves the most important of the checked properties for all of them.

Paths below are relative to `src/opencode_a2a/` of the repository.

## 1. The system

Everything runs in one asyncio event loop. A coroutine is interrupted only at an
`await`, so the interleavings that matter are those of the segments between
awaits, and a cancellation (`Task.cancel`) is delivered at an await.

| Component | State | Operations | Talks to |
|---|---|---|---|
| session state repository (`server/state_store.py`) | bindings `(identity, context) -> session`, owners `session -> identity`, pending claims with a lease; in memory (caches that evict) or in a database (calls that fail) | get/set/pop session, get/set owner, get/set/clear pending claim, prune | session manager |
| session manager (`execution/session_manager.py`) | its lock, in-flight `create_session` tasks, weak map of session locks | get_or_create_session, claim, finalize, release, get_session_lock, pop_cached_session | repository, upstream client |
| execution coordinator (`execution/coordinator.py`) | per execution: session, lock, pending claim, stream task, terminal signal | run: bind, send turns, tools, complete, cleanup | executor's registry, session manager, stream consumer |
| executor (`execution/executor.py`) | registry of running executions by (task, context) | execute, cancel | coordinator, session manager, upstream |
| session control and lifecycle (`jsonrpc/handlers/`) | none of its own | prompt_async, command, shell, fork, share, summarize, revert, ... under a claim guard | session manager, upstream |
| request handler (`server/application.py`) | producer tasks, queues (A2A SDK) | message/send, message/stream, get, cancel, resubscribe | executor, task store |
| stream consumer (`execution/stream_runtime.py`, `stream_state.py`, `stream_events.py`) | block state per part, output sequence, retry backoff | consume upstream events, emit artifacts, signal the end | coordinator, interrupt registry |
| interrupt registry (`server/state_store.py`, `jsonrpc/handlers/interrupt_callbacks.py`) | pending interrupt requests with expiry and tombstones | remember, resolve, discard, list | stream consumer, callbacks |
| task store (`server/task_store.py`) | task rows | save under the first-terminal-state-wins policy, get, delete | request handler |
| upstream client (`opencode_upstream_client.py`) | request and stream budgets | every OpenCode call | OpenCode |
| peer clients (`server/client_manager.py`, `client/`) | cache of borrowed clients | borrow, evict, close | tool orchestration |
| state migrations (`server/migrations.py`) | schema version | migrate at first start | databases |
| REST listing (`server/rest_tasks.py`) | none; the page token carries a sort key | list tasks page by page | task store |
| middlewares and dispatch (`server/middleware.py`, `jsonrpc/`) | one request: what was read of its body, its negotiated version, its claim | authenticate, log, rename aliases, guard, limit, cache, negotiate, dispatch, validate, route, claim, call, answer | every handler |
| contracts and documents (`contracts/`, `server/agent_card.py`, `server/openapi.py`) | none; built from the deployment profile | cards, wire contract, compatibility profile, OpenAPI, the list in an error | clients |
| stateless rest | | settings, CLI, tracing, metrics, filtering of output by mode | |

What is hard here: two identities competing for one session across several
critical sections and a lease that runs out; concurrent first messages that
share one create task; cancellation delivered to a request that waits for the
session lock or for a shared task; cleanup that is itself interrupted; a client
that disconnects; database writes that fail half way; caches that evict one of
two related rows; waiters that must eventually get the lock.

What makes each component correct: sessions are not handed from one identity to
another and bindings only point to owned sessions (repository, manager); one
execution at a time generates on a session, locks are released, nothing of an
ended execution stays (coordinator); a cancel finds what runs and a cancelled or
dropped task ends (executor, handler); each interrupt is answered by its owner
once (registry); a terminal task stays as it is (task store); permits and
borrowed clients come back (budgets, client cache); each piece of streamed
output is delivered once and in order, and the client of a completed task has
the whole response (stream consumer); what a request is answered agrees with the
record of its task (request handler); the upstream is asked only for what the
deployment and the caller's credential allow (middlewares, handlers); the
documents offer only what is served and declare what they name beyond it to be
closed (contracts); a schema is never declared newer than it is (migrations).

## 2. Modules

| Module | Models |
|---|---|
| `SessionStore` | the repository's rows as functions and its updates as fragments; expiry of claims, eviction in memory |
| `SessionManager` (EXTENDS SessionStore) | the critical sections of the manager, the create tasks |
| `Execution` (EXTENDS SessionManager) | the composition: message executions, control and fork methods, tasks/cancel, disconnects, upstream answers; `Spec`, `FairSpec` and the properties |
| `SessionCustody` | abstract specification: who may be granted and enter a session |
| `MCExecution` | populations of requests for TLC |
| `ExecutionInvariants` | the inductive invariants |
| `InterruptStore` | the registry of pending interrupts: bindings, tombstones, lazy pruning, memory and database |
| `Interrupts` (EXTENDS InterruptStore) | the composition: upstream questions, the stream consumer, the reply callbacks, restarts, the clock; `Spec` and the properties |
| `MCInterrupts` | small instances for TLC |
| `TaskRegister` | abstract specification: a task row in which the first terminal state wins |
| `TaskStore` (EXTENDS TaskRegister) | the store as it is: a save under the process lock as read, decision and write, or one guarded upsert and the look at why it was skipped; failures, restarts |
| `TaskService` (EXTENDS TaskRegister) | the request handler around one task: message/send, message/stream, cancel, resubscribe, disconnects, failing saves |
| `StreamOutput` | parts, deltas, echoes, blocks, the artifact, the final snapshot, the terminal signal, reconnects |
| `Migrations` | the schema and the processes that bring it up to date when they start |
| `TaskListing` | paging through tasks that change meanwhile |
| `PeerClients` | the cache of borrowed clients |
| `ToolLoop` (EXTENDS PeerClients) | executions that call the upstream and peers under the two budgets |
| `Contracts` | methods, deployment profiles, registry, documents, documented and accepted fields: operators only |
| `Surface` (EXTENDS Contracts) | one request from the first middleware to its answer |
| `MCTaskService`, `MCStreamOutput`, `MCToolLoop`, `MCDatabase`, `MCEdges` | small instances for TLC |
| `ExecutionProofs`, `OwnershipProofs`, `InterruptProofs`, `DatabaseProofs`, `TaskServiceProofs`, `StreamProofs`, `ToolLoopProofs`, `SurfaceProofs` | theorems and their proofs |

How they compose: `Execution` builds on `SessionManager` and that on
`SessionStore`; `Interrupts` on `InterruptStore`; `ToolLoop` on `PeerClients`;
`Surface` on `Contracts`. `TaskService` saves to `TaskRegister` and not to
`TaskStore`, which `ImplementsRegister` (checked, and proved) justifies: one
save is one step there. `TaskService` takes an execution to be a source of events
that ends or is cancelled, which is what `Execution` shows of it
(`EveryRequestEnds`). `Surface` hands a call to the library, the listing or the
interrupt methods as one step, described by `TaskService`, `TaskListing`,
`Interrupts`. `MCDatabase` and `MCEdges` put independent specifications in one
run: a behaviour is one of one of them, chosen in the first state, while the
others stand still.

### State and actions of `Execution`

A request `r` is one coroutine; its program counter names the await it is at.

| `pc` | where in the code |
|---|---|
| `idle` | before admission (`executor.py` `execute`) |
| `claim`, `rebind` | `get_or_create_session` with a named session; the entry of `SessionClaimGuard` |
| `lookup`, `creating`, `record` | `get_or_create_session` without one: binding or in-flight task, `await task`, writing binding and owner |
| `getlock`, `queued` | `get_session_lock`, `session_lock.acquire()` |
| `send`, `finalize`, `finalbind`, `respond` | one turn: `send_message`, `finalize_session_claim`, `set_session`, tools and answer |
| `terminal` | a stream waits for its terminal signal |
| `op`, `adopt` | the upstream call of a control or lifecycle method; finalising a forked session |
| `release`, `unlock` | `_cleanup` (the guard's exit has only `release`) |
| `done` | ended |

`binding`, `owner`, `claim` are the repository; `inflight`, `create` the create
tasks, named by the request that started them; `minted` the sessions the
upstream has. `locked` and `lockRef` are the session locks and who refers to
them: the weak map forgets a lock only ended executions refer to (`CollectLock`).
`running` and `boundTo` are the executor's registry (entries written at
registration and after the lock). `consuming`, `signalled` are stream tasks and
terminal signals; `final` the terminal event an execution emitted; `doomed` the
cancellations to be delivered; `gone` the clients that went; `cancel` the call of
tasks/cancel per key, as the three critical sections it is. `held`, `robbed`,
`leased`, `orphaned` are ghosts that only properties read.

Choices worth knowing:

* A step is a segment between awaits; where the memory repository's coroutines
  do not actually suspend the model is finer than the code.
* With `Backend = "database"` every repository step may fail or be cancelled, and
  what a torn critical section leaves (`TornWrite`) is any prefix of its writes.
  With `Backend = "memory"` rows may be evicted at any time (`Forget`).
* A claim may expire at any time. A lease of no length is a claim that expires
  at once.
* Cancelling a request that awaits the shared create task cancels that task:
  this is what awaiting a task means in asyncio.
* The registry is read by tasks/cancel some awaits after the task was seen not to
  be terminal, so the model lets that read happen at any time after the task
  began. There is one cancel call per key: a second is answered from the
  stored `canceled` state.
* The claim guard without an identity is left out: the server demands
  authentication on these methods. So are the clients that drop control requests.
* The A2A SDK (event queues, producers) is external: a disconnect dooms the
  producer, which is what `on_message_send_stream` does.

### State and actions of `Interrupts`

`requests` and `tombstones` are the two dictionaries of the memory repository, or
the two kinds of rows of the database table; `now` is the repository's clock.
Every operation reads the clock once and prunes what it comes across:
`Bury` is that pruning, `Swept` the one difference between the backends (memory
sweeps every overdue binding, the database leaves them in their rows).
`Answer(i)` is what `resolve` would return now.

`stream`, `events`, `pending` are the subscription of the running request, the
events on their way to it, and `pending_interrupt_request_ids`; `emitting` is the
status event between the write to the registry and the enqueue, `status` what
the client was last sent. One session is modelled: its lock lets one consumer
run at a time, and later consumers start with empty marks. `calls` are the
callbacks, at the two awaits that matter: before the upstream call (`replying`)
and before the discard (`discarding`). `upstream` is what OpenCode holds of an
id, external: ids are never reused, a closed question answers 404, nothing is
replayed to a new subscriber, and an event may arrive twice (`Copies`). `due`
(the expiry last promised) and `acked` are history that only properties read.

Choices worth knowing:

* With the database a write of the consumer or a discard of a callback may fail
  before or after its commit. A failure of the consumer drops it into the
  retry branch: the rest of the queue is lost, the marks stay, and no status is
  emitted.
* A failed reply may have reached the upstream (`CallFails`): the binding is kept.
* A restart empties the memory registry and ends callbacks and consumer. The
  database keeps its rows.
* Clock readings and writes are one step; a row of nulls (a tombstone TTL of
  zero, database) is not told from no row, because no answer does.
* Validation of the parameters after the lookup is one Boolean; the credential
  check is left out because the consumer stores no credential.

### State and actions of the other modules

`TaskStore`. `row` is the table (or the dictionary of the memory store);
`guard`, `home` the deployment: the atomic upsert of SQLite and PostgreSQL, or
the lock of a process, which is what the memory store and other dialects have.
One process only may rely on its lock (`Deployable`). `at` names the round trip
a writer is in, so that `read` and `write` are two. `Fails` is an error or a cancellation in
a round trip, with the write done or not; `Restart` takes the coroutines and the
lock of an instance.

`TaskService`. `queue` are the taps of the SDK's event queue, external, as is
`Emit`. `pc` follows a request: `consume` is the aggregator, `background` the
task that goes on saving after an early answer, `cleanup` the wait for the
producer, `recheck`, `abort`, `refresh` the three stages of a cancel. `left`
and `faults` say whether a client went away and how many saves failed.

`StreamOutput`. `cast`, `style`, `written`, `announced` are the upstream's: which
parts it writes, and whether it publishes one as deltas, as updates with
deltas or as whole texts. `state`, `pending`, `out` are the part
states, the deltas that came before their part, and `_StreamOutputState`.
Text is a sequence of tokens, letters that are all different and blanks, so that
a repeated, lost or swapped piece shows. Nothing is replayed to a consumer that
reconnects; `missed` records it. Usage and progress are left out. The final snapshot
is kept apart from what is streamed, although the coordinator appends it to the same
artifact (`execution/coordinator.py:404`): a client that appends reads the streamed
text and then, where that is not the response, the response once more, as
`test_streaming_output_contract_core.py:462-502` expects. That nothing comes twice is
therefore said of what is streamed (`Streamed`, `NothingTwice`), and of the snapshot
that it comes once, last, and only where it is needed (`SnapshotIsOnce`).

`Migrations`. `stored` is the committed schema, `draft` that of the one process
whose transaction has written a row (SQLite's single writer); before that its
DDL takes effect at once, as pysqlite runs it. `plan`, `todo` are what a process
has decided to create after looking, so that another process may create it in
between: its statement then fails and the process starts again.

`TaskListing`. `cursor` is the page token. `touched` are the tasks saved since the
client started; the others must be listed exactly once.

`PeerClients`, `ToolLoop`. `entries` is the dictionary of the cache, `toClose`
what a caller has taken out of it and closes outside the lock, `leaked` the
borrows never given back because closing raised before the `try`. `CloseAll` empties
the cache and may raise with any of the clients it took out still open. A permit is
taken and given back in single steps: nothing awaits under the lock of a budget. A dropped
stream keeps its permit until the generator is finalised (`Finalize`).

`Contracts`, `Surface`. A call is a method key and the set of dotted field names it
carries; values other than a directory are well-formed. `stage` is the middleware
or handler stage, in the order of `install_runtime_middlewares` (the last one
added is the outermost). `conf` is a deployment, `req` a request, both
chosen in the first state. A `crash` answer is an exception no handler catches.
A document is three sets of methods: those it offers, those it names anywhere (the
flags and the upstream stability name a method whether it is open or not, and
so does the compatibility profile), and those it declares to be closed. `principal`
is a caller with neither, one or both of the two capabilities, or nobody. `owner` is who
has the session of the call, `forked` who has the new session of a fork, and
`claim` the caller's own claim: pending, leaked (its release failed), or lost,
when its lease ran out during the call and another identity took the session. What a lost
claim leads to is `FinalizeClaimRefused` ("Session forbidden", after a call that
went well); `FinalizeClaimFails` is the store failing before or between the writes of a
finalisation, so that the owner may be on record behind an internal error; `Adopt` is
the finalisation of a fork's new session, by which time the parent is the caller's.
The other identity that takes a lost claim is assumed to keep it: one that
lets go again before the finalisation gives the outcome of a claim never lost.

## 3. Runs

Each run asks one question; the populations are those where it can be answered
no, with three requests (two for liveness), one or two sessions, one or two
identities and execution keys. Two identities and two sessions are what a
takeover needs; a third request makes a waiter behind a holder and a canceller,
or a second claimant of the same identity. `CHECK_DEADLOCK FALSE` everywhere:
when all requests have ended nothing remains to be done.

| Run | Shows |
|---|---|
| `takeover_db` | ownership of bindings and of driving executions, owners never change, custody is implemented; torn writes included |
| `takeover_memory` | every pending claim has a live claimant, with eviction and a control method |
| `lock_queue` | locks have live holders, ended executions leave nothing, only a robbed lock breaks mutual exclusion |
| `every_request_ends` | two first messages of one conversation, one a stream: the only create task outside the map is one being cancelled; under `FairSpec` every admitted request ends |
| `interrupts_memory` | sweeps, duplicated events, successive consumers and restarts keep the expiry window, answered questions stay forgotten, "resolved" follows "asked" |
| `interrupts_db` | two callbacks over one question with failing writes and restarts: announced questions stay answerable, by whom and with what they were asked |
| `task_service` | what a request is answered agrees with the record; the record of an undisturbed task settles; every call ends |
| `streaming` | what is streamed has each letter once and in order; the final snapshot is appended to the same artifact once, after it, and only where it is not the response, so that it repeats letters there and never a response already delivered; a completed client has the response; errors surface; nothing follows the final status |
| `database` | saves implement the register, decisions hold until they are written; the version is never ahead of the schema and starts succeed in the end; paging lists each untouched task once |
| `edges` | a borrowed client stays open, borrows and permits are counted, the cache settles; and, over requests of every kind to several deployments, the rules of the surface below |
| `lock_stolen` | violation: a cancelled waiter releases the holder's lock |
| `stream_refused` | violation: a stream refused by its budget does not fail fast, its execution waits for ever |

The rules of the surface: effects are allowed (`EffectsAreAllowed`); buffered bodies are
bounded (`BodyInv`); sensitive bodies stay out of the log and strangers see only the
cards (`PrivacyInv`); errors are formatted for the client's version and aliases served
to who names version 1.0 (`VersionInv`); documented calls are accepted
(`ContractCallsAreServed`); documents are true of the registry, which means that what
they offer is resolved and what else they name is declared closed in the same
document (`DocumentsTellTheTruth`); custody follows the call (`ClaimsFollowTheCall`):
no claim stays pending, a success leaves the session and the new one of a fork with the
caller, an error leaves it nothing but for a store that failed between two writes or a
fork that lost its new session, and "Session forbidden" is true of one of the two.

An invariant named `...Inv` is the conjunction of the named parts above it in its module,
the types among them. The types of `Execution` and `Interrupts` are not run: they
are proved (`TypeCorrect`, `TypeSafety`), as are the custody of sessions with the memory
repository (`ServiceKeepsCustody`) and the expiry window with the database registry
(`WindowSafety`), which the runs check with the other backend.

The interrupt runs use TTLs of one or two ticks and a clock that ends at
`MaxTime`, after the windows of a question remembered in the first ticks are over:
enough for a binding to be remembered, expire, be buried by an operation on the
other id, and for its tombstone to run out. Two ids are what a sweep needs (one id is
served, the other buried), two callers what racing replies need, and two copies
of an event are as bad as more. `ResolvedFollowsAsked` is checked for the memory
registry only: in the database a failed write loses the announcement and keeps
the mark (see the hazards). These runs check safety; liveness of a callback is
that of its HTTP calls.

`task_service` has one task (tasks share nothing in the handler), two cancels,
because a cancel races with an execution and with another cancel, one subscriber,
two events (one before the final one) and one failing save. `streaming` has
seven parts of which an execution may have the two of a cast, in up to three
chunks and two turns, one break of the stream and one repeated update at a time: two parts
show interleaving, a part and its echo, deltas before the part, and a
turn after a tool. `database` has three writers of one task in two instances, two
processes that start on a database of every version a release left behind,
with two crashes or lock timeouts, and three tasks listed in pages of one or two
while two saves happen. `edges` has two callers, two URLs and a cache of one
client, so that every borrow of the other URL evicts; limits of one permit; and
for the surface every method with the fields it needs, one less, one more, all of
them and an unknown one, from callers with neither, each and both of the capabilities,
for a session that is nobody's, the caller's or another's, on an open, a closed and a read-only deployment, and every middleware's condition in
combination on a dozen calls.

Fairness of `task_service`: the event loop runs whoever is ready and an execution
emits its final event (weak fairness of every step but faults and disconnects).
That the library closes the queue behind a *cancelled* execution is not assumed.
Of `database`: a process that crashed or failed is started again by its supervisor
and its statements return. Of `stream_refused`: callers run, streams connect or
are refused, generators are finalised, and the upstream publishes session.idle.

Fairness (`every_request_ends`): weak fairness on the steps of each coroutine
(the event loop runs what is ready, the upstream answers or times out, the
stream task signals or ends); strong fairness on `Acquire` because
`asyncio.Lock` wakes its waiters first come first served; strong fairness on
completing a turn, that is, the upstream stops asking for tools at some point.
Without the last one the tool loop runs for ever: the code has no bound.

## 4. Proofs

`StateInv` (types, control, create tasks, cancels, claims) is inductive and is
the ground of the rest: it says, between any two awaits, which fields a program
counter can rely on. On it stand

* ownership (`OwnershipProofs`): `OwnershipInv` adds that whoever is bound to a
  session without owing a claim is entitled to it. It is needed because the
  binding written at `rebind` relies on an owner read at `claim`, one critical
  section earlier; it is preserved because `OwnerSteps` holds of every step: an
  owner is only ever set when absent, or forgotten and remembered in `orphaned`.
  From it follow `BindingsAreOwned`, `OnlyOwnersDrive` and `OwnersStay`.
* locks (`ExecutionProofs`): `LockInv` says an execution drives only while it is in
  `held` and that an unrobbed session has one holder and a locked lock;
  `MutexUnlessRobbed` follows. `HolderInv` adds, for the memory repository, that
  holders are alive and a locked lock has one (`LocksHaveHolders`): a cleanup that
  robs a lock also unlocks it, so that it can leave a holder without lock, never
  the reverse.
* what an ended execution leaves (`ExecutionProofs`): `RegistryInv` places each
  registration between the step that makes it and the cleanup that undoes it: a
  cleanup removes the entries of its key whoever put them there, so that an entry
  is of an execution that is alive. With `HolderInv` it gives `EndedLeavesNothing`.
* create tasks and claims (`ExecutionProofs`): `StrayCreatesAreDoomed` is inductive
  on `StateInv`. `ClaimantInv` names for each pending claim a request that made it
  and has it to settle; it excludes requests at `finalbind`, which have set the
  owner, so that the claim found there is another's.
* refinement (`OwnershipProofs`): every step maps to a step of `SessionCustody` or
  to a stutter, under the mapping `using[r] = sid[r]` while `r` is settled.

With the database the repository call of a cleanup may be cancelled half way, and the
rest of the cleanup does not run: locks, registrations and claims stay. The facts about
ended executions are stated for the memory repository, whose calls do not wait.

* interrupts (`InterruptProofs`): `RowKeepsPromise` is the inductive form of
  `TombstoneWindow`: the row of an id is the binding as promised or a tombstone
  that outlives the window. It is proved once for the five things a step can do
  to the registry (`StoreStep`), to which `StepTypes` reduces every action.
  `CallbacksMatchTheAsk` needs `BindingsMatchTheAsk` (the registry hands out what
  the consumer put in); `AnnouncedAreAnswerable` needs `DiscardsComeAfter`
  (whoever is about to discard knows the upstream closed the question) and
  `ToldAreKept`. `AnsweredStayForgotten` rests on the order of the events of one
  id, wherever they are: `AsksComeFirst` says that an "asked" event the consumer
  would act on is the first the service hears of its id, and that none comes behind
  a "replied" one, so that nothing brings an answered question back.
  `ResolvedFollowsAsked` (memory registry) adds `MarksAreAnnounced`, what the
  consumer marked was announced, and `ResolvedAreOver`, what was told resolved is
  never asked again. Their assumptions are `TTLAssumption`, `AskAssumption`,
  `CopiesAssumption`, `NoneIsOutside` and `NoneIsNoStatus`.

* task store (`DatabaseProofs`): `StoreInv`, which the run checks as it stands, is
  inductive: to the types and to `DecisionsHold` it adds that whoever reads or
  writes under the lock holds it (`LockInv`).
  `DecisionsHold` needs it: nobody else of the process is between its read and
  its write, and only one process relies on a lock. Each step of the store is a
  step of the register or a stutter (`RowStep`), from which `TerminalStands` and `SavesSettle` follow. Assumptions:
  `NoneIsNoWriter` and, of `TaskRegister`, `NoneIsNoSnapshot`.

* migrations (`DatabaseProofs`): `VersionImpliesSchema` is not inductive, for a
  process decides from what it has looked at and another may act in between.
  `MigrationInv` says what stays true of a look, because tables and columns are only
  added: what a process has not planned to create is there (`StartInv`), nobody gets
  past the version of a later release (`LaterInv`), and the draft of the one process
  that has written is ahead of the committed schema (`DraftInv`). `VersionNeverFalls`
  follows from the same.
  Assumptions: `ServersAssumption`, `FaultsAssumption`.

* listing (`DatabaseProofs`): `ListingInv` says at each page how often an untouched
  task has been listed: once if it comes before the cursor in the order of the
  listing and matches the filter, else not at all. A page is cut by counting the
  tasks before each one, which takes facts about cardinalities and a smallest
  element (`LeastNumber`). Assumptions: `TaskIdsAssumption`, `PageAssumption`,
  `ListBoundsAssumption`.

* request handler (`TaskServiceProofs`): `HandlerInv` adds to `ServiceInv` that the task
  is on record while an execution may still enqueue (`RecordInv`), that a cancel that
  refreshes found a final state (`RefreshInv`), and, for `UndisturbedTasksSettle`,
  where the final event is while it is not on record: in the queue of somebody who
  saves it (`SettleInv`). It holds for any number of cancels, subscribers,
  events and failing saves. Assumptions: `TaskAssumption`,
  `RequestsAssumption`, `BoundsAssumption`, `StatesAssumption`.

* streamed output (`StreamProofs`). `SignalComes` and `CompletedStaysLast` are about
  control: `SignalInv` says that the signal comes with the order to stop and that
  nothing else stops the consumer of an execution that goes on, `OutcomeInv` that
  "completed" was said after the signal and without an error. `CompletedMeansWhole`
  and `OutputIsSound` are about data: `DeliveryInv` says that until the final status
  the buffer of a block is what was streamed of it, the chunks are one artifact and
  no snapshot was sent (`Growing`). That the comparison of the buffer with the
  response decides rightly about the snapshot follows from it, and so does that it is
  sent once and last (`SnapshotIsOnce`, `CompletesWhole`). It is preserved
  because every chunk is registered by one operator (`RegisterGrows`), and it takes
  what joining texts and emitting one chunk after the other yield (`FlattenOneMore`,
  `EmitsGrow`). Assumption: `PartsAssumption`, the types of the constants and
  that parts are distinct: nothing is assumed of the texts, of echoes or of how
  upstream publishes.
  That nothing is streamed twice (`NothingTwice`, in `OutputInv`) is a fact about letters:
  `TextInv` says that what the consumer has seen of a part, in `part_states` or in
  `pending_deltas`, is in writing order and written (`KnownInv`), that early deltas
  wait only while the part has no state (`LateInv`), and that a block has of a part
  only what is in the part's buffer (`Good`). Whatever is then read of the part, the
  next chunk, its whole text or early deltas, comes after all its block has
  (`DeltaLearns`, `UpdateLearns`, from `RisingJoin`, `StripKeeps` and `SnapshotAdds`).
  It takes `LettersAssumption` too: letters tell pieces of output apart.
  `NoSnapshotIsNeedless` is the converse: a client that has read a plain response in
  one turn is not sent it again. `PlainInv` says that until the signal the text buffer
  is what is due of the answers, in the order of the response (`UpToDate`). Writing
  keeps it, for an answer is read when it is written (`ReadsOnTime`, by cases on what
  a delta or an update tells: `DeltaTells`, `UpdateTells`, from `StripPrefix`, `NoMore` and
  `JoinAt`); `OrderInv` says that the parts of a block are written in order, and
  `WholeInv` that the signal of a one-turn execution comes when the turn is written.
  Parts are plain (`IsPlain`) when a text does not come in deltas before its update
  and the role of the message agrees with the echo of the prompt: a late text is
  flushed out of order, and an echo that its role does not give away, or an answer
  taken for one, leaves buffer and response different, so the snapshot is needed. A
  text published whole that loses blanks at its ends (`LosesBlanks`) is excepted too.

* budgets and peer clients (`ToolLoopProofs`): `ClientsStayOpen` says that the client in
  use is not closed. It rests on two facts about eviction: an entry with borrows is
  marked and never taken out (`EvictThins`), and the borrow count of an entry is the
  number of its holders and of its leaked borrows (`BorrowsAreHeld`), so that it is not 0 while
  anybody holds the client. `BudgetsCount` counts: a step moves at most one execution
  into or out of the users of a permit, and takes or gives back one permit with it.
  `CacheIsInOrder` adds that no client is forgotten (`KnownInv`: each is cached, about
  to be closed, closed, or lost to a failed closing) and that a settled cache is within
  its size: `SizeInv` says that a cache beyond its size has a marked entry and that marked
  entries are borrowed. Both passes of an eviction keep it (`EvictBounds`): the excess,
  counted from the least recently used on, is removed where idle and marked where borrowed.
  Assumptions: `CacheAssumption`, `BoundsAssumption`, `CallersAssumption` (finitely
  many callers), `NoEntryIsNone`, `LimitAssumption`.

* surface (`SurfaceProofs`): the stages are passed in one order, and `PassedInv` says
  at each stage what the earlier ones have established: who was recognised, that the
  body fits, that the version is spoken, that the deployment resolves the method.
  With `CallInv` (what was granted before the call: `Entitled` is the very capability
  a method takes) and `CustodyInv` (at each stage, where a claim may be and whose the
  session is: nobody's with the claim pending, or another's with the claim lost) it gives `CallsAreAllowed`, `ClaimsAreSettled`, `StrangersAndLogs`, `BodiesFit` and
  `ClientsAreUnderstood`, for every deployment and request of `CasesAssumption`: not
  only those the run enumerates. `ContractsAreKept` goes family by family: the
  required and optional fields of a method are among those its handler allows, for
  every set of fields a call may carry. `DocumentsAreTrue` rests on one equation: the
  registry (`ResolvableAreOpen`) and every list (`FamiliesAreOpen`) are all methods but
  those the deployment withholds. A document names every method whatever the
  deployment (`DocumentNamesMethods`), so what it names and does not resolve are the
  withheld ones, which the wire contract and the profile declare (`DocumentIsTrue`).

The theorems about executions hold for any sets of requests, identities, contexts, sessions and
keys and either backend, from the assumptions named in the modules:
`BackendAssumption`, `NoneAssumption`, `RequestsAssumption`,
`CreateStatesAssumption` and `RequestAttributes`.

Induction. The library's induction theorems cannot be used, for they take an
operator, but well-foundedness of the numbers can be stated for sets: from
`LeastNumber` (`WFMin` of `WellFoundedInduction`) follows induction over a set of
numbers (`SetInduction`), and with it that the recursive functions of `FlattenSeq` and
`EmitChunks` are defined, and what they do with one element more.

Only model-checked:

* Liveness, which is out of the prover's reach: `EveryRequestEnds`, `EveryCallEnds`,
  `SchemaGetsReady`.

## 5. Known disagreements

Between the code and what its documents or tests say. The first two are runs that
expect a violation; the next four are stated as properties of `Execution`, which a
configuration with one of them and the constants of `lock_stolen.cfg` or
`every_request_ends.cfg` refutes; the rest is what the models do where a property
exempts it.

* `MutualExclusion`: cleanup releases the session lock whoever holds it
  (`execution/coordinator.py:482`), though a test expects executions of a session
  to be serialized.
* `RefusedStreamsEnd`: the retry loop swallows the refusal of the stream budget
  (`execution/stream_runtime.py:592`), though `docs/guide.md:51` calls it fast-fail.
* `FirstMessagesGetSessions`: a create task cancelled through its waiter stays in
  the in-flight map, and every later first message of the conversation joins it
  (`execution/session_manager.py:79`, `docs/guide.md:457`).
* `LeaseProtects`: a failing request clears the pending claim another request of
  the same identity relies on (`execution/session_manager.py:144`,
  `docs/guide.md:45`).
* `CancelFindsGeneration`: the end of one execution unregisters another one of the
  same task and context (`execution/coordinator.py:484`, `docs/guide.md:1245`).
* `EndedTasksAreTerminal`: a dropped stream ends its execution without a terminal
  event (`server/application.py:432`, `docs/guide.md:1240`).
* A version header that does not parse makes the formatting of its own error raise
  (`jsonrpc/error_responses.py:26`): a plain 500, where `docs/guide.md:296` promises a
  rejection.
* An upstream that answers null to a workspace call, a session listing or a
  provider call trips an assertion: a plain 500
  (`jsonrpc/handlers/workspace_control.py:302`), where the contract of the
  workspace calls says object or null.
* `create_worktree` documents no required field and demands `request`; `summarize`
  documents two optional fields and demands both or none.
* An upstream answer that is not JSON is a payload error of the session methods
  and an internal error of the others.

## 6. Not modelled, and the plan

* The remote peer's protocol in `client/`: transports, polling until a deadline,
  mapping of errors and payloads. The interesting state, the cache, is modelled.
* Filtering of output parts by accepted mode (`output_modes.py`), merging of a
  tool's streamed text, mapping of message parts: pure translations of payloads.
* Resolution of a path in the file system by the sandbox policy: a symbolic link is
  the file system's state; the models take its verdict.
* Values of fields other than directories, and schemas in the documents.
* Settings, command line, logging, tracing, metrics: no state another part reads.

Every module and property of the plan is written, and every invariant the runs check
is stated by a theorem. No statement is made of what an ended execution leaves with the
database beyond custody: the cleanup awaits a repository call there and may be stopped
half way (`execution/coordinator.py:473`), so that `EndedLeavesNothing` and
`ClaimsHaveClaimants` are not stated for that backend.
