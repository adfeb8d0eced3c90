# HelixDB in TLA+

HelixDB (`crates/db` and the crates around it) is a graph, vector and text
database in Rust on SlateDB, an LSM store on object storage. One writer process
owns a database; requests run in serializable-snapshot transactions; secondary,
text and vector indexes are built, maintained and dropped by a background worker
driven by durable records, so that it survives a crash at any point.

This directory models the parts of HelixDB whose correctness depends on the
order in which concurrent tasks, storage writes, cancellations and restarts
happen. TLC checks the models on small instances. TLAPS proves the safety of the ID
allocator, of close, of the outbox, of the scope gates, of the admission ledger and of
publication, and two refinements, for every instance.

All paths below are under `crates/db/src/`.

## The parts and how they interact

A **request** plans with the catalog of its data scope, opens a transaction,
writes graph rows and the index rows that follow from them, and commits through
the *commit-completion tracker*, which finishes the commit even if the request is
dropped. New nodes and edges take their IDs from the **ID allocator**. An **index
operation** (a build or a drop) is a durable record in the *outbox*; the worker
claims it and runs its steps, each one transaction. Steps and requests meet at
the **scope gates**. A **secondary index** build scans the source, catches up with
the deltas that concurrent writes record, validates and becomes Active. Text and
vector indexes are not written by the request: it enqueues an operation, which
the **backlog** charges and **publication** later applies. **close()** stops all of
it in an order that leaves nothing running on closed storage.

| Part | Source | Module |
| --- | --- | --- |
| ID allocator | `id_allocator.rs` | `IdAllocator`, `IdAllocatorInvariant`, `IdAllocatorProofs` |
| Commit completion and close | `commit_completion.rs`, `lib.rs` | `DatabaseClose`, abstract `DrainContract`, `DatabaseCloseProofs` |
| Outbox and worker | `index_lifecycle/{operation,outbox,worker,lifecycle,model}.rs` | `IndexLifecycle`, abstract `IndexStates`, `IndexLifecycleProofs` |
| Scope gates, runtime catalog | `index_lifecycle/scope_gate.rs`, `lib.rs`, `execution/interpreter/mutation/tx.rs` | `ScopeGates`, `ScopeGatesProofs` |
| Secondary index driver | `index_lifecycle/secondary.rs` | `SecondaryBuild` |
| Admission of queued operations | `index_lifecycle/queue/{backlog,producer,recovery}.rs` | `OperationBacklog`, `OperationBacklogProofs`, `OperationBacklogCounts` |
| Publication of queued operations | `index_lifecycle/queue/{publication,storage}.rs` | `QueuePublication`, `QueuePublicationProofs` |

The components meet in each other's models rather than in one product, which
would be far out of reach: `DatabaseClose` has the allocator's refill, the workers
and the tracker in it; `ScopeGates` has the requests, the DROP, the worker's steps
and the refresh; `SecondaryBuild` has the writes, the steps and the restarts;
`QueuePublication` takes the ledger of `OperationBacklog` as what its observers can
tell apart.

`MC<Module>` instantiates a module for TLC. In every module a definition marked
*Variant* is what a plausible mistake would make of the definition that follows it;
no specification uses it. It is there to show that the property it breaks depends
on that code.

### Storage

SlateDB is modelled by what the code relies on. A transaction takes effect at its
commit, atomically, or loses a conflict and writes nothing. What a transaction
reads through itself is therefore read at its commit, and one action stands for
the whole transaction; what is read outside it (a scan batch, a backlog, a queue)
is an action of its own. WAL uploads happen in sequence order, so a crash loses a
suffix of the commits. A task that has not yet awaited durability has told nobody
of the commits in the suffix, so a crash that loses them is the crash that comes
before them; the modules in which that argument fails, because memory runs ahead of
durability, model the suffix: `IdAllocator` has `wal`, `applied` and `durable`.

## Modules

### IdAllocator

State: `next_id`, `lease_end`, `extend_lock`, the refill lifecycle (`memory`,
`closing`), each task's place and locals, the log of watermarks with its applied
and durable prefixes, and as history what was returned and reserved. Every atomic
operation and every await is a boundary between actions: the lock-free claim, the
comparison with the lease, the wait for the lock, the put and the publication of
the new lease are separate steps of separate tasks. A caller may be dropped at any
await, a put may fail and still be applied, the process may restart.

### DatabaseClose

State: the tracker (`sealed`, `active`), each request and manual lifecycle step,
the holder of `secondary_lifecycle_step`, `close_state`, each `close()` call, the
progress of `finish_close`, the workers, the refill, storage and cache. Requests and
manual steps begin, run their completion in place, are dropped (the completion goes
on in a task of its own, or is lost if there is no runtime), panic or are rejected.
Two `close()` calls elect an owner, join or find the database closed; storage or
cache may fail to close, and the database can then be closed again. Left out: a panic
in the task of `finish_close` (its join error, `lib.rs:2808`, would leave the state
Closing). It holds an `expect` of an unpoisoned lock and the `unreachable!()` that
`CloseIsOwnedOnce` is about.

`DrainContract` is what the tracker promises: work is admitted only while the
database serves, and storage shuts only when all of it has ended.

### IndexLifecycle

State: index records, operation records with execution, revision and claim epoch,
the runnable pointer of each operation, the worker's cycle, its claim proof, its
tasks and in-flight targets. CREATE, DROP, ABORT and RETRY are one transaction each;
a step's transaction progresses, completes, blocks, fails, finds its claim stale or
reports an error although it was applied. A task that fails ends the cycle, the
supervisor restarts it, the process crashes.

`IndexStates` is the documented life of one index: Building, Active, Aborting,
Dropping, Dropped, and each build with a generation of its own.

### ScopeGates

Three fair locks of one scope: catalog (RwLock), mutation (RwLock) and refresh
(Mutex), each a set of holders and a queue. Requests plan, read or write; DROP is
exclusive on the catalog and completes although its caller is gone; a step takes no
gate (scan), the write fence (catch-up and cleanup) or the lifecycle permit
(activation); a refresh reloads the published catalog. CREATE and ABORT take none.
The scope has one index; `epoch` counts the changes of the Active set and stands
for that set. On a reader, snapshots of different ages take the place of the gates.
Left out: hydration of a refreshed catalog, writes begun without a plan, and
commits without an outcome.

### SecondaryBuild

One generation: the source's values, the index entries, the deltas and the
applied-state rows; the stage and the cursor; the step under way with what it
observed outside its transaction; `dirty`, the keys written since, which decides
whether the transaction conflicts. A write is any transaction of up to `MaxChanges`
changes, with its property rows staged before its index changes flush in order. A
value may be `Bad` (cannot be indexed). A *legacy* binary records deltas and claims
nothing. Cleanup keeps its cursor between batches of entries; the order of their keys
is left open. Left out: byte budgets (a batch may end after any number of entities) and
the blockers of an entity that exceeds one alone, the encoding of values, reads of an
Active index.

### OperationBacklog

The ledger (charges and their states, the clock of reconciliation marks, the
outcome counters), the stored queue, two producers' transactions and the publication
attempt that reconciles and acknowledges. An operation is one unit of bytes. The
serializability of enqueue, RETRY, activation and retirement against each other is
modelled by what each read; a commit without an outcome lands or is lost later. A
restart rebuilds the ledger from the stored queue; IDs that were never stored may be
drawn again. Publication lag and errors that make the writer unusable are left out.

### QueuePublication

The queue of one generation, its retained copy, the schedule (holds, cursor, limits,
eligibility) and the running attempt, beside the writes that enqueue. Operations are
numbered in the order in which their writes land. An admission matters only by being
newer than one observed before, so an observer's record is a flag that the next
admission clears. `Begin` is the code from the read of the latest admission to the
reconciliation ticket, `Settle` from the flush to the selection, and the outcome of
the transaction is one action each. The state an operation carries is `fit`
(publishable beside the largest acknowledgement), `big` (never fits) or `bad` (fails
to plan); input bytes are a nondeterministic cut. One write is in flight at a time:
interleavings of writers are the subject of `OperationBacklog`. Left out: backoff
lengths, planning sessions, caches, metrics, post-commit cache errors and errors
that make the writer unusable.

## Runs

| Run | Instance | Checks | States |
| --- | --- | --- | --- |
| `id_allocator_safety` | 2 callers, IDs up to 6, lease 2, batches of 1 and 2, 3 puts, 1 crash | `IdsAreReturnedOnce` `ReturnedIdsStayBelowWatermark` `ReservationHolds` `LeaseIsDurable` | 785,171 |
| `id_allocator_close` | 1 caller, the refill, shutdown, lease 1 | `ShutdownLeavesNoRefill` `ShutdownReturns` `CallsReturn` | 64,446 |
| `database_close` | 1 request, 1 manual step, 2 close calls, 2 workers, 1 failed close | `NothingRunsOnClosedStorage` `CloseIsOwnedOnce` `OkMeansClosed` `StepsRunAlone` `ImplementsDrain` `CloseReturns` `StepsReturn` | 93,656 |
| `index_lifecycle` | 2 indexes, 3 operations, 2 task permits, 1 fault, 1 crash, automatic and manual worker | `LinksValidate` `ClaimsAreOwned` `OneTaskPerOperation` `ImplementsIndexStates` `OperationsSettle` | 477,918 |
| `scope_gates` | 2 requests, a DROP, the worker, the refresh, writer and reader | `CachedCatalogIsExact` `PlansStayPublished` `GatesNeverDeadlock` `WritesMatchTheirPlan` `FencedStepsSeeNoWrite` | 1,224,123 |
| `secondary_build_upgrade` | unique index, 3 entities (1 beyond the scan), 2 values, legacy binary replaced once | `ActiveIsExact` `HeldValueIsSound` `CleanupIsComplete` `StepsFindNoCorruption` `WritesFindNoCorruption` `BlockersAreReal` | 409,146 |
| `secondary_build_liveness` | unique and plain index, 2 entities, unbounded writes | `ActiveIsExact` `BuildsEnd` | 42,269 |
| `secondary_build_moves` | unique index, 2 entities, transactions of 2 changes | `WritesFindNoCorruption` (violated) | |
| `operation_backlog` | 2 entities, 3 operation IDs, 2 producers, limits of 1 | `StoredWorkIsCharged` `OutcomesAreExact` `LimitsHold` | 891,617 |
| `queue_publication` | 2 entities, 3 operations of every kind, both families, any owner, 1 fault or restart | `NewestIsQueuedOrServed` `RetainedIsOutstanding` `StalledHasNothingToTry` | 1,754,544 |
| `queue_publication_liveness` | 2 entities, 3 text operations of every kind, acknowledgement of 1, 1 fault | `ServedStepsForward` `PublishableIsPublished` | 401,004 |
| `queue_publication_steps_back` | 1 entity, 4 operations that fit or are too big, 1 fault | `ServedNeverStepsBack` (violated) | |

What they show:

- **IDs.** No ID is returned twice, by one process or by two; each lies below every
  watermark a crash can leave; allocations respect earlier reservations; the lease
  in memory never runs ahead of durable storage; `shutdown` returns, leaves no
  refill, and no call waits for ever.
- **Close.** When storage closes nothing is in flight; one attempt owns the protocol;
  `Ok` means closed for every caller; a manual step runs alone; nobody is stuck
  behind a close that waits for it. The code implements `DrainContract`.
- **Outbox.** The cross-checks that would report corruption always pass, a claim is
  never orphaned within a process, an operation never runs twice at once, every
  operation settles, and each index follows `IndexStates`.
- **Gates.** A reused catalog is the one a fresh load would give, the published one is
  never older than what a request was planned with, a transaction
  commits against the Active set it was planned for, a fenced step sees no write,
  and the gates do not deadlock.
- **Secondary builds.** What becomes Active is exact, in spite of writes between every
  two steps and of a binary change; held values are what the rows say; cleanup is
  complete; blockers are real, but for one case of the scan (see Findings); builds end
  although writes never stop.
- **Queue.** Stored work stays charged and the counters are exact; the limits are
  exceeded only by blocker repairs, by as much as `backlog.rs:90-91` allows; no
  enqueued state is lost; a stalled target has nothing to try; every publishable
  state is published; before the first fault, and while an entity drains, waits or has
  failed, it never steps back to an older state.

### Why the bounds are enough

Each bound is the smallest at which the races the properties are about happen, and
all actions fire. Two callers and a refill are three tasks over one lease; IDs up to
6 with lease 2 give an initial lease, an extension and exhaustion. Two closers are an
owner and a joiner, and one failure makes a second attempt. Two indexes and three
operations give a build and a drop of one index beside a build of another; two task
permits let both run. In `ScopeGates` a generation is created, activated and dropped
while two requests are anywhere in their path. In `SecondaryBuild` two values and
three entities give a duplicate, its resolution and an entity that the scan does not
cover; a batch of 2 splits a backlog; `Reach` below the number of deltas makes catch-up
drain without the gate. Limits of 1 in `OperationBacklog` make every second operation
an excess. Three operations over two entities give `QueuePublication` a held entity
with a newer operation and another entity beside it; the violated run needs four to
outgrow an acknowledgement of 2 twice. With an acknowledgement of 1, three operations
are enough for a repair that leaves older operations queued and for one that does not
fit and is halved; the liveness run has text operations only, which are narrowed in
more ways than vector operations, and leaves prefixes of a batch to `queue_publication`.

`MaxFaults`, `MaxCrashes` and `MaxRestarts` count independent mishaps: with one, every
step meets a failure at every point.

Symmetry is declared over callers, requests, entities, values and operation IDs where
no definition distinguishes them, and only in runs without liveness.

Runs that say `CHECK_DEADLOCK FALSE` model systems that stop: a closed database, a
queue that has drained, indexes that are all dropped with the operation bound used up.

### Fairness

- `IdAllocator`: tasks and storage keep running; tokio's mutex is first-come
  first-served, hence strong fairness of taking it. Where the bound on puts is
  reached, the put fails.
- `DatabaseClose`: the runtime polls every ready task, and `finish_close` runs in a
  task that nobody drops. Nothing has to begin, fail or be dropped.
- `IndexLifecycle`: a live worker scans its queue on every wake and every sweep, tasks
  end, the supervisor restarts a failed cycle, delays elapse. Faults, crashes and
  commands are not fair.
- `SecondaryBuild`: the driver keeps stepping, and a step that has lost a conflict
  reports it. Writes may conflict for ever; that builds end in spite of it is what
  the fence after `PREPARATIONS_BEFORE_FENCE` is for. `BuildsEnd` assumes that a gated
  step can drain every delta there can be (`Reach` at least the number of entities):
  without it writes can grow the backlog faster than it drains.
- `QueuePublication`: eligible attempts run and end, deadlines pass, commits return, and
  a flush settles the writes it waits for. A failed entity's retry never has to fall
  due. Fairness of `Return` is needed: retries that keep falling due keep publication
  on a retained queue until the return of the landed write readmits it. Fairness of
  `Settle` is weak fairness with its enabling condition (`Flushed`) spelled out.

## Proofs

TLC shows a property on one instance; the theorems below hold for every value of the
constants that the named assumptions of the modules allow: any sets of callers, requests,
indexes, entities and operations, any number of faults and crashes. Each component's
proofs extend the component's own module, so the runs and the theorems are about the
same definitions.

| Module | Theorem | States |
| --- | --- | --- |
| `IdAllocatorProofs` | `Uniqueness` | `Spec => []IdsAreReturnedOnce` |
| | `Durability` | `Spec => []ReturnedIdsStayBelowWatermark` |
| | `LeaseDurability` | `Spec => []LeaseIsDurable` |
| | `Reservation` | `Spec => []ReservationHolds` |
| | `QuietAfterShutdown` | `Spec => []ShutdownLeavesNoRefill` |
| `DatabaseCloseProofs` | `QuietStorage` | `Spec => []NothingRunsOnClosedStorage` |
| | `OneOwner` | `Spec => []CloseIsOwnedOnce` |
| | `OkIsFinal` | `Spec => []OkMeansClosed` |
| | `LoneSteps` | `Spec => []StepsRunAlone` |
| | `DrainRefinement` | `Spec => ImplementsDrain` |
| `IndexLifecycleProofs` | `LinksHold` | `Spec => []LinksValidate` |
| | `NoOrphanedClaim` | `Spec => []ClaimsAreOwned` |
| | `OneTask` | `Spec => []OneTaskPerOperation` |
| | `LifecycleRefinement` | `Spec => ImplementsIndexStates` |
| `ScopeGatesProofs` | `ReuseIsExact` | `Spec => []CachedCatalogIsExact` |
| | `PlansAreCurrent` | `Spec => WritesMatchTheirPlan` |
| | `FencesExcludeWrites` | `Spec => FencedStepsSeeNoWrite` |
| | `NoGateDeadlock` | `Spec => []GatesNeverDeadlock` |
| `OperationBacklogProofs` | `StoredIsCharged` | `Spec => []StoredWorkIsCharged` |
| `OperationBacklogCounts` | `ExactOutcomes` | `Spec => []OutcomesAreExact` |
| | `BoundedBacklog` | `Spec => []LimitsHold` |
| `QueuePublicationProofs` | `RetainedOutstanding` | `Spec => []RetainedIsOutstanding` |
| | `NewestKnown` | `Spec => []NewestIsQueuedOrServed` |
| | `StalledWaits` | `Spec => []StalledHasNothingToTry` |
| | `ServedForward` | `Spec => ServedStepsForward` |

For every component there is also a theorem `Invariance`, that its inductive invariant
holds; type correctness is part of it. Almost none of the properties is inductive: each rests on an invariant
that says, for every place in the code, what the task that is there may rely on. TLC
checked each of these invariants on the instances above before it was proved.

**IdAllocator** (`ThreadsAssumption`, `NumbersAssumption`). A claim is made before the
lease covers it, and is returned after other tasks have moved `next_id`, the lease and the
log. `IInv` has

- `LockInv`: the lock is held exactly by the task between taking and dropping it;
- `WatermarkInv`: every watermark from the durable one on covers the lease, every
  returned ID and every reservation, so a restart at any point finds a safe one;
- `LeaseInv`: once there is a lease, it and `next_id` cover the past;
- `PlaceInv`: which places and arguments are possible, in particular that nothing is
  claimed before the lease is initialised, except by the task that initialises it;
- `ExtendInv`: what the holder of the lock has read is not behind the lease, and the
  put it waits for covers it;
- `ClaimInv`: a claim is new, lies below `next_id`, and below the lease when returned;
- `DisjointInv`: the claims of two tasks do not overlap;
- `CloseInv`: the refill lifecycle tells whether the refill task exists.

A step of one task disturbs the others only through shared state. `QuietOK` and `MoveOK`
prove once that a step which leaves the other tasks' locals alone and moves the shared
numbers the right way preserves everybody else's part; one lemma per action is then about
the task that moves.

**DatabaseClose** (`TasksAssumption`, `StopOrderAssumption`, `MaxFailuresAssumption`). What
holds of closed storage is established in pieces by an attempt that may fail and be
repeated. `IInv` says for every place of `finish_close` what the attempt has done so far
(`Drained`, `Stopped`, `Shut`), what of it outlives the attempt, that an attempt is the only
one from its election on (`Owned`), that the tracker's counter is the number of completions
in flight (`Counted`), and who holds `secondary_lifecycle_step` (`Locked`). The refinement
maps admitted work to the tasks in flight; each step is a step of `DrainContract` or a
stutter.

**IndexLifecycle** (`ConstantsAssumption`, `NoneAssumption`). `DurableInv` is about the
records alone and holds at every commit, whoever makes it: an index and the operation it
retains name each other and agree in all that `validate_link` compares, and a pointer exists
exactly for a runnable operation, at its revision. `WorkerInv` adds the running process: no
claim or delay is of an epoch to come, every claim of this epoch has its task or the proof is
withdrawn. It needs `DurableInv` to know that a claim which is no longer current is nobody's.

**ScopeGates** (`ScopeGatesAssumption`). `GateInv` ties each gate to the places of the code:
`Holders` (who holds which gate where), `Exclusion`, `StepGates`, and `Queues` (a process
waits in one queue, once, where it stands). `CatalogInv` is what the gates protect: a catalog
published at a version is that version's Active set unless a change is between its commit and
the advance of the version (`CacheInv`), what a request observed is still current while it
holds the catalog gate (`ObservedAt`, `ReuseAt`), and a plan stays current until the record
that its commit compares changes (`PlanAt`). `NoGateDeadlock` follows from `GateInv` alone:
the catalog gate is taken before the other two, and a holder of one of those waits for no gate.

**OperationBacklog** (`BacklogAssumption`, `FiniteAssumption`, `NoneAssumption`). `ChargeInv`:
an ID nobody drew is unknown everywhere (`Fresh`); what a producer knows of its operations by
the phase of its transaction (`Held`); stored work is charged and only an uncertain
acknowledgement outlives its operation (`Backed`); what publication's read is to the stored
queue (`Target`); and the heart of it, a reconciliation that has flushed knows every write
marked before its ticket, so what may still land is marked later (`Ticketed`). The outcome
counters are then inductive. `LimitsHold` needs `LimitInv`: some set of
charges, all repairs of entities that a blocked build named and of each at most two stored,
without which the ledger is within its limits. The proof carries that set through every
step: which charges are the excess changes when others settle or an admission fits again.

**QueuePublication** (`PublicationAssumption`). An attempt works on a queue it read or kept
from an earlier read, selects from it, and commits what it selected while writes land, so
each property relates what an attempt knows to a queue that has moved on. Operations are
numbered in the order their writes land and a selection is a set, so "the oldest n" is a
matter of counting; the lemmas on `First` and `Oldest` (a prefix is closed downwards, has at
most n members, and is everything or exactly n) replace an induction over sequences. `IInv` has

- `ListInv`: a queue that is retained or worked on is outstanding, and with an operation it
  lists every older one of the same entity;
- `AttemptInv`: a selection takes each entity's oldest operations of the attempt's queue, and
  an attempt discards only what is retired for good;
- `NewestInv`: no queued operation is newer than the newest, and an entity whose newest
  operation is gone has none queued, so what is acknowledged drops nothing newer than what
  is served;
- `BatchInv`: a held entity is selected alone and at the width its hold says;
- `ServedInv`: an entity that has operations queued has one not older than what it serves;
  before the first fault one that is not held back has only such operations, and one that is
  was tried with one that is still queued.

`StalledWaits` needs a second layer over `IInv`. `HoldInv`: a repair in progress has something
to take, since its width is not zero and what an entity drains ends before its newest
operation; so an attempt that finds nothing to visit has only entities that wait or failed.
`StallInv`: an attempt that saw the latest admission awaits every write of unknown outcome,
hence reads every operation whose write returned; and while the generation waits for new work,
none is unknown and each entity's returned operations lie within its hold. An admission ends
the wait, so only the steps that admit nothing have to keep it (`StallKept`).

### Only model-checked

- Liveness: `ShutdownReturns`, `CallsReturn`, `CloseReturns`, `StepsReturn`,
  `OperationsSettle`, `BuildsEnd`, `PublishableIsPublished`. Fairness and ENABLED are out of
  this prover's reach.
- `PlansStayPublished`, beside the proved properties of `ScopeGates`.
- `SecondaryBuild`: a transaction's changes are folded over the rows in order and a step's
  batch over its entities. What such a fold computes is an induction over data, which needs
  the library's induction theorems with an operator parameter; no installed prover
  instantiates them.

A boundary observation from the proof of `Reservation`: when the watermark that `reserve_at_least` reads
is already `u64::MAX`, `persist_lease_extension` has nothing to persist and returns at
once, although the put of that watermark (of a caller dropped half way) may not be durable
yet. A crash could then undo the reservation. `ReservationHolds` is about every other
case: the model does not record a reservation that ends there.

## Findings

- `secondary_build_moves`: while a unique index is Building, one transaction that gives
  an entity a value before another entity leaves it, in that order, is refused with a
  corruption error, although the same two changes in the other order succeed
  (`secondary.rs:946`; the comment at 944-945 says a stale claim always has a delta
  pending; the owner's delta is staged only when its own change flushes).
- `queue_publication_steps_back`: `advance_past` drops the hold of a draining entity
  after a commit without an outcome, even when it did not commit; a regular batch then
  serves an older state than the entity served before. The doc of `HeldEntity`
  (`publication.rs:212-226`) allows that only after a restart. With seven operations and
  an acknowledgement of 3 the same cause lets a narrowed repair step back, which is why
  `ServedStepsForward` leaves an entity that is `Repairing` out once a fault has happened.

An observation outside the runs: with `Rollback = TRUE`, two restarts, `Reach` 0 and
two entities, `SecondaryBuild` lets an orphan entry into an Active unique index. A write
of this binary claims a value before the scan reaches its entity, a rolled-back binary
moves the entity, and the scan, which takes an entity without an applied-state row to
hold nothing (`secondary.rs:1737`), records the new value and forgets the claim; the doc
at 805-806 says that "rolling back cannot leave a claim no delta accounts for". The runs
check the upgrade, not the way back.

Another is the exception in `BlockersAreReal`. A scan does not forget the applied state of
an owner whose value it takes over, unlike `catch_up_exact` with its `released` owners
(`secondary.rs:2291`). With `Upper` and `Batch` 3: a scan stages entities 1 and 2 under v1
and v2 and blocks on 3, which duplicates v1; a legacy binary's writes move 2 off its value
and then 1 to v2. After RETRY the same batch takes v2 for entity 1 from 2, finds the
applied state of 2 that it read before, sees the entry name 1 and blocks
(`secondary.rs:3642`) although no two entities hold one value, which the doc at 3439-3440
means to rule out ("Blocking on it would stop a build whose source holds no duplicate").
The step commits the takeover, so a further RETRY goes on. At those bounds the property
holds on 1,884,715 states, which is beyond the five minutes of a run, and fails without
its exception; in `secondary_build_upgrade`, with batches of 2, the exception is not needed.

## Not modelled

- **Text and vector drivers, search.** A driver's place in the lifecycle is in
  `IndexLifecycle`; what a step does to a text segment or a vector graph is ranking and
  floating-point work.
- **Storage encoding, merge operator, value semantics, AST.** Pure functions over
  unbounded byte strings and values, without state.
- **Planner, Cypher and SQL frontends, execution interpreter.** Sequential and
  immutable within a request; the order of their storage operations is in `ScopeGates`,
  `DatabaseClose` and `SecondaryBuild`. They are most of the repository's lines.
- **Migrations.** The worker is one of those that `close()` stops; the rewriting itself is
  data conversion.
- **Transactions, batched reads, caches.** Wrappers of SlateDB whose contract is above.
- **Query service, resources, server, metrics, CLI, SDKs, graph algorithms, tests.**
  Adapters without state between requests, counters nobody reads back, other programs.
