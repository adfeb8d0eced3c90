--------------------------- MODULE DatabaseClose ---------------------------
(***************************************************************************)
(* Closing a writer (crates/db/src/lib.rs, commit_completion.rs).          *)
(*                                                                         *)
(* A request hands its commit to the commit-completion tracker, which runs *)
(* it in the request's task and, if the request is dropped half way, in a  *)
(* task of its own.  close() elects one owner, seals the tracker, waits    *)
(* for the admitted completions, stops the background tasks in StopOrder,  *)
(* shuts the ID allocators down and closes storage and its cache.  Either  *)
(* of the last two may fail; the database can then be closed again.        *)
(*                                                                         *)
(* A stepper is a caller of process_secondary_index_lifecycle_once, which  *)
(* serialises on secondary_lifecycle_step and then runs as a completion.   *)
(***************************************************************************)
EXTENDS Integers, Sequences, FiniteSets

CONSTANTS
  Requests,      \* calls that commit through the tracker
  Steppers,      \* calls of process_secondary_index_lifecycle_once
  Closers,       \* calls of close()
  NoOne,         \* secondary_lifecycle_step is free
  CloseTask,     \* the task that runs finish_close
  StopOrder,     \* the background tasks, in the order finish_close stops them
  Aborted,       \* those that are aborted rather than asked to stop
  MaxFailures    \* bound: failed attempts to close storage or its cache

\* A call is a commit or a manual step, and neither is the task of close().
ASSUME TasksAssumption ==
  /\ IsFiniteSet(Requests) /\ IsFiniteSet(Steppers)
  /\ Requests \cap Steppers = {}
  /\ NoOne \notin Requests \cup Steppers \cup Closers
  /\ CloseTask \notin Requests \cup Steppers \cup {NoOne}

ASSUME StopOrderAssumption == StopOrder \in Seq(STRING)

ASSUME MaxFailuresAssumption == MaxFailures \in Nat

VARIABLES
  sealed, active,   \* commit_completion::State
  at,               \* each request's and each stepper's place
  step,             \* the holder of secondary_lifecycle_step
  closeState,       \* CloseState
  waiters,          \* the senders in CloseState::Closing
  woken,            \* close() calls whose receiver is due to be notified
  caller,           \* each close() call's place
  owner,            \* the close() call that spawned the running finish_close
  closing,          \* where finish_close is
  stopping,         \* the worker finish_close stops next
  worker,           \* each background task's state
  refill,           \* the allocators' refill tasks
  storage, cache,   \* whether they are open
  failures

vars == <<sealed, active, at, step, closeState, waiters, woken, caller, owner,
          closing, stopping, worker, refill, storage, cache, failures>>
trackerVars == <<sealed, active>>
closeVars == <<closeState, waiters, woken, caller, owner, closing, stopping>>
taskVars == <<worker, refill>>
storeVars == <<storage, cache, failures>>

Tasks == Requests \cup Steppers
Workers == {StopOrder[i] : i \in 1..Len(StopOrder)}
InFlight == {t \in Tasks : at[t] \in {"running", "detached"}}

Init ==
  /\ sealed = FALSE /\ active = 0
  /\ at = [t \in Tasks |-> "idle"] /\ step = NoOne
  /\ closeState = "Open" /\ waiters = {} /\ woken = {}
  /\ caller = [c \in Closers |-> "idle"] /\ owner = NoOne
  /\ closing = "none" /\ stopping = 1
  /\ worker = [w \in Workers |-> "idle"] /\ refill = "Idle"
  /\ storage = "open" /\ cache = "open" /\ failures = 0

-----------------------------------------------------------------------------
(* Requests and steppers. *)

Released(t) == IF step = t THEN NoOne ELSE step

\* A request prepares its commit and is ready to hand it over.
BeginRequest(t) ==
  /\ t \in Requests /\ at[t] = "idle"
  /\ at' = [at EXCEPT ![t] = "admit"]
  /\ UNCHANGED <<trackerVars, step, closeVars, taskVars, storeVars>>

BeginStep(t) ==
  /\ t \in Steppers /\ at[t] = "idle"
  /\ at' = [at EXCEPT ![t] = "lock"]
  /\ UNCHANGED <<trackerVars, step, closeVars, taskVars, storeVars>>

LockStep(t) ==
  /\ at[t] = "lock" /\ step = NoOne
  /\ at' = [at EXCEPT ![t] = "check"] /\ step' = t
  /\ UNCHANGED <<trackerVars, closeVars, taskVars, storeVars>>

\* The check of close_state; index_worker is looked up next, and is gone once
\* a close attempt has stopped it.
CheckOpen(t) ==
  /\ at[t] = "check" /\ closeState = "Open" /\ worker["index"] # "joined"
  /\ at' = [at EXCEPT ![t] = "admit"]
  /\ UNCHANGED <<trackerVars, step, closeVars, taskVars, storeVars>>

CheckOpenFails(t) ==
  /\ at[t] = "check"
  /\ closeState # "Open" \/ worker["index"] = "joined"
  /\ at' = [at EXCEPT ![t] = "rejected"] /\ step' = Released(t)
  /\ UNCHANGED <<trackerVars, closeVars, taskVars, storeVars>>

\* Variant: a sealed tracker still admits.
RunSealed(t) ==
  /\ at[t] = "admit"
  /\ active' = active + 1
  /\ at' = [at EXCEPT ![t] = "running"]
  /\ UNCHANGED <<sealed, step, closeVars, taskVars, storeVars>>

\* Tracker::run
Run(t) ==
  /\ at[t] = "admit" /\ ~sealed
  /\ active' = active + 1
  /\ at' = [at EXCEPT ![t] = "running"]
  /\ UNCHANGED <<sealed, step, closeVars, taskVars, storeVars>>

RunRejected(t) ==
  /\ at[t] = "admit" /\ sealed
  /\ at' = [at EXCEPT ![t] = "rejected"] /\ step' = Released(t)
  /\ UNCHANGED <<trackerVars, closeVars, taskVars, storeVars>>

\* The future is ready, or it panics: the token is released either way.
CompletionEnds(t) ==
  /\ at[t] \in {"running", "detached"}
  /\ \E end \in {"done", "panicked"} : at' = [at EXCEPT ![t] = end]
  /\ active' = active - 1 /\ step' = Released(t)
  /\ UNCHANGED <<sealed, closeVars, taskVars, storeVars>>

\* Variant: the dropped half releases the lock the spawned half still needs.
DropRunningReleasesStep(t) ==
  /\ at[t] = "running"
  /\ at' = [at EXCEPT ![t] = "detached"]
  /\ step' = Released(t)
  /\ UNCHANGED <<trackerVars, closeVars, taskVars, storeVars>>

\* InPlace::drop: the rest runs as a spawned task that keeps the token.
DropRunning(t) ==
  /\ at[t] = "running"
  /\ at' = [at EXCEPT ![t] = "detached"]
  /\ UNCHANGED <<trackerVars, step, closeVars, taskVars, storeVars>>

\* InPlace::drop outside a runtime: nothing can run the rest.
DropWithoutRuntime(t) ==
  /\ at[t] = "running"
  /\ at' = [at EXCEPT ![t] = "abandoned"]
  /\ active' = active - 1 /\ step' = Released(t)
  /\ UNCHANGED <<sealed, closeVars, taskVars, storeVars>>

\* A call dropped before its completion is admitted runs nothing.
DropWaiting(t) ==
  /\ at[t] \in {"lock", "check", "admit"}
  /\ at' = [at EXCEPT ![t] = "cancelled"] /\ step' = Released(t)
  /\ UNCHANGED <<trackerVars, closeVars, taskVars, storeVars>>

-----------------------------------------------------------------------------
(* The background tasks. *)

WorkerBegins(w) ==
  /\ worker[w] = "idle"
  /\ worker' = [worker EXCEPT ![w] = "busy"]
  /\ UNCHANGED <<trackerVars, at, step, closeVars, refill, storeVars>>

WorkerEnds(w) ==
  /\ worker[w] = "busy"
  /\ worker' = [worker EXCEPT ![w] = "idle"]
  /\ UNCHANGED <<trackerVars, at, step, closeVars, refill, storeVars>>

\* A worker asked to stop finishes the step it is in; the warm tasks are
\* aborted instead.
WorkerExits(w) ==
  /\ worker[w] \in {"stopping", "stopping busy"}
  /\ worker' = [worker EXCEPT ![w] = "exited"]
  /\ UNCHANGED <<trackerVars, at, step, closeVars, refill, storeVars>>

\* Any request may allocate an ID and start a refill, sealed or not.
RefillBegins ==
  /\ refill = "Idle" /\ \E t \in Requests : at[t] \in {"idle", "admit"}
  /\ refill' = "InFlight"
  /\ UNCHANGED <<trackerVars, at, step, closeVars, worker, storeVars>>

RefillEnds ==
  /\ refill \in {"InFlight", "ClosingInFlight"}
  /\ refill' = IF refill = "InFlight" THEN "Idle" ELSE "Closed"
  /\ UNCHANGED <<trackerVars, at, step, closeVars, worker, storeVars>>

-----------------------------------------------------------------------------
(* close() and finish_close. *)

BeginClose(c) ==
  /\ caller[c] = "idle"
  /\ caller' = [caller EXCEPT ![c] = "looking"]
  /\ UNCHANGED <<trackerVars, at, step, closeState, waiters, woken, owner, closing,
                 stopping, taskVars, storeVars>>

\* Variant: a close in progress looks like an open database.
ElectCloseAgain(c) ==
  /\ caller[c] = "looking" /\ closeState \in {"Open", "Closing"}
  /\ closeState' = "Closing" /\ waiters' = {}
  /\ caller' = [caller EXCEPT ![c] = "elected"]
  /\ UNCHANGED <<trackerVars, at, step, woken, owner, closing, stopping, taskVars, storeVars>>

ElectClose(c) ==
  /\ caller[c] = "looking" /\ closeState = "Open"
  /\ closeState' = "Closing" /\ waiters' = {}
  /\ caller' = [caller EXCEPT ![c] = "elected"]
  /\ UNCHANGED <<trackerVars, at, step, woken, owner, closing, stopping, taskVars, storeVars>>

JoinClose(c) ==
  /\ caller[c] = "looking" /\ closeState = "Closing"
  /\ waiters' = waiters \cup {c}
  /\ caller' = [caller EXCEPT ![c] = "waiting"]
  /\ UNCHANGED <<trackerVars, at, step, closeState, woken, owner, closing, stopping,
                 taskVars, storeVars>>

FindClosed(c) ==
  /\ caller[c] = "looking" /\ closeState = "Closed"
  /\ caller' = [caller EXCEPT ![c] = "closed"]
  /\ UNCHANGED <<trackerVars, at, step, closeState, waiters, woken, owner, closing,
                 stopping, taskVars, storeVars>>

\* The elected call seals the tracker and spawns finish_close.
SpawnClose(c) ==
  /\ caller[c] = "elected"
  /\ sealed' = TRUE
  /\ owner' = c /\ closing' = "drain" /\ stopping' = 1
  /\ caller' = [caller EXCEPT ![c] = "joining"]
  /\ UNCHANGED <<active, at, step, closeState, waiters, woken, taskVars, storeVars>>

\* seal_and_wait
Drain ==
  /\ closing = "drain" /\ active = 0
  /\ sealed' = TRUE /\ closing' = "lock"
  /\ UNCHANGED <<active, at, step, closeState, waiters, woken, caller, owner, stopping,
                 taskVars, storeVars>>

CloseLocksStep ==
  /\ closing = "lock" /\ step = NoOne
  /\ step' = CloseTask /\ closing' = "stop"
  /\ UNCHANGED <<trackerVars, at, closeState, waiters, woken, caller, owner, stopping,
                 taskVars, storeVars>>

\* take() and the shutdown signal of stop(); a worker taken by an earlier
\* attempt is absent.
StopWorker ==
  /\ closing = "stop" /\ stopping <= Len(StopOrder)
  /\ LET w == StopOrder[stopping] IN
       /\ worker[w] \in {"idle", "busy"}
       /\ worker' = [worker EXCEPT ![w] =
                       IF @ = "busy" /\ w \notin Aborted THEN "stopping busy" ELSE "stopping"]
  /\ UNCHANGED <<trackerVars, at, step, closeVars, refill, storeVars>>

\* Variant: the shutdown signal is sent and the task is not joined.
JoinWorkerUnawaited ==
  /\ closing = "stop" /\ stopping <= Len(StopOrder)
  /\ worker[StopOrder[stopping]] \notin {"idle", "busy"}
  /\ stopping' = stopping + 1
  /\ UNCHANGED <<trackerVars, at, step, closeState, waiters, woken, caller, owner, closing,
                 taskVars, storeVars>>

\* The join of stop().
JoinWorker ==
  /\ closing = "stop" /\ stopping <= Len(StopOrder)
  /\ LET w == StopOrder[stopping] IN
       /\ worker[w] \in {"exited", "joined"}
       /\ worker' = [worker EXCEPT ![w] = "joined"]
  /\ stopping' = stopping + 1
  /\ UNCHANGED <<trackerVars, at, step, closeState, waiters, woken, caller, owner, closing,
                 refill, storeVars>>

WorkersStopped ==
  /\ closing = "stop" /\ stopping > Len(StopOrder)
  /\ closing' = "allocators"
  /\ UNCHANGED <<trackerVars, at, step, closeState, waiters, woken, caller, owner, stopping,
                 taskVars, storeVars>>

\* Both allocators' shutdown(): no refill can start, and the one that runs
\* is awaited (IdAllocator models the two halves step by step).
CloseAllocators ==
  /\ closing = "allocators" /\ refill \in {"Idle", "InFlight"}
  /\ refill' = IF refill = "Idle" THEN "Closed" ELSE "ClosingInFlight"
  /\ UNCHANGED <<trackerVars, at, step, closeVars, worker, storeVars>>

AllocatorsClosed ==
  /\ closing = "allocators" /\ refill = "Closed"
  /\ closing' = "storage"
  /\ UNCHANGED <<trackerVars, at, step, closeState, waiters, woken, caller, owner, stopping,
                 taskVars, storeVars>>

\* A close of storage or of its cache that reports an error may have taken
\* effect or not; finish_close goes no further.
CloseStorage ==
  /\ closing = "storage"
  /\ storage' = "closed" /\ closing' = "cache"
  /\ UNCHANGED <<trackerVars, at, step, closeState, waiters, woken, caller, owner, stopping,
                 taskVars, cache, failures>>

\* Variant: secondary_lifecycle_step stays locked.
CloseCacheLocked ==
  /\ closing = "cache"
  /\ cache' = "closed" /\ closing' = "succeeded"
  /\ UNCHANGED <<trackerVars, at, step, closeState, waiters, woken, caller, owner, stopping,
                 taskVars, storage, failures>>

CloseCache ==
  /\ closing = "cache"
  /\ cache' = "closed" /\ closing' = "succeeded" /\ step' = NoOne
  /\ UNCHANGED <<trackerVars, at, closeState, waiters, woken, caller, owner, stopping,
                 taskVars, storage, failures>>

CloseFails ==
  /\ closing \in {"storage", "cache"} /\ failures < MaxFailures
  /\ failures' = failures + 1
  /\ \/ closing = "storage" /\ storage' \in {storage, "closed"} /\ UNCHANGED cache
     \/ closing = "cache" /\ cache' \in {cache, "closed"} /\ UNCHANGED storage
  /\ closing' = "failed" /\ step' = NoOne
  /\ UNCHANGED <<trackerVars, at, closeState, waiters, woken, caller, owner, stopping, taskVars>>

\* Variant: a failed attempt leaves the database Closed.
SettleClosed ==
  /\ closing \in {"succeeded", "failed"}
  /\ closeState' = "Closed"
  /\ waiters' = {} /\ woken' = woken \cup waiters
  /\ caller' = [caller EXCEPT ![owner] =
                  IF @ = "dropped" THEN @ ELSE IF closing = "succeeded" THEN "closed" ELSE "failed"]
  /\ owner' = NoOne /\ closing' = "none"
  /\ UNCHANGED <<trackerVars, at, step, stopping, taskVars, storeVars>>

\* Variant: a failed attempt notifies nobody.
SettleSilently ==
  /\ closing \in {"succeeded", "failed"}
  /\ closeState' = IF closing = "succeeded" THEN "Closed" ELSE "Open"
  /\ waiters' = {} /\ woken' = IF closing = "succeeded" THEN woken \cup waiters ELSE woken
  /\ caller' = [caller EXCEPT ![owner] =
                  IF @ = "dropped" THEN @ ELSE IF closing = "succeeded" THEN "closed" ELSE "failed"]
  /\ owner' = NoOne /\ closing' = "none"
  /\ UNCHANGED <<trackerVars, at, step, stopping, taskVars, storeVars>>

\* The tail of finish_close: the state is published, the waiting calls are
\* notified and the owner, if it still waits, gets the result.
Settle ==
  /\ closing \in {"succeeded", "failed"}
  /\ closeState' = IF closing = "succeeded" THEN "Closed" ELSE "Open"
  /\ waiters' = {} /\ woken' = woken \cup waiters
  /\ caller' = [caller EXCEPT ![owner] =
                  IF @ = "dropped" THEN @ ELSE IF closing = "succeeded" THEN "closed" ELSE "failed"]
  /\ owner' = NoOne /\ closing' = "none"
  /\ UNCHANGED <<trackerVars, at, step, stopping, taskVars, storeVars>>

Wake(c) ==
  /\ c \in woken
  /\ woken' = woken \ {c}
  /\ caller' = [caller EXCEPT ![c] = IF @ = "waiting" THEN "looking" ELSE @]
  /\ UNCHANGED <<trackerVars, at, step, closeState, waiters, owner, closing, stopping,
                 taskVars, storeVars>>

\* close() is dropped at an await; the elected call has none before it spawns.
DropCaller(c) ==
  /\ caller[c] \in {"looking", "waiting", "joining"}
  /\ caller' = [caller EXCEPT ![c] = "dropped"]
  /\ UNCHANGED <<trackerVars, at, step, closeState, waiters, woken, owner, closing,
                 stopping, taskVars, storeVars>>

-----------------------------------------------------------------------------
TaskStep(t) ==
  \/ BeginRequest(t) \/ BeginStep(t) \/ LockStep(t)
  \/ CheckOpen(t) \/ CheckOpenFails(t) \/ Run(t) \/ RunRejected(t)
  \/ CompletionEnds(t)
  \/ DropRunning(t) \/ DropWithoutRuntime(t) \/ DropWaiting(t)

CallerStep(c) ==
  \/ BeginClose(c) \/ ElectClose(c) \/ JoinClose(c) \/ FindClosed(c)
  \/ SpawnClose(c) \/ Wake(c) \/ DropCaller(c)

CloseStep ==
  \/ Drain \/ CloseLocksStep \/ StopWorker \/ JoinWorker \/ WorkersStopped
  \/ CloseAllocators \/ AllocatorsClosed \/ CloseStorage \/ CloseCache \/ CloseFails \/ Settle

Next ==
  \/ \E t \in Tasks : TaskStep(t)
  \/ \E c \in Closers : CallerStep(c)
  \/ \E w \in Workers : WorkerBegins(w) \/ WorkerEnds(w) \/ WorkerExits(w)
  \/ RefillBegins \/ RefillEnds
  \/ CloseStep

Spec == Init /\ [][Next]_vars

(* The runtime polls every ready task: a call goes on unless it is dropped,  *)
(* a completion, a worker's step and a refill end, and finish_close, once    *)
(* spawned, is never dropped.  Nothing makes a call begin, fail or be        *)
(* dropped, or a worker or a refill start.                                   *)
Fairness ==
  /\ \A t \in Tasks : WF_vars(LockStep(t) \/ CheckOpen(t) \/ CheckOpenFails(t) \/ Run(t)
                              \/ RunRejected(t) \/ CompletionEnds(t))
  /\ \A c \in Closers : WF_vars(ElectClose(c) \/ JoinClose(c) \/ FindClosed(c)
                                \/ SpawnClose(c) \/ Wake(c))
  /\ \A w \in Workers : WF_vars(WorkerEnds(w)) /\ WF_vars(WorkerExits(w))
  /\ WF_vars(RefillEnds) /\ WF_vars(CloseStep)

FairSpec == Spec /\ Fairness

-----------------------------------------------------------------------------
(* When storage is closed no admitted completion is unfinished, whether its  *)
(* request still waits for it or was dropped, every background task has been *)
(* joined, and no ID lease refill runs (finish_close's order of shutdown).   *)
NothingRunsOnClosedStorage ==
  storage = "closed" =>
    /\ InFlight = {}
    /\ \A w \in Workers : worker[w] = "joined"
    /\ refill = "Closed"

(* One close attempt owns the protocol: while finish_close runs the state is *)
(* Closing, as its unreachable!() asserts, and exactly one call was elected  *)
(* for it.                                                                   *)
CloseIsOwnedOnce ==
  /\ closing # "none" => closeState = "Closing" /\ owner \in Closers
  /\ closeState = "Closing" =>
       Cardinality({c \in Closers : caller[c] = "elected"})
         + (IF closing # "none" THEN 1 ELSE 0) = 1

(* close() returns Ok only when storage and its cache are closed, also to a  *)
(* call that waited for another call's attempt, and however many attempts    *)
(* failed before.                                                            *)
OkMeansClosed ==
  \A c \in Closers : caller[c] = "closed" => storage = "closed" /\ cache = "closed"

(* A lifecycle step runs alone, and never beside the shutdown of the worker  *)
(* it shares its claims with (secondary_lifecycle_step is held to the end).  *)
StepsRunAlone ==
  /\ \A t \in Steppers : t \in InFlight => step = t
  /\ closing \in {"stop", "allocators", "storage", "cache"} => step = CloseTask

(* The tracker's promise to the rest of the database. *)
Contract == INSTANCE DrainContract WITH
  work <- InFlight,
  phase <- IF storage = "closed" THEN "shut" ELSE IF sealed THEN "draining" ELSE "serving"

(* The tracker and close() implement DrainContract: work is admitted only    *)
(* while the database serves, and storage shuts only when all of it ended.   *)
ImplementsDrain == Contract!Spec

(* Every close() call that is not dropped returns, although requests are     *)
(* dropped, completions panic, attempts fail and other calls race it.        *)
CloseReturns ==
  \A c \in Closers : caller[c] = "looking" ~> caller[c] \in {"closed", "failed", "dropped"}

(* A manual lifecycle step returns, is rejected or is dropped: it is never   *)
(* stuck behind a close that waits for it.                                   *)
StepsReturn ==
  \A t \in Steppers : at[t] = "lock" ~>
     at[t] \in {"done", "panicked", "abandoned", "cancelled", "rejected"}
=============================================================================
