---------------------------- MODULE IdAllocator ----------------------------
(***************************************************************************)
(* The lease-based ID allocator (crates/db/src/id_allocator.rs).           *)
(*                                                                         *)
(* IDs are handed out from memory below a leased bound, lease_end, whose   *)
(* exclusive watermark is persisted first.  Callers claim IDs lock-free;   *)
(* extending the lease is serialised by extend_lock and awaits storage, so *)
(* a caller can be dropped (or get a storage error) half way.  One         *)
(* background task refills the lease; database close shuts it down.        *)
(*                                                                         *)
(* Storage keeps one watermark row.  wal[1] is its value when the process  *)
(* first opens; every put appends.  Entries up to `applied` are visible to *)
(* reads and entries up to `durable` survive a crash: SlateDB's WAL        *)
(* uploads in sequence order, and a put whose caller was dropped still     *)
(* lands.                                                                  *)
(***************************************************************************)
EXTENDS Integers, Sequences

CONSTANTS
  Callers,            \* tasks that call allocate_batch and reserve_at_least
  Refill,             \* the background refill task
  NoOne,              \* extend_lock is free
  MaxId,              \* u64::MAX
  LeaseSize,          \* lease_size
  RefillThreshold,    \* refill_threshold
  Counts,             \* batch sizes callers ask for
  Floors,             \* arguments of reserve_at_least
  InitialWatermarks,  \* values of the persisted watermark at first open
  MaxWrites,          \* bound: watermark writes in a behaviour
  MaxCrashes,         \* bound: process restarts in a behaviour
  MaxNotifies,        \* bound: notify_waiters calls that are due at once
  MaxCloses           \* bound: calls of shutdown() in a behaviour (0 or 1)

ASSUME ThreadsAssumption ==
  /\ Refill \notin Callers
  /\ NoOne \notin Callers \cup {Refill}
ASSUME NumbersAssumption ==
  /\ MaxId \in Nat \ {0} /\ LeaseSize \in Nat \ {0} /\ RefillThreshold \in Nat
  /\ Counts \subseteq Nat \ {0} /\ Floors \subseteq 1..MaxId
  /\ InitialWatermarks \subseteq 0..MaxId
  /\ MaxWrites \in Nat /\ MaxCrashes \in Nat /\ MaxNotifies \in Nat \ {0}
  /\ MaxCloses \in {0, 1}

VARIABLES
  nextId,      \* next_id
  leaseEnd,    \* lease_end, 0 while uninitialised
  lock,        \* holder of extend_lock
  at,          \* each task's place in its operation
  lo, cnt,     \* the IDs lo .. lo + cnt - 1 a task claimed, or cnt it is to claim
  cur,         \* current_watermark, the argument of persist_lease_extension
  arg,         \* the argument of reserve_at_least, 0 in an allocation
  floor,       \* history: the value of `reserved` when the task's allocation began
  lifecycle,   \* refill_lifecycle
  notifies,    \* refills that left the in-flight state and have yet to notify
  closer,      \* where shutdown() is
  woken,       \* shutdown()'s Notified future has been notified
  wal, applied, durable,   \* the persisted watermark
  crashes,
  issued,      \* history: every ID returned to a caller, by every process
  reserved     \* history: greatest argument of a successful reserve_at_least

memory == <<nextId, leaseEnd, lock>>
locals == <<lo, cnt, cur, arg, floor>>
closing == <<lifecycle, notifies, closer, woken>>
storage == <<wal, applied, durable>>
history == <<crashes, issued, reserved>>
vars == <<memory, at, locals, closing, storage, history>>

Threads == Callers \cup {Refill}

Zero == [t \in Threads |-> 0]

Init ==
  /\ nextId = 0 /\ leaseEnd = 0 /\ lock = NoOne
  /\ at = [t \in Threads |-> "idle"]
  /\ lo = Zero /\ cnt = Zero /\ cur = Zero /\ arg = Zero /\ floor = Zero
  /\ lifecycle = "Idle" /\ notifies = 0 /\ closer = "none" /\ woken = FALSE
  /\ \E w \in InitialWatermarks : wal = <<w>>
  /\ applied = 1 /\ durable = 1
  /\ crashes = 0 /\ issued = {} /\ reserved = 0

----------------------------------------------------------------------------
(* An operation that returns forgets its local variables. *)

Forget(t) ==
  /\ lo' = [lo EXCEPT ![t] = 0] /\ cnt' = [cnt EXCEPT ![t] = 0] /\ cur' = [cur EXCEPT ![t] = 0]
  /\ arg' = [arg EXCEPT ![t] = 0] /\ floor' = [floor EXCEPT ![t] = 0]

Finish(t) == at' = [at EXCEPT ![t] = "idle"] /\ Forget(t)

----------------------------------------------------------------------------
(* Saturating u64 arithmetic. *)

SaturatingAdd(a, b) == IF a + b > MaxId THEN MaxId ELSE a + b
SaturatingSub(a, b) == IF a < b THEN 0 ELSE a - b
Larger(a, b) == IF a < b THEN b ELSE a

ExtensionTarget(current, next) ==
  LET desired == SaturatingAdd(next, RefillThreshold)
      missing == desired - current
      chunks == IF missing = 0 THEN 1 ELSE (missing + LeaseSize - 1) \div LeaseSize
  IN IF desired < current
     THEN current
     ELSE Larger(SaturatingAdd(current, chunks * LeaseSize), desired)

RemainingInLease == SaturatingSub(leaseEnd, nextId)

----------------------------------------------------------------------------
(* allocate and allocate_batch.  claim_ids is one fetch_update of next_id;  *)
(* it fails, and the allocation with it, when the ID space is exhausted.    *)

\* Uninitialised: take the lock in initialize_and_allocate.
AllocateUninitialised(t, count) ==
  /\ at[t] = "idle"
  /\ leaseEnd = 0
  /\ at' = [at EXCEPT ![t] = "lock_init"] /\ cnt' = [cnt EXCEPT ![t] = count]
  /\ floor' = [floor EXCEPT ![t] = reserved]
  /\ UNCHANGED <<memory, lo, cur, arg, closing, storage, history>>

\* Fast path: claim from memory.
AllocateFast(t, count) ==
  /\ at[t] = "idle"
  /\ leaseEnd > 0
  /\ nextId + count <= MaxId
  /\ nextId' = nextId + count
  /\ at' = [at EXCEPT ![t] = "compare"] /\ lo' = [lo EXCEPT ![t] = nextId]
  /\ cnt' = [cnt EXCEPT ![t] = count] /\ floor' = [floor EXCEPT ![t] = reserved]
  /\ UNCHANGED <<leaseEnd, lock, cur, arg, closing, storage, history>>

AllocateExhausted(t, count) ==
  /\ at[t] = "idle"
  /\ leaseEnd > 0
  /\ nextId + count > MaxId
  /\ UNCHANGED vars

\* Variant: the exclusive bound taken for an inclusive one.
CompareWithLeaseInclusive(t) ==
  /\ at[t] = "compare"
  /\ at' = [at EXCEPT ![t] = IF lo[t] + cnt[t] > leaseEnd + 1 THEN "lock_ensure" ELSE "return"]
  /\ UNCHANGED <<memory, locals, closing, storage, history>>

CompareWithLease(t) ==
  /\ at[t] = "compare"
  /\ at' = [at EXCEPT ![t] = IF lo[t] + cnt[t] > leaseEnd THEN "lock_ensure" ELSE "return"]
  /\ UNCHANGED <<memory, locals, closing, storage, history>>

\* Variant: no second look at lease_end under the lock.
InitializeLockUnchecked(t) ==
  /\ at[t] = "lock_init" /\ lock = NoOne
  /\ lock' = t
  /\ at' = [at EXCEPT ![t] = "read_init"]
  /\ UNCHANGED <<nextId, leaseEnd, locals, closing, storage, history>>

\* initialize_and_allocate under the lock.  Another task may have initialised
\* meanwhile: then this is a normal allocation.
InitializeLock(t) ==
  /\ at[t] = "lock_init" /\ lock = NoOne /\ leaseEnd = 0
  /\ lock' = t
  /\ at' = [at EXCEPT ![t] = "read_init"]
  /\ UNCHANGED <<nextId, leaseEnd, locals, closing, storage, history>>

InitializedCovered(t) ==
  /\ at[t] = "lock_init" /\ lock = NoOne /\ leaseEnd > 0
  /\ nextId + cnt[t] <= leaseEnd
  /\ nextId' = nextId + cnt[t]
  /\ at' = [at EXCEPT ![t] = "return"] /\ lo' = [lo EXCEPT ![t] = nextId]
  /\ UNCHANGED <<leaseEnd, lock, cnt, cur, arg, floor, closing, storage, history>>

InitializedExtend(t) ==
  /\ at[t] = "lock_init" /\ lock = NoOne /\ leaseEnd > 0
  /\ nextId + cnt[t] > leaseEnd /\ nextId + cnt[t] <= MaxId
  /\ nextId' = nextId + cnt[t]
  /\ lock' = t
  /\ at' = [at EXCEPT ![t] = "persist"] /\ lo' = [lo EXCEPT ![t] = nextId]
  /\ cur' = [cur EXCEPT ![t] = leaseEnd]
  /\ UNCHANGED <<leaseEnd, cnt, arg, floor, closing, storage, history>>

InitializedExhausted(t) ==
  /\ at[t] = "lock_init" /\ lock = NoOne /\ leaseEnd > 0
  /\ nextId + cnt[t] > MaxId
  /\ Finish(t)
  /\ UNCHANGED <<memory, closing, storage, history>>

\* The initialising task: next_id restarts from the persisted counter.
InitializeFromStorage(t) ==
  /\ at[t] = "read_init"
  /\ wal[applied] + cnt[t] <= MaxId
  /\ nextId' = wal[applied] + cnt[t]
  /\ at' = [at EXCEPT ![t] = "persist"] /\ lo' = [lo EXCEPT ![t] = wal[applied]]
  /\ cur' = [cur EXCEPT ![t] = wal[applied]]
  /\ UNCHANGED <<leaseEnd, lock, cnt, arg, floor, closing, storage, history>>

InitializeExhausted(t) ==
  /\ at[t] = "read_init"
  /\ wal[applied] + cnt[t] > MaxId
  /\ nextId' = wal[applied]
  /\ lock' = NoOne
  /\ Finish(t)
  /\ UNCHANGED <<leaseEnd, closing, storage, history>>

\* ensure_lease_covers_claimed_ids under the lock.
EnsureCovered(t) ==
  /\ at[t] = "lock_ensure" /\ lock = NoOne /\ nextId <= leaseEnd
  /\ at' = [at EXCEPT ![t] = "return"]
  /\ UNCHANGED <<memory, locals, closing, storage, history>>

EnsureExtend(t) ==
  /\ at[t] = "lock_ensure" /\ lock = NoOne /\ nextId > leaseEnd
  /\ lock' = t
  /\ at' = [at EXCEPT ![t] = "persist"] /\ cur' = [cur EXCEPT ![t] = leaseEnd]
  /\ UNCHANGED <<nextId, leaseEnd, lo, cnt, arg, floor, closing, storage, history>>

----------------------------------------------------------------------------
(* persist_lease_extension: read next_id, put, await, publish lease_end.    *)
(* Its caller drops the lock guard when it returns.                         *)

\* Where a task is once persist_lease_extension has returned Ok.
AfterPersist(t) ==
  IF t = Refill THEN "drop" ELSE IF arg[t] > 0 THEN "reserve_ok" ELSE "return"

\* Only when the lease already ends at u64::MAX is there nothing to add.  The
\* watermark a reservation read may not be durable yet, so a reservation that
\* ends here is not recorded in `reserved`.
PersistNothing(t) ==
  /\ at[t] = "persist"
  /\ ExtensionTarget(cur[t], nextId) = cur[t]
  /\ lock' = NoOne
  /\ IF AfterPersist(t) = "reserve_ok"
     THEN Finish(t)
     ELSE at' = [at EXCEPT ![t] = AfterPersist(t)] /\ UNCHANGED locals
  /\ UNCHANGED <<nextId, leaseEnd, closing, storage, history>>

PersistIssue(t) ==
  LET new == ExtensionTarget(cur[t], nextId)
  IN /\ at[t] = "persist"
     /\ new # cur[t]
     /\ Len(wal) < MaxWrites
     /\ wal' = Append(wal, new)
     /\ at' = [at EXCEPT ![t] = "await_put"]
     /\ UNCHANGED <<memory, locals, closing, applied, durable, history>>

\* Variant: a put that returns once it is applied.
PersistPublishApplied(t) ==
  /\ at[t] = "await_put"
  /\ applied = Len(wal)
  /\ leaseEnd' = wal[Len(wal)]
  /\ lock' = NoOne
  /\ at' = [at EXCEPT ![t] = AfterPersist(t)]
  /\ UNCHANGED <<nextId, locals, closing, storage, history>>

\* The put returns when it is durable.  The lock is held, so it is the last one.
PersistPublish(t) ==
  /\ at[t] = "await_put"
  /\ durable = Len(wal)
  /\ leaseEnd' = wal[Len(wal)]
  /\ lock' = NoOne
  /\ at' = [at EXCEPT ![t] = AfterPersist(t)]
  /\ UNCHANGED <<nextId, locals, closing, storage, history>>

----------------------------------------------------------------------------
(* reserve_at_least.  Its callers pass an ID plus one, never zero. *)

ReserveBegin(t, n) ==
  /\ at[t] = "idle"
  /\ at' = [at EXCEPT ![t] = "lock_reserve"] /\ arg' = [arg EXCEPT ![t] = n]
  /\ UNCHANGED <<memory, lo, cnt, cur, floor, closing, storage, history>>

ReserveLock(t) ==
  /\ at[t] = "lock_reserve" /\ lock = NoOne
  /\ lock' = t
  /\ at' = [at EXCEPT ![t] = "read_reserve"]
  /\ UNCHANGED <<nextId, leaseEnd, locals, closing, storage, history>>

\* load_persisted_watermark, then fetch_max on next_id.
ReserveRaise(t) ==
  /\ at[t] = "read_reserve"
  /\ nextId' = Larger(Larger(wal[applied], nextId), arg[t])
  /\ at' = [at EXCEPT ![t] = "check_reserve"] /\ cur' = [cur EXCEPT ![t] = wal[applied]]
  /\ UNCHANGED <<leaseEnd, lock, lo, cnt, arg, floor, closing, storage, history>>

ReserveExtend(t) ==
  /\ at[t] = "check_reserve"
  /\ leaseEnd < nextId \/ cur[t] < nextId
  /\ at' = [at EXCEPT ![t] = "persist"] /\ cur' = [cur EXCEPT ![t] = Larger(leaseEnd, cur[t])]
  /\ UNCHANGED <<memory, lo, cnt, arg, floor, closing, storage, history>>

\* Variant: only the persisted watermark decides, which may not be durable.
ReserveCoveredPersisted(t) ==
  /\ at[t] = "check_reserve"
  /\ cur[t] >= nextId
  /\ lock' = NoOne
  /\ at' = [at EXCEPT ![t] = "reserve_ok"]
  /\ UNCHANGED <<nextId, leaseEnd, locals, closing, storage, history>>

ReserveCovered(t) ==
  /\ at[t] = "check_reserve"
  /\ leaseEnd >= nextId /\ cur[t] >= nextId
  /\ lock' = NoOne
  /\ at' = [at EXCEPT ![t] = "reserve_ok"]
  /\ UNCHANGED <<nextId, leaseEnd, locals, closing, storage, history>>

ReserveReturn(t) ==
  /\ at[t] = "reserve_ok"
  /\ reserved' = Larger(reserved, arg[t])
  /\ Finish(t)
  /\ UNCHANGED <<memory, closing, storage, crashes, issued>>

----------------------------------------------------------------------------
(* start_refill_if_needed and the refill task. *)

\* The successful end of allocate: at the low-water mark start a refill, unless
\* one is in flight or the allocator is closing; then return the IDs.
AllocateReturn(t) ==
  /\ at[t] = "return"
  /\ RemainingInLease > RefillThreshold \/ lifecycle # "Idle"
  /\ Finish(t)
  /\ issued' = issued \cup (lo[t] .. lo[t] + cnt[t] - 1)
  /\ UNCHANGED <<memory, closing, storage, crashes, reserved>>

AllocateReturnAndRefill(t) ==
  /\ at[t] = "return"
  /\ RemainingInLease <= RefillThreshold /\ lifecycle = "Idle"
  /\ lifecycle' = "InFlight"
  /\ at' = [at EXCEPT ![t] = "idle", ![Refill] = "lock_refill"] /\ Forget(t)
  /\ issued' = issued \cup (lo[t] .. lo[t] + cnt[t] - 1)
  /\ UNCHANGED <<memory, notifies, closer, woken, storage, crashes, reserved>>

RefillNotNeeded ==
  /\ at[Refill] = "lock_refill" /\ lock = NoOne /\ RemainingInLease > RefillThreshold
  /\ at' = [at EXCEPT ![Refill] = "drop"]
  /\ UNCHANGED <<memory, locals, closing, storage, history>>

RefillExtend ==
  /\ at[Refill] = "lock_refill" /\ lock = NoOne /\ RemainingInLease <= RefillThreshold
  /\ lock' = Refill
  /\ at' = [at EXCEPT ![Refill] = "persist"] /\ cur' = [cur EXCEPT ![Refill] = leaseEnd]
  /\ UNCHANGED <<nextId, leaseEnd, lo, cnt, arg, floor, closing, storage, history>>

\* RefillCompletion::drop leaves the in-flight state first ...
RefillDrop ==
  /\ at[Refill] = "drop"
  /\ notifies < MaxNotifies
  /\ lifecycle' = IF lifecycle = "InFlight" THEN "Idle" ELSE "Closed"
  /\ notifies' = notifies + 1
  /\ Finish(Refill)
  /\ UNCHANGED <<memory, closer, woken, storage, history>>

\* ... and then calls notify_waiters, by when a new refill may be in flight.
RefillNotify ==
  /\ notifies > 0
  /\ notifies' = notifies - 1
  /\ woken' = TRUE
  /\ UNCHANGED <<memory, at, locals, lifecycle, closer, storage, history>>

----------------------------------------------------------------------------
(* shutdown: stop new refills and wait for the one in flight. *)

ShutdownBegin ==
  /\ closer = "none" /\ MaxCloses = 1
  /\ closer' = "loop"
  /\ UNCHANGED <<memory, at, locals, lifecycle, notifies, woken, storage, history>>

\* Variant: an in-flight refill is told to close but not awaited.
ShutdownLoopUnawaited ==
  /\ closer = "loop"
  /\ lifecycle' = IF lifecycle = "InFlight" THEN "ClosingInFlight" ELSE "Closed"
  /\ closer' = "done"
  /\ UNCHANGED <<memory, at, locals, notifies, woken, storage, history>>

\* One turn of the loop.  A compare_exchange that fails only loops again.
ShutdownLoop ==
  /\ closer = "loop"
  /\ \/ /\ lifecycle = "Idle"
        /\ lifecycle' = "Closed" /\ closer' = "done" /\ UNCHANGED woken
     \/ /\ lifecycle = "InFlight"
        /\ lifecycle' = "ClosingInFlight" /\ UNCHANGED closer
     \/ /\ lifecycle = "ClosingInFlight"
        /\ closer' = "registering" /\ UNCHANGED lifecycle
     \/ /\ lifecycle = "Closed"
        /\ closer' = "done" /\ UNCHANGED lifecycle
  /\ UNCHANGED <<memory, at, locals, notifies, woken, storage, history>>

\* notified().enable(): only notifications from here on are seen.
ShutdownRegister ==
  /\ closer = "registering"
  /\ closer' = "registered" /\ woken' = FALSE
  /\ UNCHANGED <<memory, at, locals, lifecycle, notifies, storage, history>>

\* Variant: wait without looking again.
ShutdownRecheckSkipped ==
  /\ closer = "registered"
  /\ closer' = "waiting"
  /\ UNCHANGED <<memory, at, locals, lifecycle, notifies, woken, storage, history>>

\* The registered waiter looks again before it awaits the notification.
ShutdownRecheck ==
  /\ closer = "registered"
  /\ closer' = IF lifecycle = "ClosingInFlight" THEN "waiting" ELSE "loop"
  /\ UNCHANGED <<memory, at, locals, lifecycle, notifies, woken, storage, history>>

ShutdownWake ==
  /\ closer = "waiting" /\ woken
  /\ closer' = "loop"
  /\ UNCHANGED <<memory, at, locals, lifecycle, notifies, woken, storage, history>>

----------------------------------------------------------------------------
(* Storage, cancellation and crashes. *)

StorageApply ==
  /\ applied < Len(wal)
  /\ applied' = applied + 1
  /\ UNCHANGED <<memory, at, locals, closing, wal, durable, history>>

StorageFlush ==
  /\ durable < applied
  /\ durable' = durable + 1
  /\ UNCHANGED <<memory, at, locals, closing, wal, applied, history>>

AwaitPoints == {"lock_init", "read_init", "lock_ensure", "persist", "await_put",
                "lock_reserve", "read_reserve"}

\* Variant: the error path keeps the lock.
AbandonLocked(t) ==
  /\ t # Refill /\ at[t] \in AwaitPoints
  /\ Finish(t)
  /\ UNCHANGED <<memory, closing, storage, history>>

\* A storage error, or a caller's future dropped at an await; the lock guard
\* goes with it.
Abandon(t) ==
  /\ t # Refill /\ at[t] \in AwaitPoints
  /\ Finish(t)
  /\ lock' = IF lock = t THEN NoOne ELSE lock
  /\ UNCHANGED <<nextId, leaseEnd, closing, storage, history>>

\* The refill task is never dropped but sees storage errors.
RefillFails ==
  /\ at[Refill] \in {"persist", "await_put"}
  /\ at' = [at EXCEPT ![Refill] = "drop"]
  /\ lock' = NoOne
  /\ UNCHANGED <<nextId, leaseEnd, locals, closing, storage, history>>

\* The process dies, or closes, and opens again: memory is new and storage
\* keeps its durable prefix.
Restart ==
  /\ crashes < MaxCrashes
  /\ crashes' = crashes + 1
  /\ nextId' = 0 /\ leaseEnd' = 0 /\ lock' = NoOne
  /\ at' = [t \in Threads |-> "idle"]
  /\ lo' = Zero /\ cnt' = Zero /\ cur' = Zero /\ arg' = Zero /\ floor' = Zero
  /\ lifecycle' = "Idle" /\ notifies' = 0 /\ closer' = "none" /\ woken' = FALSE
  /\ wal' = SubSeq(wal, 1, durable) /\ applied' = durable
  /\ UNCHANGED <<durable, issued, reserved>>

----------------------------------------------------------------------------
\* What a task does on its own, what waits for extend_lock, and new requests.
Step(t) ==
  \/ CompareWithLease(t) \/ InitializeFromStorage(t) \/ InitializeExhausted(t)
  \/ PersistNothing(t) \/ PersistIssue(t) \/ PersistPublish(t)
  \/ ReserveRaise(t) \/ ReserveExtend(t) \/ ReserveCovered(t) \/ ReserveReturn(t)
  \/ AllocateReturn(t) \/ AllocateReturnAndRefill(t)
LockStep(t) ==
  \/ InitializeLock(t)
  \/ InitializedCovered(t) \/ InitializedExtend(t) \/ InitializedExhausted(t)
  \/ EnsureCovered(t) \/ EnsureExtend(t) \/ ReserveLock(t)
Request(t) ==
  \/ \E c \in Counts : AllocateUninitialised(t, c) \/ AllocateFast(t, c)
                       \/ AllocateExhausted(t, c)
  \/ \E n \in Floors : ReserveBegin(t, n)
Shutdown == ShutdownLoop \/ ShutdownRegister \/ ShutdownRecheck \/ ShutdownWake

Next ==
  \/ \E t \in Callers : Request(t) \/ LockStep(t) \/ Abandon(t)
  \/ \E t \in Threads : Step(t)
  \/ RefillNotNeeded \/ RefillExtend \/ RefillFails \/ RefillDrop \/ RefillNotify
  \/ ShutdownBegin \/ Shutdown
  \/ StorageApply \/ StorageFlush
  \/ Restart

Spec == Init /\ [][Next]_vars

\* Tasks and storage keep running.  tokio's Mutex is first-come first-served,
\* so a task that keeps finding it free gets it.  Where the bound on writes
\* stops a put, the put fails.
Fairness ==
  /\ \A t \in Threads : WF_vars(Step(t))
  /\ \A t \in Callers : /\ SF_vars(LockStep(t))
                        /\ WF_vars(Len(wal) = MaxWrites /\ at[t] = "persist" /\ Abandon(t))
  /\ WF_vars(Len(wal) = MaxWrites /\ at[Refill] = "persist" /\ RefillFails)
  /\ SF_vars(RefillNotNeeded \/ RefillExtend) /\ WF_vars(RefillDrop) /\ WF_vars(RefillNotify)
  /\ WF_vars(Shutdown) /\ WF_vars(StorageApply) /\ WF_vars(StorageFlush)

FairSpec == Spec /\ Fairness

----------------------------------------------------------------------------
(* Properties *)

Places == AwaitPoints \cup {"idle", "compare", "return", "check_reserve", "reserve_ok",
                            "lock_refill", "drop"}

TypeOK ==
  /\ nextId \in 0..MaxId /\ leaseEnd \in 0..MaxId
  /\ lock \in Threads \cup {NoOne}
  /\ at \in [Threads -> Places]
  /\ lo \in [Threads -> 0..MaxId] /\ cnt \in [Threads -> {0} \cup Counts]
  /\ cur \in [Threads -> 0..MaxId] /\ arg \in [Threads -> {0} \cup Floors]
  /\ floor \in [Threads -> 0..MaxId]
  /\ lifecycle \in {"Idle", "InFlight", "ClosingInFlight", "Closed"}
  /\ notifies \in 0..MaxNotifies
  /\ closer \in {"none", "loop", "registering", "registered", "waiting", "done"} /\ woken \in BOOLEAN
  /\ wal \in Seq(0..MaxId) /\ applied \in 1..Len(wal) /\ durable \in 1..applied
  /\ crashes \in 0..MaxCrashes /\ issued \subseteq 0..MaxId /\ reserved \in 0..MaxId

\* No ID is returned twice, by one process or by two: whatever an allocation is
\* about to return is new and is not about to be returned by another one, though
\* claims are lock-free and initialize_and_allocate moves next_id back to the
\* persisted counter.
IdsAreReturnedOnce ==
  \A t \in Callers : at[t] = "return" =>
    \A i \in lo[t] .. lo[t] + cnt[t] - 1 :
      /\ i \notin issued
      /\ \A u \in Callers \ {t} :
           at[u] = "return" => i \notin lo[u] .. lo[u] + cnt[u] - 1

\* Every returned ID is below the watermark a crash would leave behind, and
\* below every later watermark that is still on its way to storage.
ReturnedIdsStayBelowWatermark ==
  \A i \in issued : \A k \in durable..Len(wal) : i < wal[k]

\* "Ensure no future allocation returns an ID below next_id": an allocation that
\* begins after reserve_at_least(n) returned Ok gets IDs from n on, also after a
\* restart (unless the ID space is exhausted, see PersistNothing).
ReservationHolds ==
  \A t \in Callers : at[t] = "return" => lo[t] >= floor[t]

\* When shutdown() returns, no refill is running and none can start, so none
\* writes to a storage that is being closed.
ShutdownLeavesNoRefill ==
  closer = "done" => lifecycle = "Closed" /\ at[Refill] = "idle"

\* The in-memory lease never runs ahead of what storage has made durable, also
\* when a dropped put lands late.
LeaseIsDurable == \A k \in durable..Len(wal) : leaseEnd <= wal[k]

\* shutdown() returns (unless the process dies first): the refill's notification
\* cannot be lost between its check and its wait.
ShutdownReturns == closer = "loop" ~> closer \in {"done", "none"}

\* Every call returns: no caller waits for ever for the lock or the watermark.
CallsReturn == \A t \in Callers : at[t] # "idle" ~> at[t] = "idle"
=============================================================================
