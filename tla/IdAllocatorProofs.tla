------------------------- MODULE IdAllocatorProofs -------------------------
(***************************************************************************)
(* The safety properties of IdAllocator hold for every number of callers,  *)
(* lease size, threshold and width of the ID space.  First the steps that  *)
(* neither write the watermark nor return an ID; then the steps that do,   *)
(* and those that close or restart.                                        *)
(***************************************************************************)
EXTENDS IdAllocatorInvariant

-----------------------------------------------------------------------------
(* Steps that neither write the watermark nor return an ID. *)

LEMMA FinishMoves ==
  ASSUME TypeOK, NEW t \in Threads, Finish(t)
  PROVE  /\ Moves(t)
         /\ at'[t] = "idle" /\ lo'[t] = 0 /\ cnt'[t] = 0
         /\ cur'[t] = 0 /\ arg'[t] = 0 /\ floor'[t] = 0
<1>1. at' = [at EXCEPT ![t] = "idle"] /\ "idle" \in Places /\ 0 \in 0..MaxId
  BY ConstantBounds DEF Finish, Places
<1>2. /\ lo' = [lo EXCEPT ![t] = 0] /\ cnt' = [cnt EXCEPT ![t] = 0] /\ cur' = [cur EXCEPT ![t] = 0]
      /\ arg' = [arg EXCEPT ![t] = 0] /\ floor' = [floor EXCEPT ![t] = 0]
  BY Zenon DEF Finish, Forget
<1> QED BY <1>1, <1>2, Zenon DEF TypeOK, Moves, Same

LEMMA AllocateUninitialisedOK ==
  ASSUME IInv, NEW t \in Callers, NEW c \in Counts, AllocateUninitialised(t, c)
  PROVE  IInv'
<1> Known(t) /\ TypeOK /\ Numbers /\ t \in Threads /\ t # NoOne /\ t # Refill
  BY KnownOK, Zenon DEF Threads, Known
<1> /\ MaxId \in Nat /\ nextId \in Nat /\ nextId <= MaxId /\ leaseEnd \in Nat /\ leaseEnd <= MaxId
    /\ reserved \in Nat /\ lo[t] \in Nat
    /\ cnt[t] \in Nat /\ cur[t] \in Nat /\ arg[t] \in Nat
    /\ arg[t] <= MaxId /\ floor[t] \in Nat
  BY Zenon DEF Known, Numbers
<1> at[t] = "idle"
  BY ConstantBounds, Zenon DEF AllocateUninitialised, Known
<1> /\ Moves(t)
    /\ at'[t] = "lock_init" /\ lo'[t] = lo[t] /\ cnt'[t] = c
    /\ cur'[t] = cur[t] /\ arg'[t] = arg[t] /\ floor'[t] = reserved
  BY Zenon DEF AllocateUninitialised, TypeOK, Places, AwaitPoints, locals, Moves, Same
<1> Keeps(t) /\ nextId' = nextId /\ lock' = lock
  BY Zenon DEF AllocateUninitialised, Keeps, TypeOK, memory, closing, storage, history
<1>1. PlaceInv(t)' /\ (HoldsLock(t)' <=> lock' = t)
  BY ConstantBounds DEF Known, Keeps, PlaceInv, HoldsLock
<1>2. ~Extending(t)' /\ ~Claims(t)'
  BY Zenon DEF Extending, Claims, Known
<1> QED BY <1>1, <1>2, MoveOK, Zenon DEF Known, ExtendInv, ClaimInv, Fresh

LEMMA AllocateFastOK ==
  ASSUME IInv, NEW t \in Callers, NEW c \in Counts, AllocateFast(t, c)
  PROVE  IInv'
<1> Known(t) /\ TypeOK /\ Numbers /\ t \in Threads /\ t # NoOne /\ t # Refill
  BY KnownOK, Zenon DEF Threads, Known
<1> /\ MaxId \in Nat /\ nextId \in Nat /\ nextId <= MaxId /\ leaseEnd \in Nat /\ leaseEnd <= MaxId
    /\ reserved \in Nat /\ lo[t] \in Nat
    /\ cnt[t] \in Nat /\ cur[t] \in Nat /\ arg[t] \in Nat
    /\ arg[t] <= MaxId /\ floor[t] \in Nat
  BY Zenon DEF Known, Numbers
<1> at[t] = "idle" /\ leaseEnd > 0 /\ Covers(nextId)
      /\ nextId + c \in 0..MaxId /\ nextId + c > nextId
  BY ConstantBounds DEF AllocateFast, Known, Numbers, IInv, LeaseInv
<1> /\ Moves(t)
    /\ at'[t] = "compare" /\ lo'[t] = nextId /\ cnt'[t] = c
    /\ cur'[t] = cur[t] /\ arg'[t] = arg[t] /\ floor'[t] = reserved
  BY Zenon DEF AllocateFast, TypeOK, Places, AwaitPoints, locals, Moves, Same
<1> Keeps(t) /\ nextId' = nextId + c /\ lock' = lock
  BY Zenon DEF AllocateFast, Keeps, TypeOK, memory, closing, storage, history
<1>1. PlaceInv(t)' /\ (HoldsLock(t)' <=> lock' = t)
  BY ConstantBounds, Zenon DEF Known, Keeps, PlaceInv, HoldsLock
<1>2. ExtendInv(t)'
  BY Zenon DEF Known, Keeps, ExtendInv, Extending, Covers
<1>3. ClaimInv(t)' /\ Fresh(t)
  BY ConstantBounds DEF Known, Keeps, ClaimInv, Claims, Fresh, Covers
<1> QED BY <1>1, <1>2, <1>3, MoveOK, Zenon DEF Known

LEMMA CompareWithLeaseOK ==
  ASSUME IInv, NEW t \in Callers, CompareWithLease(t)
  PROVE  IInv'
<1> Known(t) /\ TypeOK /\ Numbers /\ t \in Threads /\ t # NoOne /\ t # Refill
  BY KnownOK, Zenon DEF Threads, Known
<1> /\ MaxId \in Nat /\ nextId \in Nat /\ nextId <= MaxId /\ leaseEnd \in Nat /\ leaseEnd <= MaxId
    /\ reserved \in Nat /\ lo[t] \in Nat
    /\ cnt[t] \in Nat /\ cur[t] \in Nat /\ arg[t] \in Nat
    /\ arg[t] <= MaxId /\ floor[t] \in Nat
  BY Zenon DEF Known, Numbers
<1> at[t] = "compare"
  BY Zenon DEF CompareWithLease, Known
<1> /\ Moves(t)
    /\ at'[t] = (IF lo[t] + cnt[t] > leaseEnd THEN "lock_ensure" ELSE "return") /\ lo'[t] = lo[t] /\ cnt'[t] = cnt[t]
    /\ cur'[t] = cur[t] /\ arg'[t] = arg[t] /\ floor'[t] = floor[t]
  BY Zenon DEF CompareWithLease, TypeOK, Places, AwaitPoints, locals, Moves, Same
<1> Keeps(t) /\ nextId' = nextId /\ lock' = lock
  BY Zenon DEF CompareWithLease, Keeps, TypeOK, memory, closing, storage, history
<1>1. PlaceInv(t)' /\ (HoldsLock(t)' <=> lock' = t)
  BY Zenon DEF Known, Keeps, PlaceInv, HoldsLock
<1>2. ExtendInv(t)'
  BY Zenon DEF Known, Keeps, ExtendInv, Extending, Covers
<1>3. ClaimInv(t)' /\ Fresh(t)
  BY DEF Known, Keeps, ClaimInv, Claims, Fresh
<1> QED BY <1>1, <1>2, <1>3, MoveOK, Zenon DEF Known

LEMMA InitializeLockOK ==
  ASSUME IInv, NEW t \in Callers, InitializeLock(t)
  PROVE  IInv'
<1> Known(t) /\ TypeOK /\ Numbers /\ t \in Threads /\ t # NoOne /\ t # Refill
  BY KnownOK, Zenon DEF Threads, Known
<1> /\ MaxId \in Nat /\ nextId \in Nat /\ nextId <= MaxId /\ leaseEnd \in Nat /\ leaseEnd <= MaxId
    /\ reserved \in Nat /\ lo[t] \in Nat
    /\ cnt[t] \in Nat /\ cur[t] \in Nat /\ arg[t] \in Nat
    /\ arg[t] <= MaxId /\ floor[t] \in Nat
  BY Zenon DEF Known, Numbers
<1> at[t] = "lock_init" /\ lock = NoOne /\ leaseEnd = 0
  BY Zenon DEF InitializeLock, Known
<1> /\ Moves(t)
    /\ at'[t] = "read_init" /\ lo'[t] = lo[t] /\ cnt'[t] = cnt[t]
    /\ cur'[t] = cur[t] /\ arg'[t] = arg[t] /\ floor'[t] = floor[t]
  BY Zenon DEF InitializeLock, TypeOK, Places, AwaitPoints, locals, Moves, Same
<1> Keeps(t) /\ nextId' = nextId /\ lock' = t
  BY Zenon DEF InitializeLock, Keeps, TypeOK, memory, closing, storage, history
<1>1. PlaceInv(t)' /\ (HoldsLock(t)' <=> lock' = t)
  BY Zenon DEF Known, Keeps, PlaceInv, HoldsLock
<1>2. ~Extending(t)' /\ ~Claims(t)'
  BY Zenon DEF Extending, Claims, Known
<1> QED BY <1>1, <1>2, MoveOK, Zenon DEF Known, ExtendInv, ClaimInv, Fresh

LEMMA InitializedCoveredOK ==
  ASSUME IInv, NEW t \in Callers, InitializedCovered(t)
  PROVE  IInv'
<1> Known(t) /\ TypeOK /\ Numbers /\ t \in Threads /\ t # NoOne /\ t # Refill
  BY KnownOK, Zenon DEF Threads, Known
<1> /\ MaxId \in Nat /\ nextId \in Nat /\ nextId <= MaxId /\ leaseEnd \in Nat /\ leaseEnd <= MaxId
    /\ reserved \in Nat /\ lo[t] \in Nat
    /\ cnt[t] \in Nat /\ cur[t] \in Nat /\ arg[t] \in Nat
    /\ arg[t] <= MaxId /\ floor[t] \in Nat
  BY Zenon DEF Known, Numbers
<1> at[t] = "lock_init" /\ lock = NoOne /\ leaseEnd > 0
      /\ cnt[t] > 0 /\ nextId + cnt[t] <= leaseEnd /\ floor[t] <= nextId /\ Covers(nextId)
  BY DEF InitializedCovered, Known, Numbers, PlaceInv, IInv, LeaseInv, Covers
<1> nextId + cnt[t] \in 0..MaxId /\ nextId + cnt[t] > nextId
  BY DEF InitializedCovered
<1> Covers(nextId + cnt[t])
  BY CoversMore DEF Numbers
<1> /\ Moves(t)
    /\ at'[t] = "return" /\ lo'[t] = nextId /\ cnt'[t] = cnt[t]
    /\ cur'[t] = cur[t] /\ arg'[t] = arg[t] /\ floor'[t] = floor[t]
  BY Zenon DEF InitializedCovered, TypeOK, Places, AwaitPoints, locals, Moves, Same
<1> Keeps(t) /\ nextId' = nextId + cnt[t] /\ lock' = lock
  BY Zenon DEF InitializedCovered, Keeps, TypeOK, memory, closing, storage, history
<1>1. PlaceInv(t)' /\ (HoldsLock(t)' <=> lock' = t)
  BY Zenon DEF Known, Keeps, PlaceInv, HoldsLock
<1>2. ExtendInv(t)'
  BY Zenon DEF Known, Keeps, ExtendInv, Extending, Covers
<1>3. ClaimInv(t)' /\ Fresh(t)
  BY DEF Known, Keeps, ClaimInv, Claims, Fresh, Covers
<1> QED BY <1>1, <1>2, <1>3, MoveOK, Zenon DEF Known

LEMMA InitializedExtendOK ==
  ASSUME IInv, NEW t \in Callers, InitializedExtend(t)
  PROVE  IInv'
<1> Known(t) /\ TypeOK /\ Numbers /\ t \in Threads /\ t # NoOne /\ t # Refill
  BY KnownOK, Zenon DEF Threads, Known
<1> /\ MaxId \in Nat /\ nextId \in Nat /\ nextId <= MaxId /\ leaseEnd \in Nat /\ leaseEnd <= MaxId
    /\ reserved \in Nat /\ lo[t] \in Nat
    /\ cnt[t] \in Nat /\ cur[t] \in Nat /\ arg[t] \in Nat
    /\ arg[t] <= MaxId /\ floor[t] \in Nat
  BY Zenon DEF Known, Numbers
<1> at[t] = "lock_init" /\ lock = NoOne /\ leaseEnd > 0
      /\ cnt[t] > 0 /\ nextId + cnt[t] > leaseEnd /\ floor[t] <= nextId
      /\ Covers(nextId) /\ Covers(leaseEnd) /\ arg[t] = 0
  BY DEF InitializedExtend, Known, Numbers, PlaceInv, IInv, LeaseInv, Covers
<1> nextId + cnt[t] \in 0..MaxId /\ nextId + cnt[t] > nextId
  BY DEF InitializedExtend
<1> Covers(nextId + cnt[t])
  BY CoversMore DEF Numbers
<1> /\ Moves(t)
    /\ at'[t] = "persist" /\ lo'[t] = nextId /\ cnt'[t] = cnt[t]
    /\ cur'[t] = leaseEnd /\ arg'[t] = arg[t] /\ floor'[t] = floor[t]
  BY Zenon DEF InitializedExtend, TypeOK, Places, AwaitPoints, locals, Moves, Same
<1> Keeps(t) /\ nextId' = nextId + cnt[t] /\ lock' = t
  BY Zenon DEF InitializedExtend, Keeps, TypeOK, memory, closing, storage, history
<1>1. PlaceInv(t)' /\ (HoldsLock(t)' <=> lock' = t)
  BY Zenon DEF Known, Keeps, PlaceInv, HoldsLock
<1>2. ExtendInv(t)'
  BY DEF Known, Keeps, ExtendInv, Extending, Covers
<1>3. ClaimInv(t)' /\ Fresh(t)
  BY DEF Known, Keeps, ClaimInv, Claims, Fresh, Covers
<1> QED BY <1>1, <1>2, <1>3, MoveOK, Zenon DEF Known

LEMMA InitializedExhaustedOK ==
  ASSUME IInv, NEW t \in Callers, InitializedExhausted(t)
  PROVE  IInv'
<1> Known(t) /\ TypeOK /\ Numbers /\ t \in Threads /\ t # NoOne /\ t # Refill
  BY KnownOK, Zenon DEF Threads, Known
<1> /\ MaxId \in Nat /\ nextId \in Nat /\ nextId <= MaxId /\ leaseEnd \in Nat /\ leaseEnd <= MaxId
    /\ reserved \in Nat /\ lo[t] \in Nat
    /\ cnt[t] \in Nat /\ cur[t] \in Nat /\ arg[t] \in Nat
    /\ arg[t] <= MaxId /\ floor[t] \in Nat
  BY Zenon DEF Known, Numbers
<1> at[t] = "lock_init"
  BY Zenon DEF InitializedExhausted, Known
<1> /\ Moves(t)
    /\ at'[t] = "idle" /\ lo'[t] = 0 /\ cnt'[t] = 0
    /\ cur'[t] = 0 /\ arg'[t] = 0 /\ floor'[t] = 0
  BY FinishMoves, Zenon DEF InitializedExhausted
<1> Keeps(t) /\ nextId' = nextId /\ lock' = lock
  BY Zenon DEF InitializedExhausted, Finish, Forget, Keeps, TypeOK, memory, closing, storage,
     history
<1>1. PlaceInv(t)' /\ (HoldsLock(t)' <=> lock' = t)
  BY Zenon DEF Known, Keeps, PlaceInv, HoldsLock
<1>2. ~Extending(t)' /\ ~Claims(t)'
  BY Zenon DEF Extending, Claims, Known
<1> QED BY <1>1, <1>2, MoveOK, Zenon DEF Known, ExtendInv, ClaimInv, Fresh

LEMMA InitializeFromStorageOK ==
  ASSUME IInv, NEW t \in Callers, InitializeFromStorage(t)
  PROVE  IInv'
<1> Known(t) /\ TypeOK /\ Numbers /\ t \in Threads /\ t # NoOne /\ t # Refill
  BY KnownOK, Zenon DEF Threads, Known
<1> /\ MaxId \in Nat /\ nextId \in Nat /\ nextId <= MaxId /\ leaseEnd \in Nat /\ leaseEnd <= MaxId
    /\ reserved \in Nat /\ lo[t] \in Nat
    /\ cnt[t] \in Nat /\ cur[t] \in Nat /\ arg[t] \in Nat
    /\ arg[t] <= MaxId /\ floor[t] \in Nat
  BY Zenon DEF Known, Numbers
<1> at[t] = "read_init" /\ lock = t /\ leaseEnd = 0
      /\ wal[applied] \in 0..MaxId /\ wal[applied] \in Nat /\ wal[applied] <= MaxId
      /\ cnt[t] > 0 /\ floor[t] <= wal[applied] /\ Covers(wal[applied]) /\ arg[t] = 0
  BY DEF InitializeFromStorage, Known, HoldsLock, Numbers, PlaceInv, IInv, WatermarkInv, Covers
<1> wal[applied] + cnt[t] \in 0..MaxId /\ wal[applied] + cnt[t] > wal[applied]
  BY DEF InitializeFromStorage
<1> Covers(wal[applied] + cnt[t])
  BY CoversMore DEF Numbers
<1> /\ Moves(t)
    /\ at'[t] = "persist" /\ lo'[t] = wal[applied] /\ cnt'[t] = cnt[t]
    /\ cur'[t] = wal[applied] /\ arg'[t] = arg[t] /\ floor'[t] = floor[t]
  BY Zenon DEF InitializeFromStorage, TypeOK, Places, AwaitPoints, locals, Moves, Same
<1> Keeps(t) /\ nextId' = wal[applied] + cnt[t] /\ lock' = lock
  BY Zenon DEF InitializeFromStorage, Keeps, TypeOK, memory, closing, storage, history
<1>1. PlaceInv(t)' /\ (HoldsLock(t)' <=> lock' = t)
  BY Zenon DEF Known, Keeps, PlaceInv, HoldsLock
<1>2. ExtendInv(t)'
  BY DEF Known, Keeps, ExtendInv, Extending, Covers
<1>3. ClaimInv(t)' /\ Fresh(t)
  BY DEF Known, Keeps, ClaimInv, Claims, Fresh, Covers
<1> QED BY <1>1, <1>2, <1>3, MoveOK, Zenon DEF Known

LEMMA InitializeExhaustedOK ==
  ASSUME IInv, NEW t \in Callers, InitializeExhausted(t)
  PROVE  IInv'
<1> Known(t) /\ TypeOK /\ Numbers /\ t \in Threads /\ t # NoOne /\ t # Refill
  BY KnownOK, Zenon DEF Threads, Known
<1> /\ MaxId \in Nat /\ nextId \in Nat /\ nextId <= MaxId /\ leaseEnd \in Nat /\ leaseEnd <= MaxId
    /\ reserved \in Nat /\ lo[t] \in Nat
    /\ cnt[t] \in Nat /\ cur[t] \in Nat /\ arg[t] \in Nat
    /\ arg[t] <= MaxId /\ floor[t] \in Nat
  BY Zenon DEF Known, Numbers
<1> at[t] = "read_init" /\ lock = t /\ leaseEnd = 0
      /\ wal[applied] \in 0..MaxId /\ wal[applied] \in Nat /\ wal[applied] <= MaxId
  BY DEF InitializeExhausted, Known, HoldsLock, Numbers, PlaceInv
<1> /\ Moves(t)
    /\ at'[t] = "idle" /\ lo'[t] = 0 /\ cnt'[t] = 0
    /\ cur'[t] = 0 /\ arg'[t] = 0 /\ floor'[t] = 0
  BY FinishMoves, Zenon DEF InitializeExhausted
<1> Keeps(t) /\ nextId' = wal[applied] /\ lock' = NoOne
  BY Zenon DEF InitializeExhausted, Finish, Forget, Keeps, TypeOK, memory, closing, storage,
     history
<1>1. PlaceInv(t)' /\ (HoldsLock(t)' <=> lock' = t)
  BY Zenon DEF Known, Keeps, PlaceInv, HoldsLock
<1>2. ~Extending(t)' /\ ~Claims(t)'
  BY Zenon DEF Extending, Claims, Known
<1> QED BY <1>1, <1>2, MoveOK, Zenon DEF Known, ExtendInv, ClaimInv, Fresh

LEMMA EnsureCoveredOK ==
  ASSUME IInv, NEW t \in Callers, EnsureCovered(t)
  PROVE  IInv'
<1> Known(t) /\ TypeOK /\ Numbers /\ t \in Threads /\ t # NoOne /\ t # Refill
  BY KnownOK, Zenon DEF Threads, Known
<1> /\ MaxId \in Nat /\ nextId \in Nat /\ nextId <= MaxId /\ leaseEnd \in Nat /\ leaseEnd <= MaxId
    /\ reserved \in Nat /\ lo[t] \in Nat
    /\ cnt[t] \in Nat /\ cur[t] \in Nat /\ arg[t] \in Nat
    /\ arg[t] <= MaxId /\ floor[t] \in Nat
  BY Zenon DEF Known, Numbers
<1> at[t] = "lock_ensure" /\ lock = NoOne /\ nextId <= leaseEnd
  BY Zenon DEF EnsureCovered, Known
<1> /\ Moves(t)
    /\ at'[t] = "return" /\ lo'[t] = lo[t] /\ cnt'[t] = cnt[t]
    /\ cur'[t] = cur[t] /\ arg'[t] = arg[t] /\ floor'[t] = floor[t]
  BY Zenon DEF EnsureCovered, TypeOK, Places, AwaitPoints, locals, Moves, Same
<1> Keeps(t) /\ nextId' = nextId /\ lock' = lock
  BY Zenon DEF EnsureCovered, Keeps, TypeOK, memory, closing, storage, history
<1>1. PlaceInv(t)' /\ (HoldsLock(t)' <=> lock' = t)
  BY Zenon DEF Known, Keeps, PlaceInv, HoldsLock
<1>2. ExtendInv(t)'
  BY Zenon DEF Known, Keeps, ExtendInv, Extending, Covers
<1>3. ClaimInv(t)' /\ Fresh(t)
  BY DEF Known, Keeps, ClaimInv, Claims, Fresh
<1> QED BY <1>1, <1>2, <1>3, MoveOK, Zenon DEF Known

LEMMA EnsureExtendOK ==
  ASSUME IInv, NEW t \in Callers, EnsureExtend(t)
  PROVE  IInv'
<1> Known(t) /\ TypeOK /\ Numbers /\ t \in Threads /\ t # NoOne /\ t # Refill
  BY KnownOK, Zenon DEF Threads, Known
<1> /\ MaxId \in Nat /\ nextId \in Nat /\ nextId <= MaxId /\ leaseEnd \in Nat /\ leaseEnd <= MaxId
    /\ reserved \in Nat /\ lo[t] \in Nat
    /\ cnt[t] \in Nat /\ cur[t] \in Nat /\ arg[t] \in Nat
    /\ arg[t] <= MaxId /\ floor[t] \in Nat
  BY Zenon DEF Known, Numbers
<1> at[t] = "lock_ensure" /\ lock = NoOne /\ nextId > leaseEnd /\ arg[t] = 0
      /\ Covers(leaseEnd) /\ Covers(nextId)
  BY DEF EnsureExtend, Known, Numbers, ClaimInv, Claims, PlaceInv, IInv, LeaseInv
<1> /\ Moves(t)
    /\ at'[t] = "persist" /\ lo'[t] = lo[t] /\ cnt'[t] = cnt[t]
    /\ cur'[t] = leaseEnd /\ arg'[t] = arg[t] /\ floor'[t] = floor[t]
  BY Zenon DEF EnsureExtend, TypeOK, Places, AwaitPoints, locals, Moves, Same
<1> Keeps(t) /\ nextId' = nextId /\ lock' = t
  BY Zenon DEF EnsureExtend, Keeps, TypeOK, memory, closing, storage, history
<1>1. PlaceInv(t)' /\ (HoldsLock(t)' <=> lock' = t)
  BY Zenon DEF Known, Keeps, PlaceInv, HoldsLock
<1>2. ExtendInv(t)'
  BY DEF Known, Keeps, ExtendInv, Extending, Covers
<1>3. ClaimInv(t)' /\ Fresh(t)
  BY Zenon DEF Known, Keeps, ClaimInv, Claims, Fresh
<1> QED BY <1>1, <1>2, <1>3, MoveOK, Zenon DEF Known

LEMMA ReserveBeginOK ==
  ASSUME IInv, NEW t \in Callers, NEW n \in Floors, ReserveBegin(t, n)
  PROVE  IInv'
<1> Known(t) /\ TypeOK /\ Numbers /\ t \in Threads /\ t # NoOne /\ t # Refill
  BY KnownOK, Zenon DEF Threads, Known
<1> /\ MaxId \in Nat /\ nextId \in Nat /\ nextId <= MaxId /\ leaseEnd \in Nat /\ leaseEnd <= MaxId
    /\ reserved \in Nat /\ lo[t] \in Nat
    /\ cnt[t] \in Nat /\ cur[t] \in Nat /\ arg[t] \in Nat
    /\ arg[t] <= MaxId /\ floor[t] \in Nat
  BY Zenon DEF Known, Numbers
<1> at[t] = "idle"
  BY ConstantBounds, Zenon DEF ReserveBegin, Known
<1> /\ Moves(t)
    /\ at'[t] = "lock_reserve" /\ lo'[t] = lo[t] /\ cnt'[t] = cnt[t]
    /\ cur'[t] = cur[t] /\ arg'[t] = n /\ floor'[t] = floor[t]
  BY Zenon DEF ReserveBegin, TypeOK, Places, AwaitPoints, locals, Moves, Same
<1> Keeps(t) /\ nextId' = nextId /\ lock' = lock
  BY Zenon DEF ReserveBegin, Keeps, TypeOK, memory, closing, storage, history
<1>1. PlaceInv(t)' /\ (HoldsLock(t)' <=> lock' = t)
  BY ConstantBounds, Zenon DEF Known, Keeps, PlaceInv, HoldsLock
<1>2. ~Extending(t)' /\ ~Claims(t)'
  BY Zenon DEF Extending, Claims, Known
<1> QED BY <1>1, <1>2, MoveOK, Zenon DEF Known, ExtendInv, ClaimInv, Fresh

LEMMA ReserveLockOK ==
  ASSUME IInv, NEW t \in Callers, ReserveLock(t)
  PROVE  IInv'
<1> Known(t) /\ TypeOK /\ Numbers /\ t \in Threads /\ t # NoOne /\ t # Refill
  BY KnownOK, Zenon DEF Threads, Known
<1> /\ MaxId \in Nat /\ nextId \in Nat /\ nextId <= MaxId /\ leaseEnd \in Nat /\ leaseEnd <= MaxId
    /\ reserved \in Nat /\ lo[t] \in Nat
    /\ cnt[t] \in Nat /\ cur[t] \in Nat /\ arg[t] \in Nat
    /\ arg[t] <= MaxId /\ floor[t] \in Nat
  BY Zenon DEF Known, Numbers
<1> at[t] = "lock_reserve" /\ lock = NoOne
  BY Zenon DEF ReserveLock, Known
<1> /\ Moves(t)
    /\ at'[t] = "read_reserve" /\ lo'[t] = lo[t] /\ cnt'[t] = cnt[t]
    /\ cur'[t] = cur[t] /\ arg'[t] = arg[t] /\ floor'[t] = floor[t]
  BY Zenon DEF ReserveLock, TypeOK, Places, AwaitPoints, locals, Moves, Same
<1> Keeps(t) /\ nextId' = nextId /\ lock' = t
  BY Zenon DEF ReserveLock, Keeps, TypeOK, memory, closing, storage, history
<1>1. PlaceInv(t)' /\ (HoldsLock(t)' <=> lock' = t)
  BY Zenon DEF Known, Keeps, PlaceInv, HoldsLock
<1>2. ~Extending(t)' /\ ~Claims(t)'
  BY Zenon DEF Extending, Claims, Known
<1> QED BY <1>1, <1>2, MoveOK, Zenon DEF Known, ExtendInv, ClaimInv, Fresh

LEMMA ReserveRaiseOK ==
  ASSUME IInv, NEW t \in Callers, ReserveRaise(t)
  PROVE  IInv'
<1> Known(t) /\ TypeOK /\ Numbers /\ t \in Threads /\ t # NoOne /\ t # Refill
  BY KnownOK, Zenon DEF Threads, Known
<1> /\ MaxId \in Nat /\ nextId \in Nat /\ nextId <= MaxId /\ leaseEnd \in Nat /\ leaseEnd <= MaxId
    /\ reserved \in Nat /\ lo[t] \in Nat
    /\ cnt[t] \in Nat /\ cur[t] \in Nat /\ arg[t] \in Nat
    /\ arg[t] <= MaxId /\ floor[t] \in Nat
  BY Zenon DEF Known, Numbers
<1> at[t] = "read_reserve" /\ lock = t /\ arg[t] > 0
      /\ wal[applied] \in 0..MaxId /\ wal[applied] \in Nat /\ wal[applied] <= MaxId /\ leaseEnd <= wal[applied]
      /\ Covers(wal[applied])
  BY DEF ReserveRaise, Known, HoldsLock, Numbers, PlaceInv, IInv, WatermarkInv
<1> nextId' \in 0..MaxId /\ (nextId' = nextId \/ nextId' > nextId)
    /\ nextId' >= arg[t] /\ nextId' >= wal[applied]
  BY DEF ReserveRaise, Larger
<1> Covers(nextId')
  BY CoversMore DEF Numbers
<1> /\ Moves(t)
    /\ at'[t] = "check_reserve" /\ lo'[t] = lo[t] /\ cnt'[t] = cnt[t]
    /\ cur'[t] = wal[applied] /\ arg'[t] = arg[t] /\ floor'[t] = floor[t]
  BY Zenon DEF ReserveRaise, TypeOK, Places, AwaitPoints, locals, Moves, Same
<1> Keeps(t) /\ nextId' = nextId' /\ lock' = lock
  BY Zenon DEF ReserveRaise, Keeps, TypeOK, memory, closing, storage, history
<1>1. PlaceInv(t)' /\ (HoldsLock(t)' <=> lock' = t)
  BY Zenon DEF Known, Keeps, PlaceInv, HoldsLock
<1>2. ExtendInv(t)'
  BY Zenon DEF Known, Keeps, ExtendInv, Extending, Covers
<1>3. ClaimInv(t)' /\ Fresh(t)
  BY Zenon DEF Known, Keeps, ClaimInv, Claims, Fresh
<1> QED BY <1>1, <1>2, <1>3, MoveOK, Zenon DEF Known

LEMMA ReserveExtendOK ==
  ASSUME IInv, NEW t \in Callers, ReserveExtend(t)
  PROVE  IInv'
<1> Known(t) /\ TypeOK /\ Numbers /\ t \in Threads /\ t # NoOne /\ t # Refill
  BY KnownOK, Zenon DEF Threads, Known
<1> /\ MaxId \in Nat /\ nextId \in Nat /\ nextId <= MaxId /\ leaseEnd \in Nat /\ leaseEnd <= MaxId
    /\ reserved \in Nat /\ lo[t] \in Nat
    /\ cnt[t] \in Nat /\ cur[t] \in Nat /\ arg[t] \in Nat
    /\ arg[t] <= MaxId /\ floor[t] \in Nat
  BY Zenon DEF Known, Numbers
<1> at[t] = "check_reserve" /\ lock = t /\ arg[t] > 0 /\ Larger(leaseEnd, cur[t]) = cur[t]
  BY DEF ReserveExtend, Known, HoldsLock, Numbers, Larger, ExtendInv, Extending, PlaceInv
<1> /\ Moves(t)
    /\ at'[t] = "persist" /\ lo'[t] = lo[t] /\ cnt'[t] = cnt[t]
    /\ cur'[t] = Larger(leaseEnd, cur[t]) /\ arg'[t] = arg[t] /\ floor'[t] = floor[t]
  BY Zenon DEF ReserveExtend, TypeOK, Places, AwaitPoints, locals, Moves, Same
<1> Keeps(t) /\ nextId' = nextId /\ lock' = lock
  BY Zenon DEF ReserveExtend, Keeps, TypeOK, memory, closing, storage, history
<1>1. PlaceInv(t)' /\ (HoldsLock(t)' <=> lock' = t)
  BY Zenon DEF Known, Keeps, PlaceInv, HoldsLock
<1>2. ExtendInv(t)'
  BY Zenon DEF Known, Keeps, ExtendInv, Extending, Covers
<1>3. ClaimInv(t)' /\ Fresh(t)
  BY DEF Known, Keeps, ClaimInv, Claims, Fresh
<1> QED BY <1>1, <1>2, <1>3, MoveOK, Zenon DEF Known

LEMMA ReserveCoveredOK ==
  ASSUME IInv, NEW t \in Callers, ReserveCovered(t)
  PROVE  IInv'
<1> Known(t) /\ TypeOK /\ Numbers /\ t \in Threads /\ t # NoOne /\ t # Refill
  BY KnownOK, Zenon DEF Threads, Known
<1> /\ MaxId \in Nat /\ nextId \in Nat /\ nextId <= MaxId /\ leaseEnd \in Nat /\ leaseEnd <= MaxId
    /\ reserved \in Nat /\ lo[t] \in Nat
    /\ cnt[t] \in Nat /\ cur[t] \in Nat /\ arg[t] \in Nat
    /\ arg[t] <= MaxId /\ floor[t] \in Nat
  BY Zenon DEF Known, Numbers
<1> at[t] = "check_reserve" /\ lock = t /\ arg[t] <= nextId /\ nextId <= leaseEnd
  BY Zenon DEF ReserveCovered, Known, HoldsLock, Numbers, ExtendInv, Extending
<1> /\ Moves(t)
    /\ at'[t] = "reserve_ok" /\ lo'[t] = lo[t] /\ cnt'[t] = cnt[t]
    /\ cur'[t] = cur[t] /\ arg'[t] = arg[t] /\ floor'[t] = floor[t]
  BY Zenon DEF ReserveCovered, TypeOK, Places, AwaitPoints, locals, Moves, Same
<1> Keeps(t) /\ nextId' = nextId /\ lock' = NoOne
  BY Zenon DEF ReserveCovered, Keeps, TypeOK, memory, closing, storage, history
<1>1. PlaceInv(t)' /\ (HoldsLock(t)' <=> lock' = t)
  BY DEF Known, Keeps, PlaceInv, HoldsLock
<1>2. ~Extending(t)' /\ ~Claims(t)'
  BY Zenon DEF Extending, Claims, Known
<1> QED BY <1>1, <1>2, MoveOK, Zenon DEF Known, ExtendInv, ClaimInv, Fresh

LEMMA RefillNotNeededOK ==
  ASSUME IInv, RefillNotNeeded
  PROVE  IInv'
<1> Known(Refill) /\ TypeOK /\ Numbers /\ Refill \in Threads /\ Refill # NoOne
  BY KnownOK, Zenon DEF Threads, Known
<1> /\ MaxId \in Nat /\ nextId \in Nat /\ nextId <= MaxId /\ leaseEnd \in Nat /\ leaseEnd <= MaxId
    /\ reserved \in Nat /\ lo[Refill] \in Nat
    /\ cnt[Refill] \in Nat /\ cur[Refill] \in Nat /\ arg[Refill] \in Nat
    /\ arg[Refill] <= MaxId /\ floor[Refill] \in Nat
  BY Zenon DEF Known, Numbers
<1> at[Refill] = "lock_refill"
  BY Zenon DEF RefillNotNeeded, Known
<1> /\ Moves(Refill)
    /\ at'[Refill] = "drop" /\ lo'[Refill] = lo[Refill] /\ cnt'[Refill] = cnt[Refill]
    /\ cur'[Refill] = cur[Refill] /\ arg'[Refill] = arg[Refill] /\ floor'[Refill] = floor[Refill]
  BY Zenon DEF RefillNotNeeded, TypeOK, Places, AwaitPoints, locals, Moves, Same
<1> Keeps(Refill) /\ nextId' = nextId /\ lock' = lock
  BY Zenon DEF RefillNotNeeded, Keeps, TypeOK, memory, closing, storage, history
<1>1. PlaceInv(Refill)' /\ (HoldsLock(Refill)' <=> lock' = Refill)
  BY Zenon DEF Known, Keeps, PlaceInv, HoldsLock
<1>2. ~Extending(Refill)' /\ ~Claims(Refill)'
  BY Zenon DEF Extending, Claims, Known
<1> QED BY <1>1, <1>2, MoveOK, Zenon DEF Known, ExtendInv, ClaimInv, Fresh

LEMMA RefillExtendOK ==
  ASSUME IInv, RefillExtend
  PROVE  IInv'
<1> Known(Refill) /\ TypeOK /\ Numbers /\ Refill \in Threads /\ Refill # NoOne
  BY KnownOK, Zenon DEF Threads, Known
<1> /\ MaxId \in Nat /\ nextId \in Nat /\ nextId <= MaxId /\ leaseEnd \in Nat /\ leaseEnd <= MaxId
    /\ reserved \in Nat /\ lo[Refill] \in Nat
    /\ cnt[Refill] \in Nat /\ cur[Refill] \in Nat /\ arg[Refill] \in Nat
    /\ arg[Refill] <= MaxId /\ floor[Refill] \in Nat
  BY Zenon DEF Known, Numbers
<1> at[Refill] = "lock_refill" /\ lock = NoOne /\ leaseEnd > 0 /\ Covers(leaseEnd)
      /\ Covers(nextId) /\ arg[Refill] = 0
  BY Zenon DEF RefillExtend, Known, PlaceInv, IInv, LeaseInv
<1> /\ Moves(Refill)
    /\ at'[Refill] = "persist" /\ lo'[Refill] = lo[Refill] /\ cnt'[Refill] = cnt[Refill]
    /\ cur'[Refill] = leaseEnd /\ arg'[Refill] = arg[Refill] /\ floor'[Refill] = floor[Refill]
  BY Zenon DEF RefillExtend, TypeOK, Places, AwaitPoints, locals, Moves, Same
<1> Keeps(Refill) /\ nextId' = nextId /\ lock' = Refill
  BY Zenon DEF RefillExtend, Keeps, TypeOK, memory, closing, storage, history
<1>1. PlaceInv(Refill)' /\ (HoldsLock(Refill)' <=> lock' = Refill)
  BY Zenon DEF Known, Keeps, PlaceInv, HoldsLock
<1>2. ExtendInv(Refill)'
  BY DEF Known, Keeps, ExtendInv, Extending, Covers
<1>3. ClaimInv(Refill)' /\ Fresh(Refill)
  BY Zenon DEF Known, Keeps, ClaimInv, Claims, Fresh
<1> QED BY <1>1, <1>2, <1>3, MoveOK, Zenon DEF Known

LEMMA RefillFailsOK ==
  ASSUME IInv, RefillFails
  PROVE  IInv'
<1> Known(Refill) /\ TypeOK /\ Numbers /\ Refill \in Threads /\ Refill # NoOne
  BY KnownOK, Zenon DEF Threads, Known
<1> /\ MaxId \in Nat /\ nextId \in Nat /\ nextId <= MaxId /\ leaseEnd \in Nat /\ leaseEnd <= MaxId
    /\ reserved \in Nat /\ lo[Refill] \in Nat
    /\ cnt[Refill] \in Nat /\ cur[Refill] \in Nat /\ arg[Refill] \in Nat
    /\ arg[Refill] <= MaxId /\ floor[Refill] \in Nat
  BY Zenon DEF Known, Numbers
<1> at[Refill] \in {"persist", "await_put"} /\ lock = Refill
  BY Zenon DEF RefillFails, Known, HoldsLock
<1> /\ Moves(Refill)
    /\ at'[Refill] = "drop" /\ lo'[Refill] = lo[Refill] /\ cnt'[Refill] = cnt[Refill]
    /\ cur'[Refill] = cur[Refill] /\ arg'[Refill] = arg[Refill] /\ floor'[Refill] = floor[Refill]
  BY Zenon DEF RefillFails, TypeOK, Places, AwaitPoints, locals, Moves, Same
<1> Keeps(Refill) /\ nextId' = nextId /\ lock' = NoOne
  BY Zenon DEF RefillFails, Keeps, TypeOK, memory, closing, storage, history
<1>1. PlaceInv(Refill)' /\ (HoldsLock(Refill)' <=> lock' = Refill)
  BY Zenon DEF Known, Keeps, PlaceInv, HoldsLock
<1>2. ~Extending(Refill)' /\ ~Claims(Refill)'
  BY Zenon DEF Extending, Claims, Known
<1> QED BY <1>1, <1>2, MoveOK, Zenon DEF Known, ExtendInv, ClaimInv, Fresh

LEMMA AbandonOK ==
  ASSUME IInv, NEW t \in Callers, Abandon(t)
  PROVE  IInv'
<1> Known(t) /\ TypeOK /\ Numbers /\ t \in Threads /\ t # NoOne /\ t # Refill
  BY KnownOK, Zenon DEF Threads, Known
<1> /\ MaxId \in Nat /\ nextId \in Nat /\ nextId <= MaxId /\ leaseEnd \in Nat /\ leaseEnd <= MaxId
    /\ reserved \in Nat /\ lo[t] \in Nat
    /\ cnt[t] \in Nat /\ cur[t] \in Nat /\ arg[t] \in Nat
    /\ arg[t] <= MaxId /\ floor[t] \in Nat
  BY Zenon DEF Known, Numbers
<1> at[t] # "idle"
  BY Zenon DEF Abandon, Known, AwaitPoints
<1> /\ Moves(t)
    /\ at'[t] = "idle" /\ lo'[t] = 0 /\ cnt'[t] = 0
    /\ cur'[t] = 0 /\ arg'[t] = 0 /\ floor'[t] = 0
  BY FinishMoves, Zenon DEF Abandon
<1> Keeps(t) /\ nextId' = nextId /\ lock' = IF lock = t THEN NoOne ELSE lock
  BY Zenon DEF Abandon, Finish, Forget, Keeps, TypeOK, memory, closing, storage, history
<1>1. PlaceInv(t)' /\ (HoldsLock(t)' <=> lock' = t)
  BY Zenon DEF Known, Keeps, PlaceInv, HoldsLock
<1>2. ~Extending(t)' /\ ~Claims(t)'
  BY Zenon DEF Extending, Claims, Known
<1> QED BY <1>1, <1>2, MoveOK, Zenon DEF Known, ExtendInv, ClaimInv, Fresh

-----------------------------------------------------------------------------
(* Steps that write the watermark or record what is returned; close and restart. *)

LEMMA InitOK == ASSUME Init PROVE IInv
<1>1. PICK w \in InitialWatermarks : wal = <<w>>
  BY Zenon DEF Init
<1>2. w \in 0..MaxId /\ Len(wal) = 1 /\ wal[1] = w /\ wal \in Seq(0..MaxId)
  BY <1>1, NumbersAssumption
<1>3. TypeOK
  <2>1. /\ at \in [Threads -> Places] /\ lo \in [Threads -> 0..MaxId]
        /\ cnt \in [Threads -> {0} \cup Counts] /\ cur \in [Threads -> 0..MaxId]
        /\ arg \in [Threads -> {0} \cup Floors] /\ floor \in [Threads -> 0..MaxId]
    BY NumbersAssumption DEF Init, Zero, Places
  <2>2. applied \in 1..Len(wal) /\ durable \in 1..applied /\ 0 \in 0..MaxId
        /\ notifies \in 0..MaxNotifies /\ crashes \in 0..MaxCrashes
    BY <1>2, NumbersAssumption DEF Init
  <2> QED BY <1>2, <2>1, <2>2, Zenon DEF Init, TypeOK
<1>4. \A t \in Threads : at[t] = "idle" /\ arg[t] = 0
  BY Zenon DEF Init, Zero
<1>5. LockInv
  BY <1>4, ThreadsAssumption, Zenon DEF Init, LockInv, HoldsLock, Threads
<1>6. WatermarkInv /\ LeaseInv
  BY <1>2, NumbersAssumption DEF Init, WatermarkInv, LeaseInv, Covers
<1>7. \A t \in Threads : PlaceInv(t) /\ ExtendInv(t) /\ ClaimInv(t)
  BY <1>4, Zenon DEF PlaceInv, ExtendInv, ClaimInv, Extending, Claims
<1>8. DisjointInv /\ CloseInv
  BY <1>4, Zenon DEF Init, DisjointInv, CloseInv, Claims, Threads
<1> QED BY <1>3, <1>5, <1>6, <1>7, <1>8, Zenon DEF IInv

\* Steps that leave the tasks and the allocator's memory alone.
LEMMA StillOK ==
  ASSUME IInv, at' = at, locals' = locals, memory' = memory, wal' = wal, issued' = issued,
         reserved' = reserved, durable' >= durable, TypeOK', CloseInv'
  PROVE  IInv'
<1>1. Known(Refill) /\ Refill \in Threads
  BY KnownOK, Zenon DEF Threads
<1>2. /\ nextId' = nextId /\ leaseEnd' = leaseEnd /\ lock' = lock
      /\ lo' = lo /\ cnt' = cnt /\ cur' = cur /\ arg' = arg /\ floor' = floor
  BY Zenon DEF memory, locals
<1>3. PlaceInv(Refill)' /\ ExtendInv(Refill)' /\ ClaimInv(Refill)'
  BY <1>1, <1>2, Zenon DEF Known, PlaceInv, ExtendInv, ClaimInv, Extending, Claims, Covers
<1>4. (HoldsLock(Refill)' <=> lock' = Refill) /\ Fresh(Refill)
  BY <1>1, <1>2, Zenon DEF Known, HoldsLock, Fresh, Claims
<1>5. nextId' >= nextId
  BY <1>1, <1>2 DEF Known, Numbers
<1>6. Quiet(Refill)
  BY <1>2, <1>5, Zenon DEF Quiet, Same
<1> QED BY <1>1, <1>3, <1>4, <1>6, QuietOK, Zenon

LEMMA StorageOK == ASSUME IInv, StorageApply \/ StorageFlush PROVE IInv'
<1>1. TypeOK /\ CloseInv /\ durable \in Nat /\ applied \in Nat /\ Len(wal) \in Nat
  BY NumbersOK, Zenon DEF IInv, Numbers
<1>2. applied' \in 1..Len(wal) /\ durable' \in 1..applied' /\ durable' >= durable
  BY <1>1 DEF TypeOK, StorageApply, StorageFlush
<1>3. /\ at' = at /\ locals' = locals /\ memory' = memory /\ wal' = wal /\ closing' = closing
      /\ crashes' = crashes /\ issued' = issued /\ reserved' = reserved
  BY Zenon DEF StorageApply, StorageFlush, history
<1>4. TypeOK'
  BY <1>1, <1>2, <1>3, Zenon DEF TypeOK, memory, locals, closing
<1>5. CloseInv'
  BY <1>1, <1>3, Zenon DEF CloseInv, closing
<1> QED BY <1>2, <1>3, <1>4, <1>5, StillOK, Zenon

LEMMA ShutdownOK == ASSUME IInv, ShutdownBegin \/ Shutdown \/ RefillNotify PROVE IInv'
<1>1. TypeOK /\ CloseInv /\ durable \in Nat
  BY NumbersOK, Zenon DEF IInv, Numbers
<1>2. /\ at' = at /\ locals' = locals /\ memory' = memory /\ wal' = wal /\ applied' = applied
      /\ durable' = durable /\ crashes' = crashes /\ issued' = issued /\ reserved' = reserved
  BY Zenon DEF ShutdownBegin, Shutdown, ShutdownLoop, ShutdownRegister, ShutdownRecheck, ShutdownWake,
     RefillNotify, storage, history
<1>3. notifies' \in 0..MaxNotifies
  BY <1>1, NumbersAssumption DEF TypeOK, ShutdownBegin, Shutdown, ShutdownLoop, ShutdownRegister,
     ShutdownRecheck, ShutdownWake, RefillNotify
<1>4. /\ lifecycle' \in {"Idle", "InFlight", "ClosingInFlight", "Closed"} /\ woken' \in BOOLEAN
      /\ closer' \in {"none", "loop", "registering", "registered", "waiting", "done"}
  BY <1>1, Zenon DEF TypeOK, ShutdownBegin, Shutdown, ShutdownLoop, ShutdownRegister, ShutdownRecheck,
     ShutdownWake, RefillNotify
<1>5. TypeOK'
  BY <1>1, <1>2, <1>3, <1>4, Zenon DEF TypeOK, memory, locals
<1>6. CloseInv'
  BY <1>1, <1>2, Zenon DEF CloseInv, ShutdownBegin, Shutdown, ShutdownLoop, ShutdownRegister,
     ShutdownRecheck, ShutdownWake, RefillNotify
<1>7. durable' >= durable
  BY <1>1, <1>2
<1> QED BY <1>2, <1>5, <1>6, <1>7, StillOK, Zenon

LEMMA RefillDropOK == ASSUME IInv, RefillDrop PROVE IInv'
<1>1. /\ Known(Refill) /\ TypeOK /\ CloseInv /\ Refill \in Threads /\ at[Refill] = "drop"
      /\ durable \in Nat /\ nextId \in Nat
  BY KnownOK, Zenon DEF IInv, Known, Numbers, RefillDrop, Threads
<1>2. /\ Moves(Refill)
      /\ at'[Refill] = "idle" /\ lo'[Refill] = 0 /\ cnt'[Refill] = 0
      /\ cur'[Refill] = 0 /\ arg'[Refill] = 0 /\ floor'[Refill] = 0
  BY <1>1, FinishMoves, Zenon DEF RefillDrop
<1>3. /\ nextId' = nextId /\ leaseEnd' = leaseEnd /\ lock' = lock
      /\ lifecycle' = (IF lifecycle = "InFlight" THEN "Idle" ELSE "Closed")
      /\ closer' = closer /\ woken' = woken /\ wal' = wal /\ applied' = applied
      /\ durable' = durable /\ crashes' = crashes /\ issued' = issued /\ reserved' = reserved
  BY Zenon DEF RefillDrop, memory, storage, history
<1>4. notifies' \in 0..MaxNotifies
  BY <1>1, NumbersAssumption DEF RefillDrop, TypeOK
<1>5. TypeOK'
  BY <1>1, <1>2, <1>3, <1>4, Zenon DEF TypeOK, Moves
<1>6. CloseInv'
  BY <1>1, <1>2, <1>3, Zenon DEF CloseInv
<1>7. PlaceInv(Refill)' /\ (HoldsLock(Refill)' <=> lock' = Refill)
  BY <1>1, <1>2, <1>3, Zenon DEF Known, PlaceInv, HoldsLock
<1>8. ~Extending(Refill)' /\ ~Claims(Refill)'
  BY <1>2, Zenon DEF Extending, Claims
<1>9. Quiet(Refill)
  BY <1>1, <1>2, <1>3 DEF Quiet, Moves
<1> QED BY <1>1, <1>5, <1>6, <1>7, <1>8, <1>9, QuietOK, Zenon DEF ExtendInv, ClaimInv, Fresh

----------------------------------------------------------------------------
(* persist_lease_extension. *)

\* What the holder of the lock knows when it computes the new watermark.
LEMMA PersistFacts ==
  ASSUME IInv, NEW t \in Threads, at[t] = "persist"
  PROVE  LET new == ExtensionTarget(cur[t], nextId)
         IN /\ lock = t /\ new \in 0..MaxId /\ new \in Nat /\ new >= cur[t] /\ new >= nextId
            /\ leaseEnd <= new /\ Covers(new) /\ arg[t] <= new
            /\ Claims(t) => cur[t] < nextId /\ lo[t] + cnt[t] <= new
<1>1. Known(t) /\ lock = t
  BY KnownOK, Zenon DEF Known, HoldsLock
<1>2. /\ nextId \in 0..MaxId /\ nextId \in Nat /\ cur[t] \in 0..MaxId /\ cur[t] \in Nat
      /\ leaseEnd \in Nat /\ arg[t] \in Nat /\ lo[t] \in Nat /\ cnt[t] \in Nat
      /\ issued \subseteq Nat /\ reserved \in Nat
  BY <1>1, Zenon DEF Known, Numbers, TypeOK
<1>3. leaseEnd <= cur[t] /\ Covers(cur[t]) /\ arg[t] <= nextId
  BY <1>1, Zenon DEF Known, ExtendInv, Extending
<1>4. Claims(t) => cur[t] < nextId /\ lo[t] + cnt[t] <= nextId
  BY <1>1, Zenon DEF Known, ClaimInv
<1> DEFINE new == ExtensionTarget(cur[t], nextId)
<1>a. new \in 0..MaxId /\ new >= cur[t] /\ new >= nextId
  BY <1>2, TargetBounds, Zenon
<1> HIDE DEF new
<1>5. new \in 0..MaxId /\ new \in Nat /\ new >= cur[t] /\ new >= nextId
  BY <1>a, ConstantBounds
<1>6. Covers(new)
  BY <1>2, <1>3, <1>5, CoversMore, Zenon
<1>7. leaseEnd <= new /\ arg[t] <= new /\ (Claims(t) => cur[t] < nextId /\ lo[t] + cnt[t] <= new)
  BY <1>2, <1>3, <1>4, <1>5
<1> QED BY <1>1, <1>5, <1>6, <1>7, Zenon DEF new

\* An allocation claimed beyond cur, so its lease is always extended.
LEMMA PersistNothingOK ==
  ASSUME IInv, NEW t \in Threads, PersistNothing(t)
  PROVE  IInv'
<1>1. /\ Known(t) /\ TypeOK /\ t # NoOne /\ at[t] = "persist" /\ lock = t
      /\ arg[t] \in Nat /\ nextId \in Nat /\ cur[t] \in Nat /\ (t \in Callers <=> t # Refill)
  BY KnownOK, Zenon DEF Known, PersistNothing, HoldsLock, Numbers
<1>2. t = Refill \/ arg[t] > 0
  <2>1. cur[t] >= nextId /\ (Claims(t) => cur[t] < nextId)
    BY <1>1, PersistFacts, Zenon DEF PersistNothing
  <2>2. ~Claims(t)
    BY <1>1, <2>1
  <2> QED BY <1>1, <2>2 DEF Claims
<1>3. /\ Moves(t) /\ arg'[t] \in {0, arg[t]}
      /\ t = Refill => at'[t] = "drop" /\ arg'[t] = arg[t]
      /\ t # Refill => at'[t] = "idle" /\ arg'[t] = 0
  <2>1. CASE t = Refill
    <3>1. at' = [at EXCEPT ![t] = "drop"] /\ locals' = locals
      BY <2>1, Zenon DEF PersistNothing, AfterPersist
    <3> QED BY <1>1, <2>1, <3>1, Zenon DEF TypeOK, Places, locals, Moves, Same
  <2>2. CASE t # Refill
    BY <1>1, <1>2, <2>2, FinishMoves, Zenon DEF PersistNothing, AfterPersist
  <2> QED BY <2>1, <2>2, Zenon
<1>4. Keeps(t) /\ lock' = NoOne
  BY <1>1, <1>3, Zenon DEF PersistNothing, Keeps, TypeOK, memory, closing, storage, history
<1>5. PlaceInv(t)' /\ (HoldsLock(t)' <=> lock' = t)
  BY <1>1, <1>3, <1>4, Zenon DEF Known, Keeps, PlaceInv, HoldsLock
<1>6. ~Extending(t)' /\ ~Claims(t)'
  BY <1>3, Zenon DEF Extending, Claims
<1> QED BY <1>3, <1>4, <1>5, <1>6, MoveOK, Zenon DEF ExtendInv, ClaimInv, Fresh

LEMMA PersistIssueOK ==
  ASSUME IInv, NEW t \in Threads, PersistIssue(t)
  PROVE  IInv'
<1> DEFINE new == ExtensionTarget(cur[t], nextId)
<1>1. /\ Known(t) /\ TypeOK /\ CloseInv /\ at[t] = "persist" /\ lock = t /\ LeaseInv
      /\ nextId \in Nat /\ durable \in Nat /\ Len(wal) \in Nat /\ applied \in 1..Len(wal)
      /\ leaseEnd \in Nat /\ WatermarkInv /\ 1 <= durable
  BY KnownOK, Zenon DEF IInv, Known, PersistIssue, HoldsLock, Numbers, TypeOK
<1>2. /\ new \in 0..MaxId /\ new >= cur[t] /\ leaseEnd <= new /\ Covers(new) /\ arg[t] <= new
      /\ Claims(t) => lo[t] + cnt[t] <= new
  BY <1>1, PersistFacts, Zenon
<1>3. wal' = Append(wal, new) /\ at' = [at EXCEPT ![t] = "await_put"] /\ locals' = locals
  BY Zenon DEF PersistIssue
<1> HIDE DEF new
<1>4. /\ Moves(t) /\ at'[t] = "await_put" /\ lo'[t] = lo[t] /\ cnt'[t] = cnt[t]
      /\ cur'[t] = cur[t] /\ arg'[t] = arg[t] /\ floor'[t] = floor[t]
  BY <1>1, <1>3, Zenon DEF TypeOK, Places, AwaitPoints, locals, Moves, Same
<1>5. /\ nextId' = nextId /\ leaseEnd' = leaseEnd /\ lock' = lock
      /\ lifecycle' = lifecycle /\ notifies' = notifies /\ closer' = closer /\ woken' = woken
      /\ applied' = applied /\ durable' = durable /\ crashes' = crashes
      /\ issued' = issued /\ reserved' = reserved
  BY Zenon DEF PersistIssue, memory, closing, history
<1>6. /\ wal' \in Seq(0..MaxId) /\ Len(wal') = Len(wal) + 1 /\ wal'[Len(wal')] = new
      /\ \A k \in 1..Len(wal) : wal'[k] = wal[k]
  BY <1>1, <1>2, <1>3, LogAppend DEF TypeOK
<1>7. TypeOK'
  <2>1. applied \in 1..Len(wal')
    BY <1>1, <1>6
  <2> QED BY <1>1, <1>4, <1>5, <1>6, <2>1, Zenon DEF TypeOK, Moves
<1>8. WatermarkInv'
  <2>1. ASSUME NEW k \in durable..Len(wal') PROVE leaseEnd <= wal'[k] /\ Covers(wal'[k])
    <3>1. CASE k = Len(wal')
      BY <1>2, <1>6, <3>1, Zenon
    <3>2. CASE k # Len(wal')
      <4>1. k \in durable..Len(wal) /\ k \in 1..Len(wal)
        BY <1>1, <1>6, <3>2
      <4> QED BY <1>1, <1>6, <4>1, Zenon DEF WatermarkInv
    <3> QED BY <3>1, <3>2, Zenon
  <2> QED BY <1>5, <2>1, Zenon DEF WatermarkInv, Covers
<1>9. LeaseInv' /\ CloseInv'
  <2>1. at'[Refill] = "idle" <=> at[Refill] = "idle"
    BY <1>1, <1>4, Zenon DEF Moves, Same, Threads
  <2> QED BY <1>1, <1>5, <2>1, Zenon DEF LeaseInv, CloseInv, Covers
<1>10. PlaceInv(t)' /\ (HoldsLock(t)' <=> lock' = t)
  BY <1>1, <1>4, <1>5, Zenon DEF Known, PlaceInv, HoldsLock
<1>11. ExtendInv(t)'
  BY <1>1, <1>2, <1>4, <1>5, <1>6, Zenon DEF Known, ExtendInv, Extending, Covers
<1>12. Claims(t)' <=> Claims(t)
  BY <1>1, <1>4, Zenon DEF Claims
<1>13. ClaimInv(t)' /\ Fresh(t)
  BY <1>1, <1>2, <1>4, <1>5, <1>6, <1>12, Zenon DEF Known, ClaimInv, Fresh
<1>14. Quiet(t)
  BY <1>1, <1>4, <1>5, <1>8, <1>9 DEF Quiet, Moves
<1> QED BY <1>7, <1>9, <1>10, <1>11, <1>13, <1>14, QuietOK, Zenon

LEMMA PersistPublishOK ==
  ASSUME IInv, NEW t \in Threads, PersistPublish(t)
  PROVE  IInv'
<1> DEFINE new == wal[Len(wal)]
<1>1. /\ Known(t) /\ TypeOK /\ CloseInv /\ at[t] = "await_put" /\ lock = t
      /\ durable = Len(wal) /\ t # NoOne /\ (t \in Callers <=> t # Refill)
      /\ nextId \in Nat /\ Len(wal) \in Nat /\ leaseEnd \in Nat /\ arg[t] \in Nat
      /\ lo[t] \in Nat /\ cnt[t] \in Nat
  BY KnownOK, Zenon DEF IInv, Known, PersistPublish, HoldsLock, Numbers
<1>2. new \in Nat /\ new \in 0..MaxId /\ leaseEnd <= new /\ Covers(new)
  <2>1. Len(wal) \in durable..Len(wal)
    BY <1>1
  <2> QED BY <1>1, <2>1 DEF IInv, WatermarkInv, Known, Numbers
<1>3. /\ Covers(nextId) /\ arg[t] <= nextId /\ arg[t] <= new
      /\ Claims(t) => lo[t] + cnt[t] <= new /\ cnt[t] > 0
  BY <1>1, Zenon DEF Known, ExtendInv, Extending, ClaimInv
<1>4. /\ at' = [at EXCEPT ![t] = AfterPersist(t)] /\ locals' = locals
      /\ nextId' = nextId /\ leaseEnd' = new /\ lock' = NoOne
      /\ lifecycle' = lifecycle /\ notifies' = notifies /\ closer' = closer /\ woken' = woken
      /\ wal' = wal /\ applied' = applied /\ durable' = durable /\ crashes' = crashes
      /\ issued' = issued /\ reserved' = reserved
  BY Zenon DEF PersistPublish, closing, storage, history
<1> HIDE DEF new
<1>5. /\ t = Refill => AfterPersist(t) = "drop" /\ leaseEnd > 0 /\ arg[t] = 0
      /\ t # Refill /\ arg[t] > 0 => AfterPersist(t) = "reserve_ok"
      /\ t # Refill /\ arg[t] = 0 => AfterPersist(t) = "return"
      /\ AfterPersist(t) \in Places
  BY <1>1 DEF AfterPersist, Known, PlaceInv, Places
<1>6. /\ Moves(t) /\ at'[t] = AfterPersist(t) /\ lo'[t] = lo[t] /\ cnt'[t] = cnt[t]
      /\ cur'[t] = cur[t] /\ arg'[t] = arg[t] /\ floor'[t] = floor[t]
  BY <1>1, <1>4, <1>5, Zenon DEF TypeOK, locals, Moves, Same
<1>7. TypeOK'
  BY <1>1, <1>2, <1>4, <1>6, Zenon DEF TypeOK, Moves
<1>8. WatermarkInv' /\ LeaseInv'
  <2>1. \A k \in durable..Len(wal) : wal[k] = new /\ new <= wal[k]
    BY <1>1, <1>2 DEF new
  <2> QED BY <1>2, <1>3, <1>4, <2>1, Zenon DEF WatermarkInv, LeaseInv, Covers
<1>9. CloseInv'
  <2>1. at'[Refill] = "idle" <=> at[Refill] = "idle"
    BY <1>1, <1>5, <1>6, Zenon DEF Moves, Same, Threads
  <2> QED BY <1>1, <1>4, <2>1, Zenon DEF CloseInv
<1>10. (HoldsLock(t)' <=> lock' = t) /\ ~Extending(t)' /\ (Claims(t)' => Claims(t))
  BY <1>1, <1>4, <1>5, <1>6 DEF HoldsLock, Extending, Claims
<1>11. PlaceInv(t)'
  <2>1. leaseEnd > 0 => new > 0
    BY <1>1, <1>2
  <2> QED BY <1>1, <1>3, <1>4, <1>5, <1>6, <2>1 DEF PlaceInv
<1>12. ClaimInv(t)'
  <2>1. SUFFICES ASSUME Claims(t), Claims(t)' PROVE ClaimInv(t)'
    BY <1>10, Zenon DEF ClaimInv
  <2>2. lo[t] + cnt[t] <= new /\ new # 0
    BY <1>1, <1>2, <1>3, <2>1
  <2>3. at'[t] = "return"
    BY <1>1, <1>5, <1>6, <2>1, Zenon DEF Claims
  <2> QED BY <1>1, <1>4, <1>6, <2>1, <2>2, <2>3, Zenon DEF Known, ClaimInv
<1>13. Quiet(t) /\ Fresh(t) /\ ExtendInv(t)'
  <2>1. nextId' >= nextId /\ leaseEnd' >= leaseEnd
    BY <1>1, <1>2, <1>4
  <2> QED BY <1>1, <1>4, <1>6, <1>8, <1>10, <2>1, Zenon DEF Quiet, Fresh, Moves, ExtendInv
<1> QED BY <1>7, <1>9, <1>10, <1>11, <1>12, <1>13, QuietOK, Zenon

----------------------------------------------------------------------------
(* Steps that return to the caller and record what they promised. *)

Recorded(t) ==
  /\ at'[t] = "idle" /\ arg'[t] = 0
  /\ \A u \in Callers \ {t} : Same(u)
  /\ \/ Same(Refill)
     \/ at'[Refill] = "lock_refill" /\ arg'[Refill] = 0 /\ at[Refill] = "idle"
  /\ leaseEnd > 0 /\ reserved' >= reserved
  /\ nextId' = nextId /\ leaseEnd' = leaseEnd /\ lock' = lock
  /\ wal' = wal /\ durable' = durable
  /\ \A x \in Nat : leaseEnd <= x /\ Covers(x) => reserved' <= x /\ \A i \in issued' : i < x
  /\ Covers(nextId)'
  /\ \A u \in Callers \ {t} : Claims(u) =>
       \A i \in issued' : i \in issued \/ i < lo[u] \/ i >= lo[u] + cnt[u]

LEMMA RecordedOK ==
  ASSUME IInv, NEW t \in Callers, at[t] \in {"return", "reserve_ok"}, Recorded(t),
         TypeOK', CloseInv'
  PROVE  IInv'
<1>0. t \in Threads /\ t # Refill /\ Refill \in Threads /\ Refill \notin Callers
  BY ThreadsAssumption, Zenon DEF Threads
<1>1. Numbers /\ Numbers' /\ TypeOK
  BY NumbersOK, NumbersPrimed, Zenon DEF IInv
<1>a. /\ nextId' = nextId /\ leaseEnd' = leaseEnd /\ lock' = lock /\ wal' = wal /\ durable' = durable
      /\ leaseEnd > 0 /\ reserved' >= reserved /\ Covers(nextId)'
      /\ \A x \in Nat : leaseEnd <= x /\ Covers(x) => reserved' <= x /\ \A i \in issued' : i < x
  BY Zenon DEF Recorded
<1>2. ASSUME NEW u \in Threads
      PROVE  \/ Same(u) /\ u # t
             \/ u = t /\ at'[u] = "idle" /\ arg'[u] = 0
             \/ u = Refill /\ at'[u] = "lock_refill" /\ arg'[u] = 0 /\ at[u] = "idle"
  BY <1>0, Zenon DEF Recorded, Threads
<1>3. LockInv'
  <2>1. ASSUME NEW u \in Threads PROVE HoldsLock(u)' <=> lock' = u
    <3>1. HoldsLock(u) <=> lock = u
      BY Zenon DEF IInv, LockInv
    <3> QED BY <1>2, <1>a, <3>1, Zenon DEF HoldsLock, Same
  <2> QED BY <2>1, Zenon DEF LockInv
<1>4. WatermarkInv'
  <2>1. ASSUME NEW k \in durable..Len(wal) PROVE leaseEnd <= wal[k] /\ reserved' <= wal[k] /\ \A i \in issued' : i < wal[k]
    <3>1. wal[k] \in Nat /\ leaseEnd <= wal[k] /\ Covers(wal[k])
      BY <1>1, Zenon DEF Numbers, IInv, WatermarkInv
    <3> QED BY <1>a, <3>1, Zenon
  <2> QED BY <1>a, <2>1, Zenon DEF WatermarkInv, Covers
<1>5. LeaseInv'
  <2>1. leaseEnd \in Nat /\ leaseEnd <= leaseEnd /\ Covers(leaseEnd)
    BY <1>1, <1>a DEF Numbers, IInv, LeaseInv
  <2> QED BY <1>a, <2>1, Zenon DEF LeaseInv, Covers
<1>6. ASSUME NEW u \in Threads PROVE PlaceInv(u)'
  <2>1. Known(u)
    BY KnownOK, Zenon
  <2>2. floor[u] <= reserved => floor[u] <= reserved'
    BY <1>1, <1>a, <2>1 DEF Known, Numbers
  <2> QED BY <1>0, <1>2, <1>a, <2>1, <2>2, Zenon DEF Known, PlaceInv, Same
<1>7. ASSUME NEW u \in Threads PROVE ExtendInv(u)'
  <2>1. SUFFICES ASSUME Extending(u)' PROVE ExtendInv(u)'
    BY Zenon DEF ExtendInv
  <2>2. Same(u) /\ Extending(u) /\ Known(u)
    BY <1>2, <2>1, KnownOK, Zenon DEF Extending, Same
  <2>3. /\ leaseEnd <= cur[u] /\ Covers(cur[u]) /\ arg[u] <= nextId /\ cur[u] \in Nat
        /\ at[u] = "await_put" => cur[u] <= wal[Len(wal)] /\ arg[u] <= wal[Len(wal)]
    BY <2>2, Zenon DEF Known, ExtendInv
  <2>4. reserved' <= cur[u] /\ \A i \in issued' : i < cur[u]
    BY <1>a, <2>3, Zenon
  <2> QED BY <1>a, <2>2, <2>3, <2>4, Zenon DEF ExtendInv, Covers, Same
<1>8. ASSUME NEW u \in Threads, Claims(u)' PROVE Same(u) /\ Claims(u) /\ u \in Callers \ {t}
  BY <1>0, <1>2, <1>8, Zenon DEF Claims, Same
<1>9. ASSUME NEW u \in Threads PROVE ClaimInv(u)'
  <2>1. SUFFICES ASSUME Claims(u)' PROVE ClaimInv(u)'
    BY Zenon DEF ClaimInv
  <2>2. Same(u) /\ Claims(u) /\ ClaimInv(u)
    BY <1>8, <2>1, Zenon DEF IInv
  <2>3. \A i \in issued' : i \in issued \/ i < lo[u] \/ i >= lo[u] + cnt[u]
    BY <1>8, <2>1, Zenon DEF Recorded
  <2> QED BY <1>a, <2>2, <2>3, Zenon DEF ClaimInv, Same
<1>10. DisjointInv'
  BY <1>8, Zenon DEF IInv, DisjointInv, Apart, Same
<1> QED BY <1>3, <1>4, <1>5, <1>6, <1>7, <1>9, <1>10, Zenon DEF IInv

LEMMA ReserveReturnOK ==
  ASSUME IInv, NEW t \in Callers, ReserveReturn(t)
  PROVE  IInv'
<1>1. /\ Known(t) /\ TypeOK /\ CloseInv /\ Numbers /\ t \in Threads /\ t # Refill
      /\ Refill \in Threads /\ at[t] = "reserve_ok"
  BY KnownOK, ThreadsAssumption, Zenon DEF IInv, Known, ReserveReturn, Threads
<1>2. /\ arg[t] \in Nat /\ arg[t] > 0 /\ arg[t] <= leaseEnd /\ arg[t] <= nextId /\ arg[t] <= MaxId
      /\ leaseEnd \in Nat /\ reserved \in Nat /\ reserved <= MaxId /\ nextId \in Nat /\ MaxId \in Nat
      /\ LeaseInv
  BY <1>1, Zenon DEF Known, PlaceInv, Numbers, IInv
<1>3. /\ Moves(t)
      /\ at'[t] = "idle" /\ lo'[t] = 0 /\ cnt'[t] = 0
      /\ cur'[t] = 0 /\ arg'[t] = 0 /\ floor'[t] = 0
  BY <1>1, FinishMoves, Zenon DEF ReserveReturn
<1>4. /\ nextId' = nextId /\ leaseEnd' = leaseEnd /\ lock' = lock
      /\ lifecycle' = lifecycle /\ notifies' = notifies /\ closer' = closer /\ woken' = woken
      /\ wal' = wal /\ applied' = applied /\ durable' = durable /\ crashes' = crashes
      /\ issued' = issued
  BY Zenon DEF ReserveReturn, memory, closing, storage
<1>5. /\ reserved' \in 0..MaxId /\ reserved' >= reserved
      /\ reserved' = reserved \/ reserved' = arg[t]
  BY <1>2 DEF ReserveReturn, Larger
<1>6. TypeOK'
  BY <1>1, <1>3, <1>4, <1>5, Zenon DEF TypeOK, Moves
<1>7. Same(Refill) /\ (\A u \in Callers \ {t} : Same(u))
  BY <1>1, <1>3, Zenon DEF Moves, Threads
<1>8. CloseInv'
  BY <1>1, <1>4, <1>7, Zenon DEF CloseInv, Same
<1>9. leaseEnd > 0 /\ Covers(nextId)
  BY <1>2 DEF LeaseInv
<1>10. ASSUME NEW x \in Nat, leaseEnd <= x, Covers(x) PROVE reserved' <= x /\ \A i \in issued' : i < x
  <2>1. reserved <= x /\ arg[t] <= x
    BY <1>2, <1>10 DEF Covers
  <2> QED BY <1>4, <1>5, <1>10, <2>1, Zenon DEF Covers
<1>11. Covers(nextId)'
  BY <1>2, <1>4, <1>5, <1>9, Zenon DEF Covers
<1>12. Recorded(t)
  BY <1>3, <1>4, <1>5, <1>7, <1>9, <1>10, <1>11, Zenon DEF Recorded
<1> QED BY <1>1, <1>6, <1>8, <1>12, RecordedOK, Zenon

\* IDs claimed by t have been handed out: they lie below the lease and next_id,
\* and apart from what the other callers claim.
LEMMA IssuedOK ==
  ASSUME IInv, NEW t \in Callers, at[t] = "return",
         issued' = issued \cup (lo[t] .. lo[t] + cnt[t] - 1), reserved' = reserved, nextId' = nextId
  PROVE  /\ issued' \subseteq 0..MaxId /\ leaseEnd > 0
         /\ \A x \in Nat : leaseEnd <= x /\ Covers(x) => reserved' <= x /\ \A i \in issued' : i < x
         /\ Covers(nextId)'
         /\ \A u \in Callers \ {t} : Claims(u) =>
              \A i \in issued' : i \in issued \/ i < lo[u] \/ i >= lo[u] + cnt[u]
<1>1. Known(t) /\ Claims(t) /\ t \in Threads
  BY KnownOK, Zenon DEF Claims, Threads
<1>2. /\ lo[t] \in Nat /\ cnt[t] \in Nat /\ lo[t] + cnt[t] <= leaseEnd
      /\ lo[t] + cnt[t] <= nextId /\ cnt[t] > 0
      /\ leaseEnd \in Nat /\ leaseEnd <= MaxId /\ nextId \in Nat /\ MaxId \in Nat
      /\ issued \subseteq 0..MaxId /\ LeaseInv
  BY <1>1, Zenon DEF Known, ClaimInv, Numbers, TypeOK, IInv
<1>3. ASSUME NEW i \in issued'
      PROVE  \/ i \in issued
             \/ i \in Nat /\ lo[t] <= i /\ i < lo[t] + cnt[t] /\ i < leaseEnd /\ i < nextId
  BY <1>2
<1>4. issued' \subseteq 0..MaxId /\ leaseEnd > 0 /\ Covers(nextId)
  <2>1. ASSUME NEW i \in issued' PROVE i \in 0..MaxId
    <3>1. i \in issued => i \in 0..MaxId
      BY <1>2, Zenon
    <3>2. i \in Nat /\ i < leaseEnd => i \in 0..MaxId
      BY <1>2
    <3> QED BY <1>3, <2>1, <3>1, <3>2, Zenon
  <2>2. leaseEnd > 0
    BY <1>2
  <2> QED BY <1>2, <2>1, <2>2, Zenon DEF LeaseInv
<1>5. ASSUME NEW x \in Nat, leaseEnd <= x, Covers(x), NEW i \in issued' PROVE i < x
  <2>1. CASE i \in issued
    BY <1>5, <2>1, Zenon DEF Covers
  <2>2. CASE i \in Nat /\ i < leaseEnd
    BY <1>2, <1>5, <2>2
  <2> QED BY <1>3, <1>5, <2>1, <2>2, Zenon
<1>6. Covers(nextId)'
  BY <1>3, <1>4, Zenon DEF Covers
<1>7. ASSUME NEW u \in Callers \ {t}, Claims(u), NEW i \in issued'
      PROVE  i \in issued \/ i < lo[u] \/ i >= lo[u] + cnt[u]
  <2>1. Known(u) /\ Apart(t, u)
    BY <1>1, <1>7, KnownOK, Zenon DEF IInv, DisjointInv, Threads
  <2>2. lo[u] \in Nat /\ cnt[u] \in Nat
    BY <2>1, Zenon DEF Known
  <2> QED BY <1>2, <1>3, <1>7, <2>1, <2>2 DEF Apart
<1> QED BY <1>4, <1>5, <1>6, <1>7, Zenon DEF Covers

LEMMA AllocateReturnOK ==
  ASSUME IInv, NEW t \in Callers, AllocateReturn(t)
  PROVE  IInv'
<1>1. /\ TypeOK /\ CloseInv /\ t \in Threads /\ t # Refill /\ Refill \in Threads
      /\ at[t] = "return" /\ Known(t)
  BY KnownOK, ThreadsAssumption, Zenon DEF IInv, AllocateReturn, Threads
<1>2. /\ Moves(t)
      /\ at'[t] = "idle" /\ lo'[t] = 0 /\ cnt'[t] = 0
      /\ cur'[t] = 0 /\ arg'[t] = 0 /\ floor'[t] = 0
  BY <1>1, FinishMoves, Zenon DEF AllocateReturn
<1>3. /\ nextId' = nextId /\ leaseEnd' = leaseEnd /\ lock' = lock
      /\ lifecycle' = lifecycle /\ notifies' = notifies /\ closer' = closer /\ woken' = woken
      /\ wal' = wal /\ applied' = applied /\ durable' = durable /\ crashes' = crashes
      /\ reserved' = reserved /\ issued' = issued \cup (lo[t] .. lo[t] + cnt[t] - 1)
  BY Zenon DEF AllocateReturn, memory, closing, storage
<1>4. Same(Refill) /\ (\A u \in Callers \ {t} : Same(u))
  BY <1>1, <1>2, Zenon DEF Moves, Threads
<1>5. /\ issued' \subseteq 0..MaxId /\ leaseEnd > 0
      /\ \A x \in Nat : leaseEnd <= x /\ Covers(x) => reserved' <= x /\ \A i \in issued' : i < x
      /\ Covers(nextId)'
      /\ \A u \in Callers \ {t} : Claims(u) =>
           \A i \in issued' : i \in issued \/ i < lo[u] \/ i >= lo[u] + cnt[u]
  BY <1>1, <1>3, IssuedOK, Zenon
<1>6. TypeOK'
  BY <1>1, <1>2, <1>3, <1>5, Zenon DEF TypeOK, Moves
<1>7. CloseInv'
  BY <1>1, <1>3, <1>4, Zenon DEF CloseInv, Same
<1>8. reserved' >= reserved
  BY <1>1, <1>3 DEF Known, Numbers
<1>9. Recorded(t)
  BY <1>2, <1>3, <1>4, <1>5, <1>8, Zenon DEF Recorded
<1> QED BY <1>1, <1>6, <1>7, <1>9, RecordedOK, Zenon

LEMMA AllocateReturnAndRefillOK ==
  ASSUME IInv, NEW t \in Callers, AllocateReturnAndRefill(t)
  PROVE  IInv'
<1>1. /\ TypeOK /\ CloseInv /\ t \in Threads /\ t # Refill /\ Refill \in Threads
      /\ at[t] = "return" /\ Known(t) /\ Known(Refill)
  BY KnownOK, ThreadsAssumption, Zenon DEF IInv, AllocateReturnAndRefill, Threads
<1>2. at[Refill] = "idle" /\ arg[Refill] = 0
  BY <1>1, Zenon DEF AllocateReturnAndRefill, CloseInv, Known, PlaceInv
<1>3. /\ at' = [at EXCEPT ![t] = "idle", ![Refill] = "lock_refill"]
      /\ lo' = [lo EXCEPT ![t] = 0] /\ cnt' = [cnt EXCEPT ![t] = 0] /\ cur' = [cur EXCEPT ![t] = 0]
      /\ arg' = [arg EXCEPT ![t] = 0] /\ floor' = [floor EXCEPT ![t] = 0]
      /\ nextId' = nextId /\ leaseEnd' = leaseEnd /\ lock' = lock
      /\ lifecycle' = "InFlight" /\ notifies' = notifies /\ closer' = closer /\ woken' = woken
      /\ lifecycle = "Idle"
      /\ wal' = wal /\ applied' = applied /\ durable' = durable /\ crashes' = crashes
      /\ reserved' = reserved /\ issued' = issued \cup (lo[t] .. lo[t] + cnt[t] - 1)
  BY Zenon DEF AllocateReturnAndRefill, Forget, memory, storage
<1>4. /\ at' \in [Threads -> Places] /\ at'[t] = "idle" /\ at'[Refill] = "lock_refill"
      /\ \A u \in Callers \ {t} : at'[u] = at[u]
  <2> DEFINE mid == [at EXCEPT ![t] = "idle"]
  <2>1. /\ mid \in [Threads -> Places] /\ mid[t] = "idle"
        /\ \A u \in Threads \ {t} : mid[u] = at[u]
    BY <1>1, Zenon DEF TypeOK, Places
  <2>2. at' = [mid EXCEPT ![Refill] = "lock_refill"]
    BY <1>3, Zenon
  <2> HIDE DEF mid
  <2>3. \A u \in Callers : u \in Threads /\ u # Refill
    BY ThreadsAssumption, Zenon DEF Threads
  <2> QED BY <1>1, <2>1, <2>2, <2>3, Zenon DEF Places
<1>5. /\ lo' \in [Threads -> 0..MaxId] /\ cnt' \in [Threads -> {0} \cup Counts]
      /\ cur' \in [Threads -> 0..MaxId] /\ arg' \in [Threads -> {0} \cup Floors]
      /\ floor' \in [Threads -> 0..MaxId] /\ arg'[t] = 0 /\ arg'[Refill] = 0
      /\ \A u \in Callers \ {t} : Same(u)
  <2>1. 0 \in 0..MaxId
    BY ConstantBounds
  <2> QED BY <1>1, <1>2, <1>3, <1>4, <2>1, Zenon DEF TypeOK, Same, Threads
<1>6. /\ issued' \subseteq 0..MaxId /\ leaseEnd > 0
      /\ \A x \in Nat : leaseEnd <= x /\ Covers(x) => reserved' <= x /\ \A i \in issued' : i < x
      /\ Covers(nextId)'
      /\ \A u \in Callers \ {t} : Claims(u) =>
           \A i \in issued' : i \in issued \/ i < lo[u] \/ i >= lo[u] + cnt[u]
  BY <1>1, <1>3, IssuedOK, Zenon
<1>7. TypeOK'
  BY <1>1, <1>3, <1>4, <1>5, <1>6, Zenon DEF TypeOK
<1>8. CloseInv'
  BY <1>1, <1>3, <1>4, Zenon DEF CloseInv
<1>9. reserved' >= reserved
  BY <1>1, <1>3 DEF Known, Numbers
<1>10. Recorded(t)
  BY <1>2, <1>3, <1>4, <1>5, <1>6, <1>9, Zenon DEF Recorded
<1> QED BY <1>1, <1>7, <1>8, <1>10, RecordedOK, Zenon

----------------------------------------------------------------------------
LEMMA RestartOK == ASSUME IInv, Restart PROVE IInv'
<1>1. TypeOK /\ Numbers /\ WatermarkInv /\ wal \in Seq(0..MaxId)
  BY NumbersOK, Zenon DEF IInv, TypeOK
<1>2. durable \in Nat /\ 1 <= durable /\ durable <= Len(wal) /\ Len(wal) \in Nat
  BY <1>1 DEF Numbers
<1>3. wal' \in Seq(0..MaxId) /\ Len(wal') = durable /\ wal'[durable] = wal[durable]
  <2>1. wal' = SubSeq(wal, 1, durable)
    BY Zenon DEF Restart
  <2>2. \A k \in 1..Len(wal) : wal[k] \in 0..MaxId
    BY <1>1, LogElement, Zenon
  <2> QED BY <1>1, <1>2, <2>1, <2>2
<1>4. /\ nextId' = 0 /\ leaseEnd' = 0 /\ lock' = NoOne /\ at' = [t \in Threads |-> "idle"]
      /\ lo' = Zero /\ cnt' = Zero /\ cur' = Zero /\ arg' = Zero /\ floor' = Zero
      /\ lifecycle' = "Idle" /\ notifies' = 0 /\ closer' = "none" /\ woken' = FALSE
      /\ applied' = durable /\ durable' = durable /\ issued' = issued /\ reserved' = reserved
  BY Zenon DEF Restart
<1>5. crashes' \in 0..MaxCrashes /\ 0 \in 0..MaxId /\ 0 \in 0..MaxNotifies /\ durable \in 1..durable
  BY <1>1, <1>2, NumbersAssumption DEF Restart, TypeOK
<1>6. \A t \in Threads : at'[t] = "idle" /\ arg'[t] = 0
  BY <1>4, Zenon DEF Zero
<1>7. TypeOK'
  <2>1. /\ at' \in [Threads -> Places] /\ lo' \in [Threads -> 0..MaxId]
        /\ cnt' \in [Threads -> {0} \cup Counts] /\ cur' \in [Threads -> 0..MaxId]
        /\ arg' \in [Threads -> {0} \cup Floors] /\ floor' \in [Threads -> 0..MaxId]
    BY <1>4, <1>5, Zenon DEF Zero, Places
  <2> QED BY <1>1, <1>3, <1>4, <1>5, <2>1, Zenon DEF TypeOK
<1>8. LockInv'
  <2>1. \A t \in Threads : t # NoOne
    BY ThreadsAssumption, Zenon DEF Threads
  <2> QED BY <1>4, <1>6, <2>1, Zenon DEF LockInv, HoldsLock
<1>9. WatermarkInv' /\ LeaseInv'
  <2>1. Covers(wal[durable]) /\ wal[durable] \in Nat
    <3>1. durable \in durable..Len(wal)
      BY <1>2
    <3> QED BY <1>1, <3>1, Zenon DEF WatermarkInv, Numbers
  <2>2. \A k \in durable..durable : k = durable
    BY <1>2
  <2>3. 0 <= wal[durable] /\ ~(0 > 0)
    BY <2>1
  <2> QED BY <1>3, <1>4, <2>1, <2>2, <2>3, Zenon DEF WatermarkInv, LeaseInv, Covers
<1>10. \A t \in Threads : PlaceInv(t)' /\ ExtendInv(t)' /\ ClaimInv(t)'
  BY <1>6, Zenon DEF PlaceInv, ExtendInv, ClaimInv, Extending, Claims
<1>11. DisjointInv' /\ CloseInv'
  <2>1. Refill \in Threads
    BY Zenon DEF Threads
  <2> QED BY <1>4, <1>6, <2>1, Zenon DEF DisjointInv, CloseInv, Claims
<1> QED BY <1>7, <1>8, <1>9, <1>10, <1>11, Zenon DEF IInv

LEMMA StutterOK == ASSUME IInv, UNCHANGED vars PROVE IInv'
<1>1. TypeOK /\ CloseInv /\ durable \in Nat
  BY NumbersOK, Zenon DEF IInv, Numbers
<1>2. /\ at' = at /\ locals' = locals /\ memory' = memory /\ wal' = wal /\ durable' = durable
      /\ closing' = closing /\ applied' = applied /\ crashes' = crashes
      /\ issued' = issued /\ reserved' = reserved
  BY Zenon DEF vars, storage, history
<1>3. TypeOK' /\ CloseInv'
  BY <1>1, <1>2, Zenon DEF TypeOK, CloseInv, memory, locals, closing
<1>4. durable' >= durable
  BY <1>1, <1>2
<1> QED BY <1>2, <1>3, <1>4, StillOK, Zenon

\* Every step of the allocator keeps the inductive invariant.
LEMMA NextOK == ASSUME IInv, [Next]_vars PROVE IInv'
<1>1. ASSUME NEW t \in Callers, Request(t) PROVE IInv'
  <2>1. ASSUME NEW c \in Counts, AllocateExhausted(t, c) PROVE IInv'
    BY <2>1, StutterOK, Zenon DEF AllocateExhausted
  <2> QED BY <1>1, <2>1, AllocateUninitialisedOK, AllocateFastOK, ReserveBeginOK, Zenon DEF Request
<1>2. ASSUME NEW t \in Callers, LockStep(t) PROVE IInv'
  BY <1>2, InitializeLockOK, InitializedCoveredOK, InitializedExtendOK, InitializedExhaustedOK,
     EnsureCoveredOK, EnsureExtendOK, ReserveLockOK, Zenon, Zenon DEF LockStep
<1>3. ASSUME NEW t \in Threads, Step(t) PROVE IInv'
  <2>1. at[t] \in {"compare", "read_init", "read_reserve", "check_reserve", "reserve_ok",
                   "return"} => t \in Callers
    BY Zenon DEF IInv, PlaceInv, Threads
  <2>2. CASE InitializeFromStorage(t) \/ InitializeExhausted(t)
    BY <2>1, <2>2, InitializeFromStorageOK, InitializeExhaustedOK, Zenon
       DEF InitializeFromStorage, InitializeExhausted
  <2>3. CASE ReserveRaise(t) \/ ReserveExtend(t) \/ ReserveCovered(t) \/ ReserveReturn(t)
    BY <2>1, <2>3, ReserveRaiseOK, ReserveExtendOK, ReserveCoveredOK, ReserveReturnOK, Zenon
       DEF ReserveRaise, ReserveExtend, ReserveCovered, ReserveReturn
  <2>4. CASE CompareWithLease(t) \/ AllocateReturn(t) \/ AllocateReturnAndRefill(t)
    BY <2>1, <2>4, CompareWithLeaseOK, AllocateReturnOK, AllocateReturnAndRefillOK, Zenon
       DEF CompareWithLease, AllocateReturn, AllocateReturnAndRefill
  <2> QED BY <1>3, <2>2, <2>3, <2>4, PersistNothingOK, PersistIssueOK, PersistPublishOK, Zenon
          DEF Step
<1>4. CASE RefillNotNeeded \/ RefillExtend \/ RefillFails \/ RefillDrop
  BY <1>4, RefillNotNeededOK, RefillExtendOK, RefillFailsOK, RefillDropOK, Zenon
<1> QED BY <1>1, <1>2, <1>3, <1>4, AbandonOK, ShutdownOK, StorageOK, RestartOK, StutterOK, Zenon
        DEF Next

----------------------------------------------------------------------------
\* The inductive invariant holds in every reachable state.
THEOREM Invariance == Spec => []IInv
  BY InitOK, NextOK, PTL DEF Spec

\* The state keeps its types: in particular no watermark, lease or claim leaves the
\* u64 range, whatever the lease size and the threshold.
THEOREM TypeCorrect == Spec => []TypeOK
<1>1. IInv => TypeOK
  BY Zenon DEF IInv
<1> QED BY <1>1, Invariance, PTL

\* No ID is returned twice, across any number of callers, restarts, dropped futures
\* and failed writes.
THEOREM Uniqueness == Spec => []IdsAreReturnedOnce
<1>1. IInv => IdsAreReturnedOnce
  <2>1. SUFFICES ASSUME IInv, NEW t \in Callers, at[t] = "return",
                        NEW i \in lo[t] .. lo[t] + cnt[t] - 1
                 PROVE  /\ i \notin issued
                        /\ \A u \in Callers \ {t} : at[u] = "return" =>
                             i \notin lo[u] .. lo[u] + cnt[u] - 1
    BY Zenon DEF IdsAreReturnedOnce
  <2>2. t \in Threads /\ Claims(t) /\ Known(t)
    BY <2>1, KnownOK, Zenon DEF Claims, Threads
  <2>3. lo[t] \in Nat /\ cnt[t] \in Nat /\ ClaimInv(t)
    BY <2>2, Zenon DEF Known
  <2>4. i \notin issued
    BY <2>1, <2>2, <2>3 DEF ClaimInv
  <2>5. ASSUME NEW u \in Callers \ {t}, at[u] = "return"
        PROVE  i \notin lo[u] .. lo[u] + cnt[u] - 1
    <3>1. Known(u) /\ Apart(t, u)
      BY <2>1, <2>2, <2>5, KnownOK, Zenon DEF Claims, Threads, IInv, DisjointInv
    <3>2. lo[u] \in Nat /\ cnt[u] \in Nat
      BY <3>1, Zenon DEF Known
    <3> QED BY <2>3, <3>1, <3>2 DEF Apart
  <2> QED BY <2>4, <2>5, Zenon
<1> QED BY <1>1, Invariance, PTL

\* Every returned ID is below the watermark a crash would leave: what
\* initialize_and_allocate reads after a restart cannot reach back into them.
THEOREM Durability == Spec => []ReturnedIdsStayBelowWatermark
<1>1. IInv => ReturnedIdsStayBelowWatermark
  BY Zenon DEF IInv, WatermarkInv, Covers, ReturnedIdsStayBelowWatermark
<1> QED BY <1>1, Invariance, PTL

\* The lease in memory never ends above a watermark a crash can leave: what
\* persist_lease_extension publishes, its put has made durable.
THEOREM LeaseDurability == Spec => []LeaseIsDurable
<1>1. IInv => LeaseIsDurable
  BY Zenon DEF IInv, WatermarkInv, Covers, LeaseIsDurable
<1> QED BY <1>1, Invariance, PTL

\* reserve_at_least holds for every allocation that begins after it returned.
THEOREM Reservation == Spec => []ReservationHolds
<1>1. IInv => ReservationHolds
  <2>1. SUFFICES ASSUME IInv, NEW t \in Callers, at[t] = "return" PROVE lo[t] >= floor[t]
    BY Zenon DEF ReservationHolds
  <2>2. Claims(t) /\ Known(t)
    BY <2>1, KnownOK, Zenon DEF Claims, Threads
  <2>3. lo[t] \in Nat /\ floor[t] \in Nat /\ floor[t] <= lo[t]
    BY <2>2, Zenon DEF Known, ClaimInv
  <2> QED BY <2>3, Zenon
<1> QED BY <1>1, Invariance, PTL

\* shutdown() returns only when no refill runs and none can start.
THEOREM QuietAfterShutdown == Spec => []ShutdownLeavesNoRefill
<1>1. IInv => ShutdownLeavesNoRefill
  BY Zenon DEF IInv, CloseInv, ShutdownLeavesNoRefill
<1> QED BY <1>1, Invariance, PTL

============================================================================
