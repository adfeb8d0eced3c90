------------------------ MODULE IdAllocatorInvariant ------------------------
(***************************************************************************)
(* The inductive invariant of IdAllocator, what it says about the task     *)
(* that takes a step, and when a step of one task preserves it.            *)
(* IdAllocatorProofs uses it.                                              *)
(***************************************************************************)
EXTENDS IdAllocator, TLAPS

\* x is above every ID returned so far and every reservation made so far.
Covers(x) == reserved <= x /\ \A i \in issued : i < x

HoldsLock(t) == at[t] \in {"read_init", "persist", "await_put", "read_reserve", "check_reserve"}
Extending(t) == at[t] \in {"check_reserve", "persist", "await_put"}

\* The caller owns lo .. lo + cnt - 1, not returned yet.
Claims(t) ==
  /\ t \in Callers
  /\ \/ at[t] \in {"compare", "lock_ensure", "return"}
     \/ at[t] \in {"persist", "await_put"} /\ arg[t] = 0

\* extend_lock is held exactly by the task between taking and dropping its guard.
LockInv == \A t \in Threads : HoldsLock(t) <=> lock = t

\* A restart at any point, and any read, finds a watermark that covers the past.
WatermarkInv == \A k \in durable..Len(wal) : leaseEnd <= wal[k] /\ Covers(wal[k])

LeaseInv == leaseEnd > 0 => Covers(leaseEnd) /\ Covers(nextId)

\* Where the operations of a caller and of the refill task can be.
PlaceInv(t) ==
  /\ t = Refill => /\ at[t] \in {"idle", "lock_refill", "persist", "await_put", "drop"}
                   /\ at[t] # "idle" => leaseEnd > 0
                   /\ arg[t] = 0
  /\ t # Refill => at[t] \notin {"lock_refill", "drop"}
  /\ at[t] \in {"lock_init", "read_init"} => cnt[t] > 0 /\ floor[t] <= reserved /\ arg[t] = 0
  /\ at[t] = "read_init" => leaseEnd = 0
  /\ at[t] \in {"compare", "lock_ensure", "return", "idle"} => arg[t] = 0
  /\ at[t] \in {"lock_reserve", "read_reserve", "check_reserve", "reserve_ok"} => arg[t] > 0
  /\ at[t] = "reserve_ok" => arg[t] <= leaseEnd /\ arg[t] <= nextId

\* What the holder of the lock knows while it extends the lease.
ExtendInv(t) ==
  Extending(t) => /\ leaseEnd <= cur[t] /\ Covers(cur[t])
                  /\ Covers(nextId) /\ arg[t] <= nextId
                  /\ at[t] = "await_put" => cur[t] <= wal[Len(wal)] /\ arg[t] <= wal[Len(wal)]

\* A claim is new, lies below next_id, and below the lease when it is returned.
ClaimInv(t) ==
  Claims(t) => /\ cnt[t] > 0
               /\ lo[t] + cnt[t] <= nextId
               /\ floor[t] <= lo[t]
               /\ \A i \in issued : i < lo[t] \/ i >= lo[t] + cnt[t]
               /\ leaseEnd = 0 => lock = t
               /\ at[t] = "persist" => cur[t] < nextId
               /\ at[t] = "await_put" => lo[t] + cnt[t] <= wal[Len(wal)]
               /\ at[t] = "return" => lo[t] + cnt[t] <= leaseEnd

Apart(t, u) == lo[t] + cnt[t] <= lo[u] \/ lo[u] + cnt[u] <= lo[t]

DisjointInv == \A t, u \in Threads : t # u /\ Claims(t) /\ Claims(u) => Apart(t, u)

\* The refill lifecycle tells whether the refill task exists.
CloseInv ==
  /\ at[Refill] # "idle" <=> lifecycle \in {"InFlight", "ClosingInFlight"}
  /\ closer = "done" => lifecycle = "Closed"

IInv ==
  /\ TypeOK
  /\ LockInv /\ WatermarkInv /\ LeaseInv
  /\ \A t \in Threads : PlaceInv(t) /\ ExtendInv(t) /\ ClaimInv(t)
  /\ DisjointInv /\ CloseInv

----------------------------------------------------------------------------
(* Arithmetic and sequences *)

LEMMA TargetBounds ==
  ASSUME NEW c \in 0..MaxId, NEW n \in 0..MaxId
  PROVE  /\ ExtensionTarget(c, n) \in 0..MaxId
         /\ ExtensionTarget(c, n) >= c
         /\ ExtensionTarget(c, n) >= n
<1> DEFINE desired == SaturatingAdd(n, RefillThreshold)
           missing == desired - c
           chunks == IF missing = 0 THEN 1 ELSE (missing + LeaseSize - 1) \div LeaseSize
<1>1. desired \in 0..MaxId /\ desired >= n
  BY NumbersAssumption DEF SaturatingAdd
<1>2. CASE desired < c
  BY <1>1, <1>2 DEF ExtensionTarget
<1>3. CASE desired >= c
  <2>1. missing \in Nat
    BY <1>1, <1>3
  <2>2. chunks \in Nat
    <3> HIDE DEF missing
    <3> QED BY <2>1, NumbersAssumption
  <2> DEFINE added == chunks * LeaseSize
  <2>3. added \in Nat
    <3> HIDE DEF chunks
    <3> QED BY <2>2, NumbersAssumption
  <2>4. SaturatingAdd(c, added) \in 0..MaxId
    <3> HIDE DEF added
    <3> QED BY <2>3, NumbersAssumption DEF SaturatingAdd
  <2>5. ExtensionTarget(c, n) = Larger(SaturatingAdd(c, added), desired)
    BY <1>1, <1>3 DEF ExtensionTarget
  <2> HIDE DEF added, desired
  <2> QED BY <1>1, <1>3, <2>4, <2>5, NumbersAssumption DEF Larger
<1> QED BY <1>1, <1>2, <1>3

LEMMA LogElement ==
  ASSUME NEW S, NEW s \in Seq(S), NEW n \in 1..Len(s)
  PROVE  s[n] \in S
  OBVIOUS

LEMMA LogAppend ==
  ASSUME NEW S, NEW s \in Seq(S), NEW e \in S
  PROVE  /\ Append(s, e) \in Seq(S) /\ Len(Append(s, e)) = Len(s) + 1
         /\ \A k \in 1..Len(s) : Append(s, e)[k] = s[k]
         /\ Append(s, e)[Len(s) + 1] = e
  OBVIOUS

LEMMA ConstantBounds ==
  /\ MaxId \in Nat /\ MaxNotifies \in Nat /\ MaxCrashes \in Nat
  /\ \A x \in Counts : x \in Nat /\ x > 0
  /\ \A x \in {0} \cup Counts : x \in Nat
  /\ \A x \in Floors : x \in Nat /\ x > 0 /\ x <= MaxId
  /\ \A x \in {0} \cup Floors : x \in Nat /\ x <= MaxId
<1>1. /\ MaxId \in Nat /\ \A x \in Counts : x \in Nat \ {0}
      /\ \A x \in Floors : x \in 1..MaxId
  BY NumbersAssumption, Zenon
<1> QED BY <1>1, NumbersAssumption

LEMMA CoversMore ==
  ASSUME issued \subseteq Nat, reserved \in Nat, NEW a \in Nat, NEW b \in Nat, a <= b, Covers(a)
  PROVE  Covers(b)
BY DEF Covers

----------------------------------------------------------------------------
(* What the invariant says. *)

\* The numbers in a state.
Numbers ==
  /\ MaxId \in Nat /\ nextId \in Nat /\ nextId <= MaxId /\ leaseEnd \in Nat /\ leaseEnd <= MaxId
  /\ reserved \in Nat /\ reserved <= MaxId /\ issued \subseteq Nat
  /\ durable \in Nat /\ applied \in Nat /\ Len(wal) \in Nat
  /\ 1 <= durable /\ durable <= applied /\ applied <= Len(wal)
  /\ \A k \in durable..Len(wal) : wal[k] \in Nat /\ wal[k] <= MaxId

LEMMA NumbersOK == TypeOK => Numbers
<1>1. SUFFICES ASSUME TypeOK PROVE Numbers
  BY Zenon
<1>2. wal \in Seq(0..MaxId) /\ Len(wal) \in Nat /\ MaxId \in Nat
  BY <1>1, ConstantBounds DEF TypeOK
<1>3. \A k \in 1..Len(wal) : wal[k] \in 0..MaxId
  BY <1>2, LogElement, Zenon
<1>4. /\ nextId \in 0..MaxId /\ leaseEnd \in 0..MaxId /\ reserved \in 0..MaxId
      /\ applied \in 1..Len(wal) /\ durable \in 1..applied /\ issued \subseteq 0..MaxId
  BY <1>1, Zenon DEF TypeOK
<1> QED BY <1>2, <1>3, <1>4 DEF Numbers

\* What a task that takes a step can rely on.
Known(t) ==
  /\ TypeOK /\ Numbers
  /\ t \in Threads /\ t # NoOne /\ (t \in Callers <=> t # Refill)
  /\ lo[t] \in Nat /\ cnt[t] \in Nat /\ cur[t] \in Nat /\ cur[t] <= MaxId
  /\ arg[t] \in Nat /\ arg[t] <= MaxId /\ floor[t] \in Nat
  /\ HoldsLock(t) <=> lock = t
  /\ PlaceInv(t) /\ ExtendInv(t) /\ ClaimInv(t)

LEMMA KnownOK == ASSUME IInv, NEW t \in Threads PROVE Known(t)
<1>1. TypeOK /\ Numbers /\ (HoldsLock(t) <=> lock = t) /\ PlaceInv(t) /\ ExtendInv(t) /\ ClaimInv(t)
  BY NumbersOK, Zenon DEF IInv, LockInv
<1>2. t # NoOne /\ (t \in Callers <=> t # Refill)
  BY ThreadsAssumption, Zenon DEF Threads
<1>3. /\ lo[t] \in 0..MaxId /\ cnt[t] \in {0} \cup Counts /\ cur[t] \in 0..MaxId
      /\ arg[t] \in {0} \cup Floors /\ floor[t] \in 0..MaxId
  BY <1>1, Zenon DEF TypeOK
<1>4. /\ lo[t] \in Nat /\ cnt[t] \in Nat /\ cur[t] \in Nat /\ cur[t] <= MaxId
      /\ arg[t] \in Nat /\ arg[t] <= MaxId /\ floor[t] \in Nat
  BY <1>3, ConstantBounds
<1> QED BY <1>1, <1>2, <1>4, Zenon DEF Known

----------------------------------------------------------------------------
(* Steps of one task. *)

Same(u) ==
  /\ at'[u] = at[u] /\ lo'[u] = lo[u] /\ cnt'[u] = cnt[u] /\ cur'[u] = cur[u]
  /\ arg'[u] = arg[u] /\ floor'[u] = floor[u]

\* A step of t that leaves the history alone.  It publishes a lease only under the
\* lock, writes no watermark, and moves next_id back only while it initialises.
Quiet(t) ==
  /\ \A u \in Threads \ {t} : Same(u)
  /\ issued' = issued /\ reserved' = reserved
  /\ \/ leaseEnd' = leaseEnd /\ wal' = wal /\ durable' >= durable
     \/ lock = t /\ WatermarkInv' /\ LeaseInv' /\ leaseEnd' >= leaseEnd
  /\ nextId' >= nextId \/ (leaseEnd = 0 /\ lock = t)
  /\ lock' = lock \/ (lock \in {t, NoOne} /\ lock' \in {t, NoOne})

\* The claim t has after the step is the one it had, or is above all others.
Fresh(t) ==
  Claims(t)' => \/ Claims(t) /\ lo'[t] = lo[t] /\ cnt'[t] = cnt[t]
                \/ lo'[t] >= nextId
                \/ leaseEnd = 0 /\ lock = t

LEMMA NumbersPrimed == TypeOK' => Numbers'
  BY NumbersOK, PTL

\* No other task holds the lock if t does, and none has a claim while t initialises.
LEMMA InitialisingAlone ==
  ASSUME IInv, NEW t \in Threads, leaseEnd = 0, lock = t, NEW u \in Threads \ {t}
  PROVE  /\ ~HoldsLock(u) /\ ~Claims(u) /\ at[u] # "reserve_ok" /\ (u = Refill => at[u] = "idle")
         /\ Known(u)
<1>1. Known(u)
  BY KnownOK, Zenon
<1> QED BY <1>1 DEF Known, ClaimInv, PlaceInv, Numbers

\* A quiet step of t keeps what the invariant says of another task.
LEMMA OtherPlace ==
  ASSUME IInv, NEW t \in Threads, Quiet(t), TypeOK', NEW u \in Threads \ {t}
  PROVE  PlaceInv(u)'
<1>1. Known(u) /\ Same(u) /\ reserved' = reserved
  BY KnownOK, Zenon DEF Quiet
<1>2. CASE leaseEnd = 0 /\ lock = t
  <2>1. ~HoldsLock(u) /\ at[u] # "reserve_ok" /\ (u = Refill => at[u] = "idle")
    BY <1>2, InitialisingAlone, Zenon
  <2> QED BY <1>1, <2>1, Zenon DEF Known, PlaceInv, Same, HoldsLock
<1>3. CASE nextId' >= nextId
  <2>1. arg[u] \in Nat /\ leaseEnd \in Nat /\ leaseEnd' \in Nat /\ nextId \in Nat /\ nextId' \in Nat
    BY <1>1, NumbersPrimed, Zenon DEF Known, Numbers
  <2>2. leaseEnd' >= leaseEnd /\ (at[u] = "read_init" => leaseEnd' = leaseEnd)
    BY <1>1, <2>1 DEF Quiet, Known, HoldsLock
  <2>3. /\ (arg[u] <= leaseEnd => arg[u] <= leaseEnd') /\ (arg[u] <= nextId => arg[u] <= nextId')
        /\ (leaseEnd > 0 => leaseEnd' > 0)
    BY <1>3, <2>1, <2>2
  <2> QED BY <1>1, <2>2, <2>3, Zenon DEF Known, PlaceInv, Same
<1> QED BY <1>2, <1>3, Zenon DEF Quiet

LEMMA OtherExtend ==
  ASSUME IInv, NEW t \in Threads, Quiet(t), TypeOK', NEW u \in Threads \ {t}
  PROVE  ExtendInv(u)'
<1>1. Known(u) /\ Same(u) /\ issued' = issued /\ reserved' = reserved
  BY KnownOK, Zenon DEF Quiet
<1>2. SUFFICES ASSUME Extending(u) PROVE ExtendInv(u)'
  BY <1>1, Zenon DEF ExtendInv, Extending, Same
<1>3. leaseEnd' = leaseEnd /\ wal' = wal /\ nextId' >= nextId
  BY <1>1, <1>2, Zenon DEF Quiet, Known, HoldsLock, Extending
<1>4. /\ leaseEnd <= cur[u] /\ Covers(cur[u]) /\ Covers(nextId) /\ arg[u] <= nextId
      /\ at[u] = "await_put" => cur[u] <= wal[Len(wal)] /\ arg[u] <= wal[Len(wal)]
  BY <1>1, <1>2, Zenon DEF Known, ExtendInv
<1>5. /\ nextId \in Nat /\ nextId' \in Nat /\ issued \subseteq Nat /\ reserved \in Nat
      /\ arg[u] \in Nat
  BY <1>1, NumbersPrimed, Zenon DEF Known, Numbers
<1>6. Covers(nextId)' /\ arg[u] <= nextId'
  <2>1. reserved <= nextId' /\ arg[u] <= nextId'
    BY <1>3, <1>4, <1>5 DEF Covers
  <2>2. ASSUME NEW i \in issued PROVE i < nextId'
    BY <1>3, <1>4, <1>5 DEF Covers
  <2> QED BY <1>1, <2>1, <2>2, Zenon DEF Covers
<1> QED BY <1>1, <1>3, <1>4, <1>6, Zenon DEF ExtendInv, Covers, Same

LEMMA OtherClaim ==
  ASSUME IInv, NEW t \in Threads, Quiet(t), TypeOK', NEW u \in Threads \ {t}
  PROVE  ClaimInv(u)'
<1>1. Known(u) /\ Same(u) /\ issued' = issued /\ (lock = u => lock' = u)
  BY KnownOK, Zenon DEF Quiet, Known
<1>2. SUFFICES ASSUME Claims(u) PROVE ClaimInv(u)'
  BY <1>1, Zenon DEF ClaimInv, Claims, Same
<1>3. nextId' >= nextId /\ ~(leaseEnd = 0 /\ lock = t)
  BY <1>2, InitialisingAlone, Zenon DEF Quiet
<1>4. /\ leaseEnd \in Nat /\ leaseEnd' \in Nat /\ nextId \in Nat /\ nextId' \in Nat
      /\ lo[u] \in Nat /\ cnt[u] \in Nat /\ cur[u] \in Nat
  BY <1>1, NumbersPrimed, Zenon DEF Known, Numbers
<1>5. leaseEnd' >= leaseEnd /\ (at[u] = "await_put" => wal' = wal)
  BY <1>1, <1>4 DEF Quiet, Known, HoldsLock
<1>6. /\ lo[u] + cnt[u] <= nextId => lo[u] + cnt[u] <= nextId'
      /\ cur[u] < nextId => cur[u] < nextId'
      /\ lo[u] + cnt[u] <= leaseEnd => lo[u] + cnt[u] <= leaseEnd'
      /\ leaseEnd' = 0 => leaseEnd = 0
  BY <1>3, <1>4, <1>5
<1>7. ClaimInv(u)
  BY <1>1, Zenon DEF Known
<1> QED BY <1>1, <1>2, <1>5, <1>6, <1>7, Zenon DEF ClaimInv, Same

LEMMA QuietDisjoint ==
  ASSUME IInv, NEW t \in Threads, Quiet(t), Fresh(t), TypeOK'
  PROVE  DisjointInv'
<1>1. ASSUME NEW u \in Threads \ {t}, Claims(u)'
      PROVE  Known(u) /\ Same(u) /\ Claims(u) /\ lo[u] + cnt[u] <= nextId
  <2>1. Known(u) /\ Same(u)
    BY KnownOK, Zenon DEF Quiet
  <2> QED BY <1>1, <2>1, Zenon DEF Known, Same, Claims, ClaimInv
<1>2. ASSUME NEW u \in Threads \ {t}, Claims(u)', Claims(t)' PROVE Apart(t, u)' /\ Apart(u, t)'
  <2>1. /\ Claims(u) /\ lo[u] \in Nat /\ cnt[u] \in Nat /\ nextId \in Nat
        /\ lo'[u] = lo[u] /\ cnt'[u] = cnt[u] /\ lo[u] + cnt[u] <= nextId
    BY <1>1, <1>2, Zenon DEF Known, Same, Numbers
  <2>2. CASE lo'[t] >= nextId
    <3>1. lo'[t] \in Nat
      BY ConstantBounds DEF TypeOK
    <3> QED BY <2>1, <2>2, <3>1 DEF Apart
  <2>3. CASE Claims(t) /\ lo'[t] = lo[t] /\ cnt'[t] = cnt[t]
    <3>1. Apart(t, u) /\ Apart(u, t)
      BY <2>1, <2>3, Zenon DEF IInv, DisjointInv
    <3> QED BY <2>1, <2>3, <3>1, Zenon DEF Apart
  <2>4. CASE leaseEnd = 0 /\ lock = t
    BY <2>1, <2>4, InitialisingAlone, Zenon
  <2> QED BY <1>2, <2>2, <2>3, <2>4, Zenon DEF Fresh
<1>3. ASSUME NEW u \in Threads \ {t}, NEW v \in Threads \ {t}, u # v, Claims(u)', Claims(v)'
      PROVE  Apart(u, v)'
  BY <1>1, <1>3, Zenon DEF IInv, DisjointInv, Apart, Same
<1> QED BY <1>2, <1>3, Zenon DEF DisjointInv

\* After a quiet step of t only t itself needs a look.
LEMMA QuietOK ==
  ASSUME IInv, NEW t \in Threads, Quiet(t), Fresh(t), TypeOK', CloseInv',
         HoldsLock(t)' <=> lock' = t, PlaceInv(t)', ExtendInv(t)', ClaimInv(t)'
  PROVE  IInv'
<1>1. LockInv'
  BY ThreadsAssumption DEF IInv, Quiet, Same, LockInv, HoldsLock, Threads
<1>2. Numbers /\ Numbers'
  BY NumbersOK, NumbersPrimed, Zenon DEF IInv
<1>3. CASE leaseEnd' = leaseEnd /\ wal' = wal /\ durable' >= durable
  <2>1. WatermarkInv'
    BY <1>2, <1>3 DEF IInv, Quiet, WatermarkInv, Covers, Numbers
  <2>2. LeaseInv'
    <3>1. nextId' >= nextId \/ leaseEnd = 0
      BY Zenon DEF Quiet
    <3>2. leaseEnd > 0 /\ Covers(nextId) => Covers(nextId)'
      BY <1>2, <3>1 DEF Quiet, Covers, Numbers
    <3> QED BY <1>3, <3>2, Zenon DEF IInv, Quiet, LeaseInv, Covers
  <2> QED BY <1>1, <2>1, <2>2, OtherPlace, OtherExtend, OtherClaim, QuietDisjoint, Zenon DEF IInv
<1>4. CASE WatermarkInv' /\ LeaseInv'
  BY <1>1, <1>4, OtherPlace, OtherExtend, OtherClaim, QuietDisjoint, Zenon DEF IInv
<1> QED BY <1>3, <1>4, Zenon DEF Quiet

----------------------------------------------------------------------------
(* Steps that move one task and neither write the log nor return an ID. *)

\* The variables of the tasks keep their types, and only those of t change.
Moves(t) ==
  /\ at' \in [Threads -> Places] /\ lo' \in [Threads -> 0..MaxId]
  /\ cnt' \in [Threads -> {0} \cup Counts] /\ cur' \in [Threads -> 0..MaxId]
  /\ arg' \in [Threads -> {0} \cup Floors] /\ floor' \in [Threads -> 0..MaxId]
  /\ \A u \in Threads \ {t} : Same(u)

\* Of the rest only next_id and the holder of the lock change: next_id never
\* falls under a lease, and t takes or releases the lock for itself.
Keeps(t) ==
  /\ nextId' \in 0..MaxId /\ (nextId' = nextId \/ nextId' > nextId \/ (leaseEnd = 0 /\ lock = t))
  /\ lock' = lock \/ (lock \in {t, NoOne} /\ lock' \in {t, NoOne})
  /\ t = Refill => (at'[t] = "idle" <=> at[t] = "idle")
  /\ leaseEnd' = leaseEnd /\ wal' = wal /\ applied' = applied /\ durable' = durable
  /\ lifecycle' = lifecycle /\ notifies' = notifies /\ closer' = closer /\ woken' = woken
  /\ crashes' = crashes /\ issued' = issued /\ reserved' = reserved

LEMMA MoveOK ==
  ASSUME IInv, NEW t \in Threads, Moves(t), Keeps(t),
         HoldsLock(t)' <=> lock' = t, PlaceInv(t)', ExtendInv(t)', ClaimInv(t)', Fresh(t)
  PROVE  IInv'
<1>0. TypeOK /\ CloseInv /\ durable \in Nat
  BY NumbersOK, Zenon DEF IInv, Numbers
<1>1. TypeOK'
  <2>1. lock' \in Threads \cup {NoOne}
    BY <1>0, Zenon DEF TypeOK, Keeps
  <2> QED BY <1>0, <2>1, Zenon DEF TypeOK, Moves, Keeps
<1>2. at'[Refill] = "idle" <=> at[Refill] = "idle"
  BY Zenon DEF Moves, Keeps, Same, Threads
<1>3. CloseInv'
  BY <1>0, <1>2, Zenon DEF CloseInv, Keeps
<1>4. Quiet(t)
  <2>1. nextId' >= nextId \/ (leaseEnd = 0 /\ lock = t)
    BY <1>0, <1>1 DEF Keeps, TypeOK
  <2> QED BY <1>0, <2>1 DEF Quiet, Moves, Keeps
<1> QED BY <1>1, <1>3, <1>4, QuietOK, Zenon

============================================================================
