-------------------------- MODULE ScopeGatesProofs --------------------------
(***************************************************************************)
(* Proofs about ScopeGates, for any sets of requests and DROP callers, a   *)
(* writer or a reader, and any bounds.                                     *)
(*                                                                         *)
(* The gates are what makes the cached catalog exact: IInv says who holds  *)
(* which gate at every place of the code, and what a request that holds    *)
(* one may therefore rely on.                                              *)
(***************************************************************************)
EXTENDS ScopeGates, TLAPS

\* BOOLEAN under a name of its own, which no prover has to look into.
Flag == BOOLEAN

IndexRecord == [state : {"Absent", "Building", "Active", "Aborting", "Dropping", "Dropped"},
                gen : Nat, stage : {"none", "scan", "catchup", "activate"}]
Observation == Nat \cup {Unverified}
LocalRecord == [observed : Observation, snap : Nat, plan : Nat, base : IndexRecord,
                retries : Nat, detached : Flag]
CacheRecord == [active : Nat, seen : Observation]
Place == {"idle", "catalog", "repair", "repairing", "view", "lookup", "refresh", "reuse", "load",
          "planned", "mutation", "begin", "opened", "writing", "commit", "done", "attempt",
          "advance", "unlock", "step", "unfence"}

LockType == held \in [Locks -> SUBSET Procs] /\ queue \in [Locks -> Seq(Procs)]
ProcessType == pc \in [Procs -> Place] /\ local \in [Procs -> LocalRecord]
DataType ==
  /\ version \in Nat /\ epoch \in Nat /\ index \in IndexRecord /\ cache \in CacheRecord
  /\ written \subseteq Requests

TypeOK == LockType /\ ProcessType /\ DataType

-----------------------------------------------------------------------------
(* The gates. *)

\* A gate has one holder, or several that share it.
Exclusion == \A l \in Locks : \A p, q \in held[l] : p = q \/ (Shared(l, p) /\ Shared(l, q))

\* The places at which a process holds a gate.
HoldsCatalog(p) ==
  \/ p \in Requests /\ pc[p] \in {"repair", "repairing", "view", "lookup", "refresh", "reuse",
                                  "load", "planned", "mutation", "begin", "opened"}
  \/ p \in Drops /\ pc[p] \in {"attempt", "commit", "advance", "unlock"}
  \/ p = Worker /\ \/ pc[p] \in {"advance", "unlock"}
                   \/ pc[p] \in {"mutation", "step"} /\ local[p].base.stage = "activate"

HoldsMutation(p) ==
  \/ p \in Requests /\ pc[p] \in {"begin", "opened", "writing", "commit"}
  \/ p = Worker /\ \/ pc[p] \in {"advance", "unlock"}
                   \/ pc[p] = "step" /\ local[p].base.stage # "scan"

HoldsRefresh(p) ==
  \/ p \in Requests /\ pc[p] \in {"repairing", "reuse", "load"}
  \/ p = Refresher /\ pc[p] \in {"view", "load"}

\* A step that took no fence and one that did both end at "unfence".
Holder(p) ==
  /\ p \in held["catalog"] <=> HoldsCatalog(p)
  /\ p \in held["refresh"] <=> HoldsRefresh(p)
  /\ HoldsMutation(p) => p \in held["mutation"]
  /\ p \in held["mutation"] => HoldsMutation(p) \/ (p = Worker /\ pc[p] = "unfence")

Holders == \A p \in Procs : Holder(p)

\* The gates a lifecycle step still has to take.
StepGates ==
  /\ pc[Worker] = "catalog" => local[Worker].base.stage = "activate"
  /\ pc[Worker] = "mutation" => local[Worker].base.stage # "scan"

Distinct(s) == \A i, j \in 1 .. Len(s) : s[i] = s[j] => i = j

Wants(p, l) ==
  \/ l = "catalog" /\ pc[p] = "catalog"
  \/ l = "refresh" /\ pc[p] \in {"repair", "refresh"}
  \/ l = "mutation" /\ pc[p] = "mutation"

\* A process is in one queue at most, once, and waits where it stands.
Queues ==
  \A l \in Locks : /\ Distinct(queue[l])
                   /\ \A p \in Procs : Contains(queue[l], p) => Wants(p, l)

-----------------------------------------------------------------------------
(* What the gates protect. *)

\* A reader changes nothing.
ReaderInv ==
  reader => /\ index.state = "Absent" /\ pc[Worker] = "idle" /\ \A d \in Drops : pc[d] = "idle"
            /\ \A r \in Requests : pc[r] \notin {"mutation", "begin", "opened", "writing", "commit"}

Planning == {"lookup", "refresh", "reuse", "load"}

\* What a request plans under is what it would see now, on a reader what its
\* view shows.
ObservedAt(r) ==
  /\ ~reader /\ pc[r] \in {"repair", "repairing", "view"} \cup Planning => local[r].observed = version
  /\ ~reader /\ pc[r] \in Planning => local[r].snap = epoch
  /\ reader /\ pc[r] \in Planning => local[r].observed = local[r].snap

\* What a recheck found reusable stays so while the refresh gate is held.
ReuseAt(r) == pc[r] = "reuse" => Reusable(local[r].observed)

\* A catalog published at a version is the Active set of that version, once
\* the change that made the version has released the gate.
Changing == \E p \in Drops \cup {Worker} : pc[p] = "advance"
CacheInv ==
  cache.seen # Unverified =>
    /\ reader => cache.active = cache.seen
    /\ ~reader => cache.seen <= version
    /\ ~reader /\ cache.seen = version /\ ~Changing => cache.active = epoch

\* A plan is current until its transaction opens, and then until a DROP takes
\* away the index it was opened under.
PlanAt(r) ==
  /\ ~reader /\ pc[r] \in {"planned", "mutation", "begin"} => local[r].plan = epoch
  /\ pc[r] \in {"opened", "writing", "commit"} =>
       \/ local[r].plan = epoch /\ (index.state = "Active" => local[r].base.state = "Active")
       \/ local[r].base.state = "Active" /\ index.state # "Active"

GateInv == TypeOK /\ Exclusion /\ Holders /\ StepGates /\ Queues
CatalogInv ==
  ReaderInv /\ CacheInv /\ \A r \in Requests : ObservedAt(r) /\ ReuseAt(r) /\ PlanAt(r)
IInv == GateInv /\ CatalogInv

-----------------------------------------------------------------------------
(* Queues. *)

LEMMA AppendQueue ==
  ASSUME NEW S, NEW s \in Seq(S), NEW e \in S, Distinct(s), ~Contains(s, e)
  PROVE  /\ Append(s, e) \in Seq(S) /\ Distinct(Append(s, e))
         /\ \A x \in S : Contains(Append(s, e), x) <=> Contains(s, x) \/ x = e
<1>1. /\ Append(s, e) \in Seq(S) /\ Len(Append(s, e)) = Len(s) + 1 /\ Len(s) \in Nat
      /\ \A i \in 1 .. Len(s) : Append(s, e)[i] = s[i]
      /\ Append(s, e)[Len(s) + 1] = e
  OBVIOUS
<1> DEFINE t == Append(s, e)
<1> HIDE DEF t
<1>2. Distinct(t)
  BY <1>1 DEF Distinct, Contains, t
<1>3. \A x \in S : Contains(t, x) <=> Contains(s, x) \/ x = e
  BY <1>1 DEF Contains, t
<1>4. QED
  BY <1>1, <1>2, <1>3, Zenon DEF t

LEMMA TailQueue ==
  ASSUME NEW S, NEW s \in Seq(S), s # <<>>, Distinct(s)
  PROVE  /\ Tail(s) \in Seq(S) /\ Distinct(Tail(s)) /\ Head(s) \in S /\ Contains(s, Head(s))
         /\ \A x \in S : Contains(Tail(s), x) <=> Contains(s, x) /\ x # Head(s)
<1>1. /\ Tail(s) \in Seq(S) /\ Len(Tail(s)) = Len(s) - 1 /\ Len(s) \in Nat /\ Len(s) # 0
      /\ \A i \in 1 .. Len(Tail(s)) : Tail(s)[i] = s[i + 1]
      /\ Head(s) \in S /\ Head(s) = s[1]
  OBVIOUS
<1> DEFINE t == Tail(s)
<1> HIDE DEF t
<1>2. Distinct(t)
  BY <1>1 DEF Distinct, t
<1>3. ASSUME NEW x \in S, Contains(t, x)  PROVE Contains(s, x) /\ x # s[1]
  BY <1>1, <1>3 DEF Contains, Distinct, t
<1>4. ASSUME NEW x \in S, Contains(s, x), x # s[1]  PROVE Contains(t, x)
  <2>1. PICK i \in 1 .. Len(s) : s[i] = x /\ i # 1
    BY <1>4, Zenon DEF Contains
  <2>2. i - 1 \in 1 .. Len(t) /\ t[i - 1] = s[i]
    BY <1>1, <2>1 DEF t
  <2>3. QED
    BY <2>1, <2>2, Zenon DEF Contains
<1>5. QED
  BY <1>1, <1>2, <1>3, <1>4 DEF t, Contains

LEMMA RemoveQueue ==
  ASSUME NEW S, NEW s \in Seq(S), NEW e, Distinct(s)
  PROVE  /\ Without(s, e) \in Seq(S) /\ Distinct(Without(s, e))
         /\ \A x \in S : Contains(Without(s, e), x) <=> Contains(s, x) /\ x # e
<1>0. Len(s) \in Nat /\ \A i \in 1 .. Len(s) : s[i] \in S
  OBVIOUS
<1>1. CASE ~Contains(s, e)
  BY <1>1, Zenon DEF Without, Contains
<1>2. CASE Contains(s, e)
  <2> DEFINE k == CHOOSE i \in 1 .. Len(s) : s[i] = e
             t == [i \in 1 .. Len(s) - 1 |-> IF i < k THEN s[i] ELSE s[i + 1]]
  <2>1. PICK j \in 1 .. Len(s) : s[j] = e
    BY <1>2, Zenon DEF Contains
  <2>2. k \in 1 .. Len(s) /\ s[k] = e
    BY <2>1, Zenon
  <2>3. k = j
    BY <2>1, <2>2, Zenon DEF Distinct
  <2>4. Without(s, e) = t
    BY <1>2, Zenon DEF Without
  <2> HIDE DEF k
  <2>5. t \in Seq(S) /\ Len(t) = Len(s) - 1
    BY <1>0, <2>1, <2>3
  <2>6. \A i \in 1 .. Len(s) - 1 : t[i] = IF i < k THEN s[i] ELSE s[i + 1]
    BY Zenon
  <2> HIDE DEF t
  <2>7. Distinct(t)
    BY <1>0, <2>1, <2>3, <2>5, <2>6 DEF Distinct
  <2>8. ASSUME NEW x \in S, Contains(t, x)  PROVE Contains(s, x) /\ x # e
    BY <1>0, <2>1, <2>3, <2>5, <2>6, <2>8 DEF Distinct, Contains
  <2>9. ASSUME NEW x \in S, Contains(s, x), x # e  PROVE Contains(t, x)
    <3>1. PICK i \in 1 .. Len(s) : s[i] = x /\ i # k
      BY <2>9, <2>1, <2>3, Zenon DEF Contains
    <3>2. CASE i < k
      BY <3>1, <3>2, <1>0, <2>1, <2>3, <2>5, <2>6 DEF Contains
    <3>3. CASE i > k
      <4>1. i - 1 \in 1 .. Len(t) /\ t[i - 1] = s[i]
        BY <3>1, <3>3, <1>0, <2>1, <2>3, <2>5, <2>6
      <4>2. QED
        BY <4>1, <3>1, Zenon DEF Contains
    <3>4. QED
      BY <3>1, <3>2, <3>3, <2>3, <2>1
  <2>10. QED
    BY <2>4, <2>5, <2>7, <2>8, <2>9, Zenon
<1>3. QED
  BY <1>1, <1>2, Zenon

-----------------------------------------------------------------------------
(* A step of one process. *)

\* A process that does not wait.
Awake(p) == pc[p] \notin {"catalog", "repair", "refresh", "mutation"}

\* What a step of p leaves alone.
Moved(p) ==
  \A q \in Procs \ {p} :
    /\ pc'[q] = pc[q] /\ local'[q] = local[q]
    /\ \A l \in Locks : q \in held'[l] <=> q \in held[l]

LEMMA Kinds ==
  /\ \A r \in Requests : r \in Procs /\ r \notin Drops /\ r # Worker /\ r # Refresher
  /\ \A d \in Drops : d \in Procs /\ d \notin Requests /\ d # Worker /\ d # Refresher
  /\ Worker \in Procs /\ Worker \notin Requests /\ Worker \notin Drops /\ Worker # Refresher
  /\ Refresher \in Procs /\ Refresher \notin Requests /\ Refresher \notin Drops
BY ScopeGatesAssumption, Zenon DEF Procs

LEMMA LockNames == "catalog" \in Locks /\ "mutation" \in Locks /\ "refresh" \in Locks
BY Zenon DEF Locks

LEMMA WantsOne ==
  ASSUME NEW p \in Procs, NEW l \in Locks, NEW m \in Locks, Wants(p, l), Wants(p, m)
  PROVE  l = m /\ ~Awake(p)
BY Zenon DEF Wants, Awake

(* Only a holder that shares the gate is joined.                            *)
LEMMA AcquireGate ==
  ASSUME LockType, Exclusion, Queues, NEW l \in Locks, NEW p \in Procs, Acquire(l, p)
  PROVE  /\ LockType' /\ Exclusion' /\ Contains(queue[l], p)
         /\ held'[l] = held[l] \cup {p} /\ \A m \in Locks \ {l} : held'[m] = held[m]
         /\ \A m \in Locks : Distinct(queue'[m])
         /\ \A m \in Locks : \A q \in Procs :
              Contains(queue'[m], q) => Contains(queue[m], q) /\ (m = l => q # p)
<1>1. /\ held'[l] = held[l] \cup {p} /\ \A m \in Locks \ {l} : held'[m] = held[m]
      /\ held' \in [Locks -> SUBSET Procs]
  BY Zenon DEF Acquire, LockType
<1>2. /\ queue'[l] = Tail(queue[l]) /\ \A m \in Locks \ {l} : queue'[m] = queue[m]
      /\ DOMAIN queue' = Locks /\ queue' = [m \in Locks |-> queue'[m]]
      /\ queue[l] \in Seq(Procs) /\ queue[l] # <<>> /\ Head(queue[l]) = p
  BY Zenon DEF Acquire, LockType, Admits
<1>3. PICK s \in Seq(Procs) : s = queue[l]
  BY <1>2, Zenon
<1>4. /\ Tail(s) \in Seq(Procs) /\ Distinct(Tail(s)) /\ Contains(s, p)
      /\ \A x \in Procs : Contains(Tail(s), x) <=> Contains(s, x) /\ x # p
  BY <1>2, <1>3, TailQueue, Zenon DEF Queues
<1>5. LockType'
  <2>1. \A m \in Locks : queue'[m] \in Seq(Procs)
    BY <1>2, <1>3, <1>4, Zenon DEF LockType
  <2>2. QED
    BY <1>1, <1>2, <2>1, Zenon DEF LockType
<1>6. Exclusion'
  <2> SUFFICES ASSUME NEW m \in Locks, NEW a \in held'[m], NEW b \in held'[m], a # b
               PROVE  Shared(m, a) /\ Shared(m, b)
    BY Zenon DEF Exclusion, Shared
  <2>1. CASE m # l \/ (a \in held[m] /\ b \in held[m])
    BY <1>1, <2>1, Zenon DEF Exclusion
  <2>2. CASE m = l /\ (a = p \/ b = p)
    <3>1. Shared(l, p) /\ \A q \in held[l] : Shared(l, q)
      BY <1>1, <2>2, Zenon DEF Acquire, Admits
    <3>2. QED
      BY <1>1, <2>2, <3>1, Zenon
  <2>3. QED
    BY <1>1, <2>1, <2>2, Zenon
<1>7. ASSUME NEW m \in Locks
      PROVE  /\ Distinct(queue'[m])
             /\ \A q \in Procs : Contains(queue'[m], q) => Contains(queue[m], q) /\ (m = l => q # p)
  <2>1. CASE m = l
    BY <1>2, <1>3, <1>4, <2>1, Zenon
  <2>2. CASE m # l
    BY <1>2, <2>2, Zenon DEF Queues
  <2>3. QED
    BY <2>1, <2>2, Zenon
<1>8. QED
  BY <1>1, <1>3, <1>4, <1>5, <1>6, <1>7, Zenon

LEMMA LockStep ==
  ASSUME LockType, Exclusion, Queues, NEW p \in Procs, \A q \in Procs \ {p} : pc'[q] = pc[q],
         \/ \E l \in Locks : Acquire(l, p)
         \/ Awake(p) /\ UNCHANGED queue /\ (UNCHANGED held \/ \E l \in Locks : Release(l, p))
  PROVE  /\ LockType' /\ Exclusion' /\ Queues'
         /\ \A q \in Procs \ {p} : \A l \in Locks : q \in held'[l] <=> q \in held[l]
<1>1. ASSUME NEW l \in Locks, Acquire(l, p)
      PROVE  /\ LockType' /\ Exclusion' /\ Queues'
             /\ \A q \in Procs \ {p} : \A m \in Locks : q \in held'[m] <=> q \in held[m]
  <2>1. /\ LockType' /\ Exclusion' /\ Contains(queue[l], p)
        /\ held'[l] = held[l] \cup {p} /\ \A m \in Locks \ {l} : held'[m] = held[m]
        /\ \A m \in Locks : Distinct(queue'[m])
        /\ \A m \in Locks : \A q \in Procs :
             Contains(queue'[m], q) => Contains(queue[m], q) /\ (m = l => q # p)
    BY <1>1, AcquireGate, Zenon
  <2>2. ASSUME NEW m \in Locks, NEW q \in Procs, Contains(queue'[m], q)  PROVE Wants(q, m)'
    <3>1. Wants(q, m) /\ Wants(p, l) /\ (m = l => q # p)
      BY <2>1, <2>2, Zenon DEF Queues
    <3>2. q # p
      BY <3>1, WantsOne
    <3>3. QED
      BY <3>1, <3>2, Zenon DEF Wants
  <2>3. QED
    BY <2>1, <2>2, Zenon DEF Queues
<1>2. ASSUME Awake(p), UNCHANGED queue, UNCHANGED held \/ \E l \in Locks : Release(l, p)
      PROVE  /\ LockType' /\ Exclusion' /\ Queues'
             /\ \A q \in Procs \ {p} : \A m \in Locks : q \in held'[m] <=> q \in held[m]
  <2>1. /\ held' \in [Locks -> SUBSET Procs]
        /\ \A m \in Locks : held'[m] \subseteq held[m] /\ held[m] \ {p} \subseteq held'[m]
    BY <1>2, Zenon DEF Release, LockType
  <2>2. LockType' /\ Exclusion'
    BY <1>2, <2>1, Zenon DEF LockType, Exclusion, Shared
  <2>3. ASSUME NEW m \in Locks, NEW q \in Procs, Contains(queue'[m], q)  PROVE Wants(q, m)'
    <3>1. Wants(q, m) /\ q # p
      BY <1>2, <2>3, WantsOne, Zenon DEF Queues
    <3>2. QED
      BY <3>1, Zenon DEF Wants
  <2>4. QED
    BY <1>2, <2>1, <2>2, <2>3, Zenon DEF Queues
<1>3. QED
  BY <1>1, <1>2, Zenon

LEMMA GateStep ==
  ASSUME GateInv, NEW p \in Procs, TypeOK', Exclusion', Queues', Moved(p), Holder(p)',
         p = Worker => StepGates'
  PROVE  GateInv'
<1>1. ASSUME NEW q \in Procs, q # p  PROVE Holder(q)'
  BY <1>1, LockNames DEF GateInv, Holders, Holder, HoldsCatalog, HoldsMutation, HoldsRefresh, Moved
<1>2. ASSUME p # Worker  PROVE StepGates'
  BY <1>2, Kinds, Zenon DEF GateInv, StepGates, Moved
<1>3. QED
  BY <1>1, <1>2, Zenon DEF GateInv, Holders

-----------------------------------------------------------------------------
(* What a process remembers. *)

LEMMA FlagType == TRUE \in Flag /\ FALSE \in Flag
BY Zenon DEF Flag

LEMMA BlankType ==
  /\ NoIndex \in IndexRecord /\ NoIndex.stage = "none" /\ NoIndex.state = "Absent"
  /\ Blank \in LocalRecord /\ Blank.observed = Unverified /\ Blank.base = NoIndex
  /\ Blank.snap = 0 /\ Blank.plan = 0
<1>1. NoIndex \in IndexRecord /\ NoIndex.stage = "none" /\ NoIndex.state = "Absent"
  BY Zenon DEF NoIndex, IndexRecord
<1>2. Blank \in LocalRecord
  BY <1>1, FlagType, Zenon DEF Blank, LocalRecord, Observation
<1>3. QED
  BY <1>1, <1>2, Zenon DEF Blank

LEMMA LocalFields ==
  ASSUME NEW l \in LocalRecord
  PROVE  /\ l.observed \in Observation /\ l.snap \in Nat /\ l.plan \in Nat
         /\ l.base \in IndexRecord /\ l.retries \in Nat /\ l.detached \in Flag
BY Zenon DEF LocalRecord

LEMMA WithObserved ==
  ASSUME NEW l \in LocalRecord, NEW v \in Observation
  PROVE  LET m == [l EXCEPT !.observed = v] IN
         m \in LocalRecord /\ m.observed = v /\ m.snap = l.snap /\ m.plan = l.plan /\ m.base = l.base
BY Zenon DEF LocalRecord

LEMMA WithSnap ==
  ASSUME NEW l \in LocalRecord, NEW v \in Nat
  PROVE  LET m == [l EXCEPT !.snap = v] IN
         m \in LocalRecord /\ m.snap = v /\ m.observed = l.observed /\ m.plan = l.plan /\ m.base = l.base
BY Zenon DEF LocalRecord

LEMMA WithPlan ==
  ASSUME NEW l \in LocalRecord, NEW v \in Nat
  PROVE  LET m == [l EXCEPT !.plan = v] IN
         m \in LocalRecord /\ m.plan = v /\ m.observed = l.observed /\ m.snap = l.snap /\ m.base = l.base
BY Zenon DEF LocalRecord

LEMMA WithBase ==
  ASSUME NEW l \in LocalRecord, NEW v \in IndexRecord
  PROVE  LET m == [l EXCEPT !.base = v] IN
         m \in LocalRecord /\ m.base = v /\ m.observed = l.observed /\ m.snap = l.snap /\ m.plan = l.plan
BY Zenon DEF LocalRecord

LEMMA WithRetries ==
  ASSUME NEW l \in LocalRecord, NEW v \in Nat
  PROVE  LET m == [l EXCEPT !.retries = v] IN
         m \in LocalRecord /\ m.observed = l.observed /\ m.snap = l.snap /\ m.plan = l.plan /\ m.base = l.base
BY Zenon DEF LocalRecord

LEMMA WithDetached ==
  ASSUME NEW l \in LocalRecord, NEW v \in Flag
  PROVE  LET m == [l EXCEPT !.detached = v] IN
         m \in LocalRecord /\ m.observed = l.observed /\ m.snap = l.snap /\ m.plan = l.plan /\ m.base = l.base
BY Zenon DEF LocalRecord

\* A step of p changes what p remembers and nothing of the others.
Only(p) ==
  ProcessType' /\ \A q \in Procs \ {p} : pc'[q] = pc[q] /\ local'[q] = local[q]

LEMMA OnlyMoves ==
  ASSUME GateInv, NEW p \in Procs, Only(p), DataType', Holder(p)', p = Worker => StepGates',
         \/ \E l \in Locks : Acquire(l, p)
         \/ Awake(p) /\ UNCHANGED queue /\ (UNCHANGED held \/ \E l \in Locks : Release(l, p))
  PROVE  GateInv' /\ Moved(p)
<1>1. /\ LockType' /\ Exclusion' /\ Queues'
      /\ \A q \in Procs \ {p} : \A l \in Locks : q \in held'[l] <=> q \in held[l]
  BY LockStep, Zenon DEF GateInv, TypeOK, Only
<1>2. Moved(p) /\ TypeOK'
  BY <1>1, Zenon DEF Moved, Only, TypeOK
<1>3. QED
  BY <1>1, <1>2, GateStep, Zenon

-----------------------------------------------------------------------------
(* Requests and their gates. *)

LEMMA GrantCatalogGates ==
  ASSUME GateInv, NEW r \in Requests, GrantCatalog(r)
  PROVE  /\ GateInv' /\ Moved(r) /\ pc'[r] \in {"view", "repair"}
         /\ local'[r].observed = version /\ UNCHANGED data
<1>1. pc[r] = "catalog" /\ pc'[r] \in {"view", "repair"} /\ UNCHANGED data /\ r \in Procs
  BY Kinds, Zenon DEF GateInv, TypeOK, ProcessType, GrantCatalog, Go
<1>2. [local[r] EXCEPT !.observed = version] \in LocalRecord
      /\ [local[r] EXCEPT !.observed = version].observed = version
  BY <1>1, WithObserved DEF GateInv, TypeOK, ProcessType, DataType, Observation
<1>3. Only(r) /\ local'[r].observed = version
  BY <1>1, <1>2, Zenon DEF GateInv, TypeOK, ProcessType, GrantCatalog, Go, Keep, Only, Place
<1>4. DataType'
  BY <1>1, Zenon DEF GateInv, TypeOK, DataType, data
<1>5. Holder(r)
  BY <1>1, Zenon DEF GateInv, Holders
<1>6. Holder(r)'
  BY <1>1, <1>5, Kinds, LockNames, Zenon DEF Holder, HoldsCatalog, HoldsMutation, HoldsRefresh, GateInv, TypeOK,
     LockType, GrantCatalog, Acquire, Locks
<1>7. QED
  BY <1>1, <1>3, <1>4, <1>6, Kinds, LockNames, OnlyMoves, Zenon DEF GrantCatalog

LEMMA BeginRequestGates ==
  ASSUME GateInv, NEW r \in Requests, BeginRequest(r)
  PROVE  /\ GateInv' /\ Moved(r) /\ pc[r] = "idle" /\ pc'[r] = "catalog"
         /\ UNCHANGED <<local, data>>
<1>1. pc[r] = "idle" /\ pc'[r] = "catalog" /\ r \in Procs
  BY Kinds, Zenon DEF GateInv, TypeOK, ProcessType, BeginRequest, Go
<1>2. Only(r) /\ UNCHANGED <<local, data>>
  BY <1>1, Zenon DEF GateInv, TypeOK, ProcessType, BeginRequest, Go, Only, Place
<1>3. DataType'
  BY <1>1, <1>2, Zenon DEF GateInv, TypeOK, DataType, data
<1>4. Holder(r)
  BY <1>1, Zenon DEF GateInv, Holders
<1>5. Holder(r)'
  BY <1>1, <1>2, <1>4, Kinds, LockNames, Zenon DEF Holder, HoldsCatalog, HoldsMutation, HoldsRefresh, GateInv, TypeOK,
     LockType, BeginRequest, locks, Locks
<1>6. QED
  BY <1>1, <1>2, <1>3, <1>5, Kinds, LockNames, OnlyMoves, Zenon DEF BeginRequest, locks, Awake

LEMMA RepairBeginsGates ==
  ASSUME GateInv, NEW r \in Requests, RepairBegins(r)
  PROVE  /\ GateInv' /\ Moved(r) /\ pc[r] = "repair" /\ pc'[r] = "repairing"
         /\ UNCHANGED <<local, data>>
<1>1. pc[r] = "repair" /\ pc'[r] = "repairing" /\ r \in Procs
  BY Kinds, Zenon DEF GateInv, TypeOK, ProcessType, RepairBegins, Go
<1>2. Only(r) /\ UNCHANGED <<local, data>>
  BY <1>1, Zenon DEF GateInv, TypeOK, ProcessType, RepairBegins, Go, Only, Place
<1>3. DataType'
  BY <1>1, <1>2, Zenon DEF GateInv, TypeOK, DataType, data
<1>4. Holder(r)
  BY <1>1, Zenon DEF GateInv, Holders
<1>5. Holder(r)'
  BY <1>1, <1>2, <1>4, Kinds, LockNames, Zenon DEF Holder, HoldsCatalog, HoldsMutation, HoldsRefresh, GateInv, TypeOK,
     LockType, RepairBegins, Acquire, Locks
<1>6. QED
  BY <1>1, <1>2, <1>3, <1>5, Kinds, LockNames, OnlyMoves, Zenon DEF RepairBegins

LEMMA RepairEndsGates ==
  ASSUME GateInv, NEW r \in Requests, RepairEnds(r)
  PROVE  /\ GateInv' /\ Moved(r) /\ pc[r] = "repairing" /\ pc'[r] = "view"
         /\ UNCHANGED <<local, version, index, epoch, cache, written>>
<1>1. pc[r] = "repairing" /\ pc'[r] = "view" /\ r \in Procs
  BY Kinds, Zenon DEF GateInv, TypeOK, ProcessType, RepairEnds, Go
<1>2. Only(r) /\ UNCHANGED <<local, version, index, epoch, cache, written>>
  BY <1>1, Zenon DEF GateInv, TypeOK, ProcessType, RepairEnds, Go, Only, Place
<1>3. DataType'
  BY <1>1, <1>2, Zenon DEF GateInv, TypeOK, DataType, data
<1>4. Holder(r)
  BY <1>1, Zenon DEF GateInv, Holders
<1>5. Holder(r)'
  BY <1>1, <1>2, <1>4, Kinds, LockNames, Zenon DEF Holder, HoldsCatalog, HoldsMutation, HoldsRefresh, GateInv, TypeOK,
     LockType, RepairEnds, Release, Locks
<1>6. QED
  BY <1>1, <1>2, <1>3, <1>5, Kinds, LockNames, OnlyMoves, ZenonT(60) DEF RepairEnds, Release, Awake

LEMMA RecheckGates ==
  ASSUME GateInv, NEW r \in Requests, Recheck(r)
  PROVE  /\ GateInv' /\ Moved(r) /\ pc[r] = "refresh" /\ pc'[r] \in {"reuse", "load"}
         /\ UNCHANGED <<local, data>>
<1>1. pc[r] = "refresh" /\ pc'[r] \in {"reuse", "load"} /\ r \in Procs
  BY Kinds, Zenon DEF GateInv, TypeOK, ProcessType, Recheck, Go
<1>2. Only(r) /\ UNCHANGED <<local, data>>
  BY <1>1, Zenon DEF GateInv, TypeOK, ProcessType, Recheck, Go, Only, Place
<1>3. DataType'
  BY <1>1, <1>2, Zenon DEF GateInv, TypeOK, DataType, data
<1>4. Holder(r)
  BY <1>1, Zenon DEF GateInv, Holders
<1>5. Holder(r)'
  BY <1>1, <1>2, <1>4, Kinds, LockNames, Zenon DEF Holder, HoldsCatalog, HoldsMutation, HoldsRefresh, GateInv, TypeOK,
     LockType, Recheck, Acquire, Locks
<1>6. QED
  BY <1>1, <1>2, <1>3, <1>5, Kinds, LockNames, OnlyMoves, Zenon DEF Recheck

LEMMA BeginWriteGates ==
  ASSUME GateInv, NEW r \in Requests, BeginWrite(r)
  PROVE  /\ GateInv' /\ Moved(r) /\ pc[r] = "planned" /\ pc'[r] = "mutation"
         /\ UNCHANGED <<local, data>> /\ ~reader
<1>1. pc[r] = "planned" /\ pc'[r] = "mutation" /\ r \in Procs
  BY Kinds, Zenon DEF GateInv, TypeOK, ProcessType, BeginWrite, Go
<1>2. Only(r) /\ UNCHANGED <<local, data>> /\ ~reader
  BY <1>1, Zenon DEF GateInv, TypeOK, ProcessType, BeginWrite, Go, Only, Place
<1>3. DataType'
  BY <1>1, <1>2, Zenon DEF GateInv, TypeOK, DataType, data
<1>4. Holder(r)
  BY <1>1, Zenon DEF GateInv, Holders
<1>5. Holder(r)'
  BY <1>1, <1>2, <1>4, Kinds, LockNames, Zenon DEF Holder, HoldsCatalog, HoldsMutation, HoldsRefresh, GateInv, TypeOK,
     LockType, BeginWrite, locks, Locks
<1>6. QED
  BY <1>1, <1>2, <1>3, <1>5, Kinds, LockNames, OnlyMoves, Zenon DEF BeginWrite, locks, Awake

LEMMA GrantMutationGates ==
  ASSUME GateInv, NEW r \in Requests, GrantMutation(r)
  PROVE  /\ GateInv' /\ Moved(r) /\ pc[r] = "mutation" /\ pc'[r] = "begin"
         /\ UNCHANGED <<local, data>>
<1>1. pc[r] = "mutation" /\ pc'[r] = "begin" /\ r \in Procs
  BY Kinds, Zenon DEF GateInv, TypeOK, ProcessType, GrantMutation, Go
<1>2. Only(r) /\ UNCHANGED <<local, data>>
  BY <1>1, Zenon DEF GateInv, TypeOK, ProcessType, GrantMutation, Go, Only, Place
<1>3. DataType'
  BY <1>1, <1>2, Zenon DEF GateInv, TypeOK, DataType, data
<1>4. Holder(r)
  BY <1>1, Zenon DEF GateInv, Holders
<1>5. Holder(r)'
  BY <1>1, <1>2, <1>4, Kinds, LockNames, Zenon DEF Holder, HoldsCatalog, HoldsMutation, HoldsRefresh, GateInv, TypeOK,
     LockType, GrantMutation, Acquire, Locks
<1>6. QED
  BY <1>1, <1>2, <1>3, <1>5, Kinds, LockNames, OnlyMoves, Zenon DEF GrantMutation

LEMMA DropCatalogPermitGates ==
  ASSUME GateInv, NEW r \in Requests, DropCatalogPermit(r)
  PROVE  /\ GateInv' /\ Moved(r) /\ pc[r] = "opened" /\ pc'[r] = "writing"
         /\ UNCHANGED <<local, data>>
<1>1. pc[r] = "opened" /\ pc'[r] = "writing" /\ r \in Procs
  BY Kinds, Zenon DEF GateInv, TypeOK, ProcessType, DropCatalogPermit, Go
<1>2. Only(r) /\ UNCHANGED <<local, data>>
  BY <1>1, Zenon DEF GateInv, TypeOK, ProcessType, DropCatalogPermit, Go, Only, Place
<1>3. DataType'
  BY <1>1, <1>2, Zenon DEF GateInv, TypeOK, DataType, data
<1>4. Holder(r)
  BY <1>1, Zenon DEF GateInv, Holders
<1>5. Holder(r)'
  BY <1>1, <1>2, <1>4, Kinds, LockNames, Zenon DEF Holder, HoldsCatalog, HoldsMutation, HoldsRefresh, GateInv, TypeOK,
     LockType, DropCatalogPermit, Release, Locks
<1>6. QED
  BY <1>1, <1>2, <1>3, <1>5, Kinds, LockNames, OnlyMoves, ZenonT(60) DEF DropCatalogPermit, Release, Awake

LEMMA BeginCommitGates ==
  ASSUME GateInv, NEW r \in Requests, BeginCommit(r)
  PROVE  /\ GateInv' /\ Moved(r) /\ pc[r] = "writing" /\ pc'[r] = "commit"
         /\ UNCHANGED <<local, data>>
<1>1. pc[r] = "writing" /\ pc'[r] = "commit" /\ r \in Procs
  BY Kinds, Zenon DEF GateInv, TypeOK, ProcessType, BeginCommit, Go
<1>2. Only(r) /\ UNCHANGED <<local, data>>
  BY <1>1, Zenon DEF GateInv, TypeOK, ProcessType, BeginCommit, Go, Only, Place
<1>3. DataType'
  BY <1>1, <1>2, Zenon DEF GateInv, TypeOK, DataType, data
<1>4. Holder(r)
  BY <1>1, Zenon DEF GateInv, Holders
<1>5. Holder(r)'
  BY <1>1, <1>2, <1>4, Kinds, LockNames, Zenon DEF Holder, HoldsCatalog, HoldsMutation, HoldsRefresh, GateInv, TypeOK,
     LockType, BeginCommit, locks, Locks
<1>6. QED
  BY <1>1, <1>2, <1>3, <1>5, Kinds, LockNames, OnlyMoves, Zenon DEF BeginCommit, locks, Awake

LEMMA EndReadGates ==
  ASSUME GateInv, NEW r \in Requests, EndRead(r)
  PROVE  /\ GateInv' /\ Moved(r) /\ pc[r] = "planned" /\ pc'[r] = "done"
         /\ UNCHANGED data
<1>1. pc[r] = "planned" /\ pc'[r] = "done" /\ r \in Procs
  BY Kinds, Zenon DEF GateInv, TypeOK, ProcessType, EndRead, Go
<1>2. Only(r) /\ UNCHANGED data
  BY <1>1, BlankType, Zenon DEF GateInv, TypeOK, ProcessType, EndRead, Go, Keep, Only, Place
<1>3. DataType'
  BY <1>1, <1>2, Zenon DEF GateInv, TypeOK, DataType, data
<1>4. Holder(r)
  BY <1>1, Zenon DEF GateInv, Holders
<1>5. Holder(r)'
  BY <1>1, <1>2, <1>4, Kinds, LockNames, Zenon DEF Holder, HoldsCatalog, HoldsMutation, HoldsRefresh, GateInv, TypeOK,
     LockType, EndRead, Release, Locks
<1>6. QED
  BY <1>1, <1>2, <1>3, <1>5, Kinds, LockNames, OnlyMoves, ZenonT(60) DEF EndRead, Release, Awake

LEMMA CommitGates ==
  ASSUME GateInv, NEW r \in Requests, Commit(r)
  PROVE  /\ GateInv' /\ Moved(r) /\ pc[r] = "commit" /\ pc'[r] = "done"
         /\ UNCHANGED <<version, index, epoch, cache, repaired>>
<1>1. pc[r] = "commit" /\ pc'[r] = "done" /\ r \in Procs
  BY Kinds, Zenon DEF GateInv, TypeOK, ProcessType, Commit, Go
<1>2. Only(r) /\ UNCHANGED <<version, index, epoch, cache, repaired>>
  BY <1>1, BlankType, Zenon DEF GateInv, TypeOK, ProcessType, Commit, Go, Keep, Only, Place
<1>3. DataType'
  BY <1>1, <1>2, Zenon DEF GateInv, TypeOK, DataType, Commit
<1>4. Holder(r)
  BY <1>1, Zenon DEF GateInv, Holders
<1>5. Holder(r)'
  BY <1>1, <1>2, <1>4, Kinds, LockNames, Zenon DEF Holder, HoldsCatalog, HoldsMutation, HoldsRefresh, GateInv, TypeOK,
     LockType, Commit, Release, Locks
<1>6. QED
  BY <1>1, <1>2, <1>3, <1>5, Kinds, LockNames, OnlyMoves, Zenon DEF Commit, Release, Awake

LEMMA OpenViewGates ==
  ASSUME GateInv, NEW r \in Requests, OpenView(r)
  PROVE  /\ GateInv' /\ Moved(r) /\ pc[r] = "view" /\ pc'[r] = "lookup"
         /\ local'[r].snap = epoch /\ UNCHANGED data
         /\ local'[r].observed = IF reader THEN epoch ELSE local[r].observed
<1>1. pc[r] = "view" /\ pc'[r] = "lookup" /\ r \in Procs
  BY Kinds, Zenon DEF GateInv, TypeOK, ProcessType, OpenView, Go
<1> DEFINE m == [local[r] EXCEPT !.snap = epoch, !.observed = IF reader THEN epoch ELSE @]
<1>0. m \in LocalRecord /\ m.snap = epoch /\ m.observed = (IF reader THEN epoch ELSE local[r].observed)
  <2>1. PICK l, o, e : l = local[r] /\ e = epoch /\ o = IF reader THEN epoch ELSE local[r].observed
    BY Zenon
  <2>2. l \in LocalRecord /\ e \in Nat /\ o \in Observation
    BY <1>1, <2>1, LocalFields, Zenon DEF GateInv, TypeOK, ProcessType, DataType, Observation
  <2> DEFINE a == [l EXCEPT !.snap = e]  b == [a EXCEPT !.observed = o]
  <2>3. m = b
    BY <2>1, <2>2, Zenon DEF LocalRecord
  <2>4. a \in LocalRecord /\ a.snap = e
    BY <2>2, WithSnap, Zenon
  <2> HIDE DEF a
  <2>5. b \in LocalRecord /\ b.observed = o /\ b.snap = a.snap
    BY <2>2, <2>4, WithObserved, Zenon
  <2> HIDE DEF b, m
  <2>6. QED
    BY <2>1, <2>3, <2>4, <2>5, Zenon
<1>2. /\ Only(r) /\ local'[r].snap = epoch /\ UNCHANGED data
      /\ local'[r].observed = IF reader THEN epoch ELSE local[r].observed
  <2>1. local' = [local EXCEPT ![r] = m]
    BY Zenon DEF OpenView, Keep
  <2> HIDE DEF m
  <2>2. QED
    BY <1>0, <1>1, <2>1, Zenon DEF GateInv, TypeOK, ProcessType, OpenView, Go, Only, Place
<1>3. DataType'
  BY <1>1, <1>2, Zenon DEF GateInv, TypeOK, DataType, data
<1>4. Holder(r)
  BY <1>1, Zenon DEF GateInv, Holders
<1>5. Holder(r)'
  BY <1>1, <1>2, <1>4, Kinds, LockNames, Zenon DEF Holder, HoldsCatalog, HoldsMutation, HoldsRefresh, GateInv, TypeOK,
     LockType, OpenView, locks, Locks
<1>6. QED
  BY <1>1, <1>2, <1>3, <1>5, Kinds, LockNames, OnlyMoves, Zenon DEF OpenView, locks, Awake

LEMMA ReuseGates ==
  ASSUME GateInv, NEW r \in Requests, Reuse(r)
  PROVE  /\ GateInv' /\ Moved(r) /\ pc[r] = "reuse" /\ pc'[r] = "planned"
         /\ local'[r].plan = cache.active /\ UNCHANGED data
<1>1. pc[r] = "reuse" /\ pc'[r] = "planned" /\ r \in Procs
  BY Kinds, Zenon DEF GateInv, TypeOK, ProcessType, Reuse, Go
<1> DEFINE m == [local[r] EXCEPT !.plan = cache.active]
<1>0. m \in LocalRecord /\ m.plan = cache.active
  BY <1>1, WithPlan DEF GateInv, TypeOK, ProcessType, DataType, CacheRecord
<1>2. Only(r) /\ local'[r].plan = cache.active /\ UNCHANGED data
  <2>1. local' = [local EXCEPT ![r] = m]
    BY Zenon DEF Reuse, Keep
  <2> HIDE DEF m
  <2>2. QED
    BY <1>0, <1>1, <2>1, Zenon DEF GateInv, TypeOK, ProcessType, Reuse, Go, Only, Place
<1>3. DataType'
  BY <1>1, <1>2, Zenon DEF GateInv, TypeOK, DataType, data
<1>4. Holder(r)
  BY <1>1, Zenon DEF GateInv, Holders
<1>5. Holder(r)'
  BY <1>1, <1>2, <1>4, Kinds, LockNames, Zenon DEF Holder, HoldsCatalog, HoldsMutation, HoldsRefresh, GateInv, TypeOK,
     LockType, Reuse, Release, Locks
<1>6. QED
  BY <1>1, <1>2, <1>3, <1>5, Kinds, LockNames, OnlyMoves, Zenon DEF Reuse, Release, Awake

LEMMA LoadCatalogGates ==
  ASSUME GateInv, NEW r \in Requests, LoadCatalog(r)
  PROVE  /\ GateInv' /\ Moved(r) /\ pc[r] = "load" /\ pc'[r] = "planned"
         /\ local'[r].plan = local[r].snap /\ cache' = Published(local[r].snap, local[r].observed)
         /\ UNCHANGED <<version, index, epoch, repaired, written>>
<1>1. pc[r] = "load" /\ pc'[r] = "planned" /\ r \in Procs
  BY Kinds, Zenon DEF GateInv, TypeOK, ProcessType, LoadCatalog, Go
<1> DEFINE m == [local[r] EXCEPT !.plan = local[r].snap]
<1>0. m \in LocalRecord /\ m.plan = local[r].snap
  BY <1>1, LocalFields, WithPlan, Zenon DEF GateInv, TypeOK, ProcessType
<1>2. Only(r) /\ local'[r].plan = local[r].snap /\ cache' = Published(local[r].snap, local[r].observed)
         /\ UNCHANGED <<version, index, epoch, repaired, written>>
  <2>1. local' = [local EXCEPT ![r] = m]
    BY Zenon DEF LoadCatalog, Keep
  <2> HIDE DEF m
  <2>2. QED
    BY <1>0, <1>1, <2>1, Zenon DEF GateInv, TypeOK, ProcessType, LoadCatalog, Go, Only, Place
<1>3. DataType'
  BY <1>1, <1>2, LocalFields, Zenon DEF GateInv, TypeOK, ProcessType, DataType, Published, CacheRecord
<1>4. Holder(r)
  BY <1>1, Zenon DEF GateInv, Holders
<1>5. Holder(r)'
  BY <1>1, <1>2, <1>4, Kinds, LockNames, Zenon DEF Holder, HoldsCatalog, HoldsMutation, HoldsRefresh, GateInv, TypeOK,
     LockType, LoadCatalog, Release, Locks
<1>6. QED
  BY <1>1, <1>2, <1>3, <1>5, Kinds, LockNames, OnlyMoves, Zenon DEF LoadCatalog, Release, Awake

LEMMA BeginTxGates ==
  ASSUME GateInv, NEW r \in Requests, BeginTx(r)
  PROVE  /\ GateInv' /\ Moved(r) /\ pc[r] = "begin" /\ pc'[r] = "opened"
         /\ local'[r].plan = local[r].plan /\ local'[r].base = index /\ UNCHANGED data
<1>1. pc[r] = "begin" /\ pc'[r] = "opened" /\ r \in Procs
  BY Kinds, Zenon DEF GateInv, TypeOK, ProcessType, BeginTx, Go
<1> DEFINE m == [Blank EXCEPT !.plan = local[r].plan, !.base = index]
<1>0. m \in LocalRecord /\ m.plan = local[r].plan /\ m.base = index
  <2>1. PICK v, i : v = local[r].plan /\ i = index
    BY Zenon
  <2>2. v \in Nat /\ i \in IndexRecord
    BY <1>1, <2>1, LocalFields, Zenon DEF GateInv, TypeOK, ProcessType, DataType
  <2> DEFINE a == [Blank EXCEPT !.plan = v]  b == [a EXCEPT !.base = i]
  <2>3. m = b
    BY <2>1, <2>2, BlankType, Zenon DEF LocalRecord
  <2>4. a \in LocalRecord /\ a.plan = v
    BY <2>2, BlankType, WithPlan, Zenon
  <2> HIDE DEF a
  <2>5. b \in LocalRecord /\ b.base = i /\ b.plan = a.plan
    BY <2>2, <2>4, WithBase, Zenon
  <2> HIDE DEF b, m
  <2>6. QED
    BY <2>1, <2>3, <2>4, <2>5, Zenon
<1>2. Only(r) /\ local'[r].plan = local[r].plan /\ local'[r].base = index /\ UNCHANGED data
  <2>1. local' = [local EXCEPT ![r] = m]
    BY Zenon DEF BeginTx, Keep
  <2> HIDE DEF m
  <2>2. QED
    BY <1>0, <1>1, <2>1, Zenon DEF GateInv, TypeOK, ProcessType, BeginTx, Go, Only, Place
<1>3. DataType'
  BY <1>1, <1>2, Zenon DEF GateInv, TypeOK, DataType, data
<1>4. Holder(r)
  BY <1>1, Zenon DEF GateInv, Holders
<1>5. Holder(r)'
  BY <1>1, <1>2, <1>4, Kinds, LockNames, Zenon DEF Holder, HoldsCatalog, HoldsMutation, HoldsRefresh, GateInv, TypeOK,
     LockType, BeginTx, locks, Locks
<1>6. QED
  BY <1>1, <1>2, <1>3, <1>5, Kinds, LockNames, OnlyMoves, Zenon DEF BeginTx, locks, Awake

LEMMA LookupGates ==
  ASSUME GateInv, NEW r \in Requests, Lookup(r)
  PROVE  /\ GateInv' /\ Moved(r) /\ pc[r] = "lookup" /\ pc'[r] \in {"planned", "refresh"}
         /\ UNCHANGED data
         /\ pc'[r] = "refresh" => UNCHANGED local
         /\ pc'[r] = "planned" => Reusable(local[r].observed) /\ local'[r].plan = cache.active
<1> DEFINE m == [local[r] EXCEPT !.plan = cache.active]
<1>1. pc[r] = "lookup" /\ pc'[r] \in {"planned", "refresh"} /\ r \in Procs /\ UNCHANGED data
  BY Kinds, Zenon DEF GateInv, TypeOK, ProcessType, Lookup, Go
<1>2. m \in LocalRecord /\ m.plan = cache.active
  BY <1>1, WithPlan DEF GateInv, TypeOK, ProcessType, DataType, CacheRecord
<1>3. \/ pc'[r] = "planned" /\ Reusable(local[r].observed) /\ local' = [local EXCEPT ![r] = m]
      \/ pc'[r] = "refresh" /\ UNCHANGED local
  BY <1>1, Zenon DEF GateInv, TypeOK, ProcessType, Lookup, Go, Keep
<1> HIDE DEF m
<1>4. /\ Only(r)
      /\ pc'[r] = "refresh" => UNCHANGED local
      /\ pc'[r] = "planned" => Reusable(local[r].observed) /\ local'[r].plan = cache.active
  BY <1>1, <1>2, <1>3 DEF GateInv, TypeOK, ProcessType, Lookup, Go, Only, Place
<1>5. DataType'
  BY <1>1, Zenon DEF GateInv, TypeOK, DataType, data
<1>6. Holder(r)
  BY <1>1, Zenon DEF GateInv, Holders
<1>7. Holder(r)'
  BY <1>1, <1>6, Kinds, LockNames, Zenon DEF Holder, HoldsCatalog, HoldsMutation, HoldsRefresh, GateInv, TypeOK,
     LockType, Lookup, locks, Locks
<1>8. UNCHANGED <<held, queue>> /\ Awake(r)
  BY <1>1, Zenon DEF Lookup, locks, Awake
<1>9. GateInv' /\ Moved(r)
  BY <1>1, <1>4, <1>5, <1>7, <1>8, Kinds, OnlyMoves, Zenon
<1>10. QED
  BY <1>1, <1>4, <1>9, Zenon

-----------------------------------------------------------------------------
(* DROP INDEX and its gate. *)

LEMMA BeginDropGates ==
  ASSUME GateInv, NEW d \in Drops, BeginDrop(d)
  PROVE  /\ GateInv' /\ Moved(d) /\ pc[d] = "idle" /\ pc'[d] = "catalog"
         /\ UNCHANGED <<local, data>> /\ ~reader
<1>1. pc[d] = "idle" /\ pc'[d] = "catalog" /\ d \in Procs
  BY Kinds, Zenon DEF GateInv, TypeOK, ProcessType, BeginDrop, Go
<1>2. Only(d) /\ UNCHANGED <<local, data>> /\ ~reader
  BY <1>1, Zenon DEF GateInv, TypeOK, ProcessType, BeginDrop, Go, Only, Place
<1>3. DataType'
  BY <1>1, <1>2, Zenon DEF GateInv, TypeOK, DataType, data
<1>4. Holder(d)
  BY <1>1, Zenon DEF GateInv, Holders
<1>5. Holder(d)'
  BY <1>1, <1>2, <1>4, Kinds, LockNames, Zenon DEF Holder, HoldsCatalog, HoldsMutation, HoldsRefresh, GateInv, TypeOK,
     LockType, BeginDrop, locks, Locks
<1>6. QED
  BY <1>1, <1>2, <1>3, <1>5, Kinds, LockNames, OnlyMoves, Zenon DEF BeginDrop, locks, Awake

LEMMA GrantDropGates ==
  ASSUME GateInv, NEW d \in Drops, GrantDrop(d)
  PROVE  /\ GateInv' /\ Moved(d) /\ pc[d] = "catalog" /\ pc'[d] = "attempt"
         /\ UNCHANGED <<local, data>>
<1>1. pc[d] = "catalog" /\ pc'[d] = "attempt" /\ d \in Procs
  BY Kinds, Zenon DEF GateInv, TypeOK, ProcessType, GrantDrop, Go
<1>2. Only(d) /\ UNCHANGED <<local, data>>
  BY <1>1, Zenon DEF GateInv, TypeOK, ProcessType, GrantDrop, Go, Only, Place
<1>3. DataType'
  BY <1>1, <1>2, Zenon DEF GateInv, TypeOK, DataType, data
<1>4. Holder(d)
  BY <1>1, Zenon DEF GateInv, Holders
<1>5. Holder(d)'
  BY <1>1, <1>2, <1>4, Kinds, LockNames, Zenon DEF Holder, HoldsCatalog, HoldsMutation, HoldsRefresh, GateInv, TypeOK,
     LockType, GrantDrop, Acquire, Locks
<1>6. QED
  BY <1>1, <1>2, <1>3, <1>5, Kinds, LockNames, OnlyMoves, Zenon DEF GrantDrop

LEMMA AttemptDropGates ==
  ASSUME GateInv, NEW d \in Drops, AttemptDrop(d)
  PROVE  /\ GateInv' /\ Moved(d) /\ pc[d] = "attempt" /\ pc'[d] \in {"commit", "advance"}
         /\ local'[d].base = index /\ UNCHANGED data
<1>1. pc[d] = "attempt" /\ pc'[d] \in {"commit", "advance"} /\ d \in Procs
  BY Kinds, Zenon DEF GateInv, TypeOK, ProcessType, AttemptDrop, Go
<1> DEFINE m == [local[d] EXCEPT !.base = index]
<1>0. m \in LocalRecord /\ m.base = index
  BY <1>1, WithBase, Zenon DEF GateInv, TypeOK, ProcessType, DataType
<1>2. Only(d) /\ local'[d].base = index /\ UNCHANGED data
  <2>1. local' = [local EXCEPT ![d] = m]
    BY Zenon DEF AttemptDrop, Keep
  <2> HIDE DEF m
  <2>2. QED
    BY <1>0, <1>1, <2>1, Zenon DEF GateInv, TypeOK, ProcessType, AttemptDrop, Go, Only, Place
<1>3. DataType'
  BY <1>1, <1>2, Zenon DEF GateInv, TypeOK, DataType, data
<1>4. Holder(d)
  BY <1>1, Zenon DEF GateInv, Holders
<1>5. Holder(d)'
  BY <1>1, <1>2, <1>4, Kinds, LockNames, Zenon DEF Holder, HoldsCatalog, HoldsMutation, HoldsRefresh, GateInv, TypeOK,
     LockType, AttemptDrop, locks, Locks
<1>6. QED
  BY <1>1, <1>2, <1>3, <1>5, Kinds, LockNames, OnlyMoves, Zenon DEF AttemptDrop, locks, Awake

LEMMA CommitDropGates ==
  ASSUME GateInv, NEW d \in Drops, CommitDrop(d)
  PROVE  /\ GateInv' /\ Moved(d) /\ pc[d] = "commit" /\ pc'[d] \in {"attempt", "advance"}
         /\ UNCHANGED <<version, cache, repaired, written>>
         /\ \/ UNCHANGED <<index, epoch>>
            \/ /\ pc'[d] = "advance" /\ index'.state \in {"Dropping", "Aborting"}
               /\ epoch' = IF index.state = "Active" THEN epoch + 1 ELSE epoch
<1> DEFINE m == [local[d] EXCEPT !.retries = @ + 1]
           i == [index EXCEPT !.state = IF @ = "Active" THEN "Dropping" ELSE "Aborting",
                              !.stage = "none"]
<1>1. /\ pc[d] = "commit" /\ pc'[d] \in {"attempt", "advance"} /\ d \in Procs
      /\ UNCHANGED <<version, cache, repaired, written>>
  BY Kinds, Zenon DEF GateInv, TypeOK, ProcessType, CommitDrop, Go
<1>2. m \in LocalRecord
  BY <1>1, WithRetries, LocalFields DEF GateInv, TypeOK, ProcessType
<1>3. i \in IndexRecord /\ i.state \in {"Dropping", "Aborting"}
  BY ZenonT(60) DEF GateInv, TypeOK, DataType, IndexRecord
<1>4. UNCHANGED local \/ local' = [local EXCEPT ![d] = m]
  BY Zenon DEF CommitDrop, Keep
<1>5. \/ UNCHANGED <<index, epoch>>
      \/ /\ pc'[d] = "advance" /\ index' = i
         /\ epoch' = IF index.state = "Active" THEN epoch + 1 ELSE epoch
  BY <1>1, Zenon DEF CommitDrop, Go, GateInv, TypeOK, ProcessType
<1> HIDE DEF m, i
<1>6. Only(d)
  BY <1>1, <1>2, <1>4, Zenon DEF GateInv, TypeOK, ProcessType, CommitDrop, Go, Only, Place
<1>7. DataType'
  BY <1>1, <1>3, <1>5 DEF GateInv, TypeOK, DataType
<1>8. UNCHANGED <<held, queue>> /\ Awake(d)
  BY <1>1, Zenon DEF CommitDrop, locks, Awake
<1>9. Holder(d)'
  BY <1>1, <1>8, Kinds, ZenonT(60) DEF GateInv, Holders, Holder, HoldsCatalog, HoldsMutation, HoldsRefresh
<1>10. GateInv' /\ Moved(d)
  BY <1>1, <1>6, <1>7, <1>8, <1>9, Kinds, OnlyMoves, Zenon
<1>11. QED
  BY <1>1, <1>3, <1>5, <1>10, Zenon

(* Advance and Unlock end a DROP and an activation alike.                   *)
LEMMA AdvanceGates ==
  ASSUME GateInv, NEW p \in Drops \cup {Worker}, Advance(p)
  PROVE  /\ GateInv' /\ Moved(p) /\ pc[p] = "advance" /\ pc'[p] = "unlock"
         /\ version' = version + 1 /\ UNCHANGED <<local, index, epoch, cache, repaired, written>>
<1>1. pc[p] = "advance" /\ pc'[p] = "unlock" /\ p \in Procs
  BY Kinds, Zenon DEF GateInv, TypeOK, ProcessType, Advance, Go
<1>2. /\ Only(p) /\ UNCHANGED <<held, queue, local, index, epoch, cache, repaired, written>>
      /\ version' = version + 1 /\ Awake(p)
  BY <1>1, Zenon DEF GateInv, TypeOK, ProcessType, Advance, Go, Only, Place, locks, Awake
<1>3. DataType'
  BY <1>2 DEF GateInv, TypeOK, DataType
<1>4. Holder(p)
  BY <1>1, Zenon DEF GateInv, Holders
<1>5. Holder(p)'
  BY <1>1, <1>2, <1>4, Kinds, Zenon DEF Holder, HoldsCatalog, HoldsMutation, HoldsRefresh
<1>6. p = Worker => StepGates'
  BY <1>1, Zenon DEF StepGates
<1>7. GateInv' /\ Moved(p)
  BY <1>1, <1>2, <1>3, <1>5, <1>6, OnlyMoves, Zenon
<1>8. QED
  BY <1>1, <1>2, <1>7, Zenon

LEMMA UnlockGates ==
  ASSUME GateInv, NEW p \in Drops \cup {Worker}, Unlock(p)
  PROVE  /\ GateInv' /\ Moved(p) /\ pc[p] = "unlock" /\ pc'[p] \in {"unfence", "done"}
         /\ UNCHANGED data
<1>1. pc[p] = "unlock" /\ pc'[p] = (IF p = Worker THEN "unfence" ELSE "done") /\ p \in Procs
  BY Kinds, Zenon DEF GateInv, TypeOK, ProcessType, Unlock, Go
<1>2. Only(p) /\ UNCHANGED data /\ Awake(p)
  BY <1>1, BlankType, Zenon DEF GateInv, TypeOK, ProcessType, Unlock, Go, Keep, Only, Place, Awake
<1>3. DataType'
  BY <1>2, Zenon DEF GateInv, TypeOK, DataType, data
<1>4. Holder(p)
  BY <1>1, Zenon DEF GateInv, Holders
<1>5. Holder(p)'
  BY <1>1, <1>4, Kinds, LockNames, Zenon DEF Holder, HoldsCatalog, HoldsMutation, HoldsRefresh, GateInv, TypeOK,
     LockType, Unlock, Release, Locks
<1>6. p = Worker => StepGates'
  BY <1>1, Zenon DEF StepGates
<1>7. GateInv' /\ Moved(p)
  BY <1>1, <1>2, <1>3, <1>5, <1>6, LockNames, OnlyMoves, ZenonT(60) DEF Unlock, Release
<1>8. QED
  BY <1>1, <1>2, <1>7, Zenon

-----------------------------------------------------------------------------
(* Lifecycle steps and their gates. *)

LEMMA BeginStepGates ==
  ASSUME GateInv, BeginStep
  PROVE  /\ GateInv' /\ Moved(Worker) /\ pc[Worker] = "idle" /\ pc'[Worker] \in {"step", "catalog", "mutation"}
         /\ index.state # "Absent" /\ local'[Worker].base = index /\ UNCHANGED data
<1> DEFINE m == [Blank EXCEPT !.base = index]
<1>1. /\ pc[Worker] = "idle" /\ Worker \in Procs /\ index.state # "Absent"
      /\ pc'[Worker] = IF index.stage = "scan" THEN "step"
                       ELSE IF index.stage = "activate" THEN "catalog" ELSE "mutation"
  BY Kinds, Zenon DEF GateInv, TypeOK, ProcessType, BeginStep, Go
<1>2. m \in LocalRecord /\ m.base = index
  BY BlankType, WithBase, Zenon DEF GateInv, TypeOK, DataType
<1>3. local' = [local EXCEPT ![Worker] = m] /\ UNCHANGED data /\ UNCHANGED <<held, queue>>
  BY Zenon DEF BeginStep, Keep, locks
<1> HIDE DEF m
<1>4. Only(Worker) /\ local'[Worker].base = index /\ Awake(Worker)
  BY <1>1, <1>2, <1>3, Zenon DEF GateInv, TypeOK, ProcessType, BeginStep, Go, Only, Place, Awake
<1>5. DataType'
  BY <1>3, Zenon DEF GateInv, TypeOK, DataType, data
<1>6. Holder(Worker)
  BY <1>1, Zenon DEF GateInv, Holders
<1>7. Holder(Worker)' /\ StepGates'
  BY <1>1, <1>3, <1>4, <1>6, Kinds, Zenon DEF Holder, HoldsCatalog, HoldsMutation, HoldsRefresh, StepGates
<1>8. GateInv' /\ Moved(Worker)
  BY <1>1, <1>3, <1>4, <1>5, <1>7, OnlyMoves, Zenon
<1>9. QED
  BY <1>1, <1>3, <1>4, <1>8, Zenon

LEMMA GrantStepCatalogGates ==
  ASSUME GateInv, GrantStepCatalog
  PROVE  /\ GateInv' /\ Moved(Worker) /\ pc[Worker] = "catalog" /\ pc'[Worker] = "mutation"
         /\ UNCHANGED <<local, data>>
<1>1. pc[Worker] = "catalog" /\ pc'[Worker] = "mutation" /\ Worker \in Procs
  BY Kinds, Zenon DEF GateInv, TypeOK, ProcessType, GrantStepCatalog, Go
<1>2. Only(Worker) /\ UNCHANGED <<local, data>>
  BY <1>1, Zenon DEF GateInv, TypeOK, ProcessType, GrantStepCatalog, Go, Only, Place
<1>3. DataType'
  BY <1>1, <1>2, Zenon DEF GateInv, TypeOK, DataType, data
<1>4. Holder(Worker)
  BY <1>1, Zenon DEF GateInv, Holders
<1>5. Holder(Worker)'
  BY <1>1, <1>2, <1>4, Kinds, LockNames, Zenon DEF Holder, HoldsCatalog, HoldsMutation, HoldsRefresh, GateInv, TypeOK,
     LockType, GrantStepCatalog, Acquire, Locks, StepGates
<1>6. StepGates'
  BY <1>1, <1>2, Zenon DEF GateInv, StepGates
<1>7. QED
  BY <1>1, <1>2, <1>3, <1>5, <1>6, Kinds, LockNames, OnlyMoves, Zenon DEF GrantStepCatalog

LEMMA GrantFenceGates ==
  ASSUME GateInv, GrantFence
  PROVE  /\ GateInv' /\ Moved(Worker) /\ pc[Worker] = "mutation" /\ pc'[Worker] = "step"
         /\ UNCHANGED <<local, data>>
<1>1. pc[Worker] = "mutation" /\ pc'[Worker] = "step" /\ Worker \in Procs
  BY Kinds, Zenon DEF GateInv, TypeOK, ProcessType, GrantFence, Go
<1>2. Only(Worker) /\ UNCHANGED <<local, data>>
  BY <1>1, Zenon DEF GateInv, TypeOK, ProcessType, GrantFence, Go, Only, Place
<1>3. DataType'
  BY <1>1, <1>2, Zenon DEF GateInv, TypeOK, DataType, data
<1>4. Holder(Worker)
  BY <1>1, Zenon DEF GateInv, Holders
<1>5. Holder(Worker)'
  BY <1>1, <1>2, <1>4, Kinds, LockNames, Zenon DEF Holder, HoldsCatalog, HoldsMutation, HoldsRefresh, GateInv, TypeOK,
     LockType, GrantFence, Acquire, Locks, StepGates
<1>6. StepGates'
  BY <1>1, <1>2, Zenon DEF GateInv, StepGates
<1>7. QED
  BY <1>1, <1>2, <1>3, <1>5, <1>6, Kinds, LockNames, OnlyMoves, Zenon DEF GrantFence

LEMMA UnfenceGates ==
  ASSUME GateInv, Unfence
  PROVE  /\ GateInv' /\ Moved(Worker) /\ pc[Worker] = "unfence" /\ pc'[Worker] = "idle"
         /\ UNCHANGED <<local, data>>
<1>1. pc[Worker] = "unfence" /\ pc'[Worker] = "idle" /\ Worker \in Procs
  BY Kinds, Zenon DEF GateInv, TypeOK, ProcessType, Unfence, Go
<1>2. Only(Worker) /\ UNCHANGED <<local, data>>
  BY <1>1, Zenon DEF GateInv, TypeOK, ProcessType, Unfence, Go, Only, Place
<1>3. DataType'
  BY <1>1, <1>2, Zenon DEF GateInv, TypeOK, DataType, data
<1>4. Holder(Worker)
  BY <1>1, Zenon DEF GateInv, Holders
<1>5. Holder(Worker)'
  BY <1>1, <1>2, <1>4, Kinds, LockNames, Zenon DEF Holder, HoldsCatalog, HoldsMutation, HoldsRefresh, GateInv, TypeOK,
     LockType, Unfence, Release, Locks
<1>6. StepGates'
  BY <1>1, <1>2, Zenon DEF GateInv, StepGates
<1>7. QED
  BY <1>1, <1>2, <1>3, <1>5, <1>6, Kinds, LockNames, OnlyMoves, ZenonT(60) DEF Unfence, Release, Awake

LEMMA CommitStepGates ==
  ASSUME GateInv, CommitStep
  PROVE  /\ GateInv' /\ Moved(Worker) /\ pc[Worker] = "step"
         /\ pc'[Worker] = IF local[Worker].base.stage = "activate" THEN "advance" ELSE "unfence"
         /\ UNCHANGED <<version, cache, repaired, written>>
         /\ \/ UNCHANGED <<index, epoch>>
            \/ /\ local[Worker].base.stage # "activate" /\ epoch' = epoch
               /\ index'.state \in {index.state, "Dropped"}
            \/ local[Worker].base.stage = "activate" /\ epoch' = epoch + 1
<1>1. /\ pc[Worker] = "step" /\ Worker \in Procs
      /\ pc'[Worker] = IF local[Worker].base.stage = "activate" THEN "advance" ELSE "unfence"
      /\ UNCHANGED <<version, cache, repaired, written, held, queue>>
  BY Kinds, Zenon DEF GateInv, TypeOK, ProcessType, CommitStep, Go, locks
<1>2. /\ Stepped(index) \in IndexRecord
      /\ index.stage # "activate" => Stepped(index).state \in {index.state, "Dropped"}
  BY Zenon DEF GateInv, TypeOK, DataType, Stepped, IndexRecord
<1>3. \/ UNCHANGED <<index, epoch>>
      \/ /\ index = local[Worker].base /\ index' = Stepped(index)
         /\ epoch' = IF local[Worker].base.stage = "activate" THEN epoch + 1 ELSE epoch
  BY Zenon DEF CommitStep
<1>4. Only(Worker) /\ Awake(Worker) /\ local'[Worker] = Blank
  BY <1>1, BlankType, Zenon DEF GateInv, TypeOK, ProcessType, CommitStep, Go, Keep, Only, Place, Awake
<1>5. DataType'
  BY <1>1, <1>2, <1>3 DEF GateInv, TypeOK, DataType
<1>6. Holder(Worker)
  BY <1>1, Zenon DEF GateInv, Holders
<1>7. Holder(Worker)' /\ StepGates'
  BY <1>1, <1>4, <1>6, Kinds, ZenonT(60) DEF Holder, HoldsCatalog, HoldsMutation, HoldsRefresh, StepGates
<1>8. GateInv' /\ Moved(Worker)
  BY <1>1, <1>4, <1>5, <1>7, OnlyMoves, Zenon
<1>9. QED
  BY <1>1, <1>2, <1>3, <1>8, Zenon

-----------------------------------------------------------------------------
(* The refresh of the published catalog. *)

LEMMA BeginRefreshGates ==
  ASSUME GateInv, BeginRefresh
  PROVE  /\ GateInv' /\ Moved(Refresher) /\ pc[Refresher] = "idle" /\ pc'[Refresher] = "refresh"
         /\ UNCHANGED <<local, data>>
<1>1. pc[Refresher] = "idle" /\ pc'[Refresher] = "refresh" /\ Refresher \in Procs
  BY Kinds, Zenon DEF GateInv, TypeOK, ProcessType, BeginRefresh, Go
<1>2. Only(Refresher) /\ UNCHANGED <<local, data>>
  BY <1>1, Zenon DEF GateInv, TypeOK, ProcessType, BeginRefresh, Go, Only, Place
<1>3. DataType'
  BY <1>1, <1>2, Zenon DEF GateInv, TypeOK, DataType, data
<1>4. Holder(Refresher)
  BY <1>1, Zenon DEF GateInv, Holders
<1>5. Holder(Refresher)'
  BY <1>1, <1>2, <1>4, Kinds, LockNames, Zenon DEF Holder, HoldsCatalog, HoldsMutation, HoldsRefresh, GateInv, TypeOK,
     LockType, BeginRefresh, locks, Locks
<1>6. QED
  BY <1>1, <1>2, <1>3, <1>5, Kinds, LockNames, OnlyMoves, Zenon DEF BeginRefresh, locks, Awake

LEMMA GrantRefreshGates ==
  ASSUME GateInv, GrantRefresh
  PROVE  /\ GateInv' /\ Moved(Refresher) /\ pc[Refresher] = "refresh" /\ pc'[Refresher] = "view"
         /\ UNCHANGED <<local, data>>
<1>1. pc[Refresher] = "refresh" /\ pc'[Refresher] = "view" /\ Refresher \in Procs
  BY Kinds, Zenon DEF GateInv, TypeOK, ProcessType, GrantRefresh, Go
<1>2. Only(Refresher) /\ UNCHANGED <<local, data>>
  BY <1>1, Zenon DEF GateInv, TypeOK, ProcessType, GrantRefresh, Go, Only, Place
<1>3. DataType'
  BY <1>1, <1>2, Zenon DEF GateInv, TypeOK, DataType, data
<1>4. Holder(Refresher)
  BY <1>1, Zenon DEF GateInv, Holders
<1>5. Holder(Refresher)'
  BY <1>1, <1>2, <1>4, Kinds, LockNames, Zenon DEF Holder, HoldsCatalog, HoldsMutation, HoldsRefresh, GateInv, TypeOK,
     LockType, GrantRefresh, Acquire, Locks
<1>6. QED
  BY <1>1, <1>2, <1>3, <1>5, Kinds, LockNames, OnlyMoves, Zenon DEF GrantRefresh

LEMMA RefreshViewGates ==
  ASSUME GateInv, RefreshView
  PROVE  /\ GateInv' /\ Moved(Refresher) /\ pc[Refresher] = "view" /\ pc'[Refresher] = "load"
         /\ local'[Refresher].snap = epoch /\ UNCHANGED data
<1>1. pc[Refresher] = "view" /\ pc'[Refresher] = "load" /\ Refresher \in Procs
  BY Kinds, Zenon DEF GateInv, TypeOK, ProcessType, RefreshView, Go
<1> DEFINE m == [Blank EXCEPT !.snap = epoch]
<1>0. m \in LocalRecord /\ m.snap = epoch
  BY <1>1, BlankType, WithSnap, Zenon DEF GateInv, TypeOK, DataType
<1>2. Only(Refresher) /\ local'[Refresher].snap = epoch /\ UNCHANGED data
  <2>1. local' = [local EXCEPT ![Refresher] = m]
    BY Zenon DEF RefreshView, Keep
  <2> HIDE DEF m
  <2>2. QED
    BY <1>0, <1>1, <2>1, Zenon DEF GateInv, TypeOK, ProcessType, RefreshView, Go, Only, Place
<1>3. DataType'
  BY <1>1, <1>2, Zenon DEF GateInv, TypeOK, DataType, data
<1>4. Holder(Refresher)
  BY <1>1, Zenon DEF GateInv, Holders
<1>5. Holder(Refresher)'
  BY <1>1, <1>2, <1>4, Kinds, LockNames, Zenon DEF Holder, HoldsCatalog, HoldsMutation, HoldsRefresh, GateInv, TypeOK,
     LockType, RefreshView, locks, Locks
<1>6. QED
  BY <1>1, <1>2, <1>3, <1>5, Kinds, LockNames, OnlyMoves, Zenon DEF RefreshView, locks, Awake

LEMMA RefreshGates ==
  ASSUME GateInv, Refresh
  PROVE  /\ GateInv' /\ Moved(Refresher) /\ pc[Refresher] = "load" /\ pc'[Refresher] = "idle"
         /\ UNCHANGED <<version, index, epoch, repaired, written>>
<1>1. pc[Refresher] = "load" /\ pc'[Refresher] = "idle" /\ Refresher \in Procs
  BY Kinds, Zenon DEF GateInv, TypeOK, ProcessType, Refresh, Go
<1>2. Only(Refresher) /\ UNCHANGED <<version, index, epoch, repaired, written>>
  BY <1>1, BlankType, Zenon DEF GateInv, TypeOK, ProcessType, Refresh, Go, Keep, Only, Place
<1>3. DataType'
  BY <1>1, <1>2, LocalFields, Zenon DEF GateInv, TypeOK, ProcessType, DataType, Refresh, Published, CacheRecord, Observation
<1>4. Holder(Refresher)
  BY <1>1, Zenon DEF GateInv, Holders
<1>5. Holder(Refresher)'
  BY <1>1, <1>2, <1>4, Kinds, LockNames, Zenon DEF Holder, HoldsCatalog, HoldsMutation, HoldsRefresh, GateInv, TypeOK,
     LockType, Refresh, Release, Locks
<1>6. QED
  BY <1>1, <1>2, <1>3, <1>5, Kinds, LockNames, OnlyMoves, Zenon DEF Refresh, Release, Awake

-----------------------------------------------------------------------------
(* Callers that go away, and steps that take no gate. *)

LEMMA CancelGates ==
  ASSUME GateInv, NEW p \in Requests \cup Drops, Cancel(p)
  PROVE  /\ GateInv' /\ Moved(p) /\ pc'[p] = "done" /\ pc[p] # "idle" /\ UNCHANGED data
         /\ p \in Drops => pc[p] = "catalog"
<1>1. /\ p \in Procs /\ p # Worker /\ p # Refresher /\ pc[p] # "idle" /\ pc'[p] = "done"
      /\ UNCHANGED data /\ (p \in Drops => pc[p] = "catalog")
  BY Kinds, Zenon DEF GateInv, TypeOK, ProcessType, Cancel, Go
<1>2. Only(p)
  BY <1>1, BlankType, Zenon DEF GateInv, TypeOK, ProcessType, Cancel, Go, Keep, Only, Place
<1>3. DataType'
  BY <1>1, Zenon DEF GateInv, TypeOK, DataType, data
<1>4. /\ held' \in [Locks -> SUBSET Procs] /\ \A l \in Locks : held'[l] = held[l] \ {p}
      /\ queue' = [l \in Locks |-> Without(queue[l], p)]
  BY Zenon DEF GateInv, TypeOK, LockType, Cancel
<1>5. ASSUME NEW l \in Locks
      PROVE  /\ queue'[l] \in Seq(Procs) /\ Distinct(queue'[l])
             /\ \A x \in Procs : Contains(queue'[l], x) => Contains(queue[l], x) /\ x # p
  <2>1. PICK s \in Seq(Procs) : s = queue[l]
    BY Zenon DEF GateInv, TypeOK, LockType
  <2>2. /\ Without(s, p) \in Seq(Procs) /\ Distinct(Without(s, p))
        /\ \A x \in Procs : Contains(Without(s, p), x) <=> Contains(s, x) /\ x # p
    BY <2>1, RemoveQueue, Zenon DEF GateInv, Queues
  <2>3. queue'[l] = Without(s, p)
    BY <1>4, <2>1, Zenon
  <2>4. QED
    BY <2>1, <2>2, <2>3, Zenon
<1>6. LockType'
  BY <1>4, <1>5, Zenon DEF LockType
<1>7. Exclusion' /\ Moved(p)
  BY <1>2, <1>4, Zenon DEF GateInv, Exclusion, Shared, Moved, Only
<1>8. Queues'
  <2>1. ASSUME NEW l \in Locks, NEW q \in Procs, Contains(queue'[l], q)  PROVE Wants(q, l)'
    BY <1>2, <1>5, <2>1, Zenon DEF GateInv, Queues, Wants, Only
  <2>2. QED
    BY <1>5, <2>1, Zenon DEF Queues
<1>9. Holder(p)'
  BY <1>1, <1>4, LockNames, Zenon DEF Holder, HoldsCatalog, HoldsMutation, HoldsRefresh
<1>10. GateInv'
  BY <1>1, <1>2, <1>3, <1>6, <1>7, <1>8, <1>9, GateStep, Zenon DEF TypeOK, Only
<1>11. QED
  BY <1>1, <1>7, <1>10, Zenon

LEMMA DetachGates ==
  ASSUME GateInv, NEW p \in Requests \cup Drops, Detach(p)
  PROVE  /\ GateInv' /\ Moved(p) /\ UNCHANGED <<pc, data>>
         /\ local'[p].plan = local[p].plan /\ local'[p].base = local[p].base
         /\ local'[p].observed = local[p].observed /\ local'[p].snap = local[p].snap
<1> DEFINE m == [local[p] EXCEPT !.detached = TRUE]
<1>1. /\ p \in Procs /\ p # Worker /\ p # Refresher /\ UNCHANGED <<pc, data, held, queue>>
      /\ local' = [local EXCEPT ![p] = m] /\ Completing(p)
  BY Kinds, Zenon DEF Detach, Keep, locks
<1>2. /\ m \in LocalRecord /\ m.plan = local[p].plan /\ m.base = local[p].base
      /\ m.observed = local[p].observed /\ m.snap = local[p].snap
  BY <1>1, FlagType, WithDetached, Zenon DEF GateInv, TypeOK, ProcessType
<1> HIDE DEF m
<1>3. Only(p) /\ local'[p] = m
  BY <1>1, <1>2, Zenon DEF GateInv, TypeOK, ProcessType, Only
<1>4. DataType' /\ Awake(p)
  BY <1>1, Zenon DEF GateInv, TypeOK, DataType, data, Completing, Awake
<1>5. Holder(p)
  BY <1>1, Zenon DEF GateInv, Holders
<1>6. Holder(p)'
  BY <1>1, <1>5, Zenon DEF Holder, HoldsCatalog, HoldsMutation, HoldsRefresh
<1>7. GateInv' /\ Moved(p)
  BY <1>1, <1>3, <1>4, <1>6, OnlyMoves, Zenon
<1>8. QED
  BY <1>1, <1>2, <1>3, <1>7, Zenon

LEMMA WantedGate ==
  ASSUME NEW p \in Procs, pc[p] \in DOMAIN Wanted
  PROVE  Wanted[pc[p]] \in Locks /\ Wants(p, Wanted[pc[p]])
BY DEF Wanted, Wants, Locks

LEMMA AwaitGates ==
  ASSUME GateInv, NEW p \in Procs, Await(p)
  PROVE  GateInv' /\ UNCHANGED <<held, pc, local, data>>
<1>1. PICK l : l = Wanted[pc[p]]
  BY Zenon
<1>2. /\ l \in Locks /\ Wants(p, l) /\ ~Contains(queue[l], p)
      /\ queue' = [queue EXCEPT ![l] = Append(@, p)] /\ UNCHANGED <<held, pc, local, data>>
  BY <1>1, WantedGate, Zenon DEF Await
<1>3. PICK s \in Seq(Procs) : s = queue[l]
  BY <1>2, Zenon DEF GateInv, TypeOK, LockType
<1>4. /\ Append(s, p) \in Seq(Procs) /\ Distinct(Append(s, p))
      /\ \A x \in Procs : Contains(Append(s, p), x) <=> Contains(s, x) \/ x = p
  BY <1>2, <1>3, AppendQueue, Zenon DEF GateInv, Queues
<1>5. /\ queue'[l] = Append(s, p) /\ DOMAIN queue' = Locks /\ queue' = [m \in Locks |-> queue'[m]]
      /\ \A m \in Locks \ {l} : queue'[m] = queue[m]
  BY <1>2, <1>3, Zenon DEF GateInv, TypeOK, LockType
<1>6. \A m \in Locks : queue'[m] \in Seq(Procs)
  BY <1>3, <1>4, <1>5, Zenon DEF GateInv, TypeOK, LockType
<1>7. TypeOK'
  BY <1>2, <1>5, <1>6, Zenon DEF GateInv, TypeOK, LockType, ProcessType, DataType, data
<1>8. Queues'
  <2>1. ASSUME NEW m \in Locks
        PROVE  Distinct(queue'[m]) /\ \A q \in Procs : Contains(queue'[m], q) => Wants(q, m)
    <3>1. CASE m = l
      BY <1>2, <1>3, <1>4, <1>5, <3>1, Zenon DEF GateInv, Queues
    <3>2. CASE m # l
      BY <1>5, <3>2, Zenon DEF GateInv, Queues
    <3>3. QED
      BY <3>1, <3>2, Zenon
  <2>2. QED
    BY <1>2, <2>1, Zenon DEF Queues, Wants
<1>9. QED
  BY <1>2, <1>7, <1>8, ZenonT(60) DEF GateInv, Exclusion, Holders, Holder, HoldsCatalog, HoldsMutation, HoldsRefresh,
     StepGates

LEMMA FreeGates ==
  ASSUME GateInv, DataType', UNCHANGED <<held, queue, pc, local>>
  PROVE  GateInv'
BY ZenonT(60) DEF GateInv, TypeOK, LockType, ProcessType, Exclusion, Holders, Holder, HoldsCatalog,
   HoldsMutation, HoldsRefresh, StepGates, Queues, Wants

LEMMA CreateGates ==
  ASSUME GateInv, Create
  PROVE  /\ GateInv' /\ UNCHANGED <<version, epoch, cache, repaired, pc, local, written>>
         /\ ~reader /\ index'.state = "Building"
<1>1. /\ UNCHANGED <<held, queue, version, epoch, cache, repaired, pc, local, written>>
      /\ ~reader /\ index'.state = "Building" /\ index' \in IndexRecord
  BY DEF Create, locks, GateInv, TypeOK, DataType, IndexRecord
<1>2. DataType'
  BY <1>1, Zenon DEF GateInv, TypeOK, DataType
<1>3. QED
  BY <1>1, <1>2, FreeGates, Zenon

LEMMA AbortGates ==
  ASSUME GateInv, Abort
  PROVE  /\ GateInv' /\ UNCHANGED <<version, epoch, cache, repaired, pc, local, written>>
         /\ index.state = "Building" /\ index'.state = "Aborting"
<1>1. /\ UNCHANGED <<held, queue, version, epoch, cache, repaired, pc, local, written>>
      /\ index.state = "Building" /\ index'.state = "Aborting" /\ index' \in IndexRecord
  BY Zenon DEF Abort, locks, GateInv, TypeOK, DataType, IndexRecord
<1>2. DataType'
  BY <1>1, Zenon DEF GateInv, TypeOK, DataType
<1>3. QED
  BY <1>1, <1>2, FreeGates, Zenon

LEMMA FollowGates ==
  ASSUME GateInv, Follow
  PROVE  GateInv' /\ UNCHANGED <<version, index, cache, repaired, pc, local, written>> /\ reader
<1>1. /\ UNCHANGED <<held, queue, version, index, cache, repaired, pc, local, written>>
      /\ reader /\ epoch' \in Nat
  BY DEF Follow, locks, GateInv, TypeOK, DataType
<1>2. DataType'
  BY <1>1, Zenon DEF GateInv, TypeOK, DataType
<1>3. QED
  BY <1>1, <1>2, FreeGates, Zenon

LEMMA GateInit == Init => GateInv
<1> SUFFICES ASSUME Init PROVE GateInv
  BY Zenon
<1>1. LockType
  BY DEF Init, LockType
<1>2. ProcessType
  BY BlankType, Zenon DEF Init, ProcessType, Place
<1>3. DataType
  BY BlankType, Zenon DEF Init, DataType, CacheRecord, Observation
<1>4. \A p \in Procs : pc[p] = "idle" /\ \A l \in Locks : p \notin held[l]
  BY Zenon DEF Init
<1>5. Exclusion /\ Holders /\ StepGates
  BY <1>4, Kinds, LockNames, Zenon DEF Init, Exclusion, Holders, Holder, HoldsCatalog, HoldsMutation, HoldsRefresh,
     StepGates
<1>6. Queues
  <2>1. \A l \in Locks : queue[l] = <<>>
    BY Zenon DEF Init
  <2>2. Distinct(<<>>) /\ \A p \in Procs : ~Contains(<<>>, p)
    BY DEF Distinct, Contains
  <2>3. QED
    BY <2>1, <2>2, Zenon DEF Queues
<1>7. QED
  BY <1>1, <1>2, <1>3, <1>5, <1>6, Zenon DEF GateInv, TypeOK

-----------------------------------------------------------------------------
(* What a holder of a gate relies on. *)

LEMMA AloneOnCatalog ==
  ASSUME GateInv, NEW p \in Drops \cup {Worker}, HoldsCatalog(p), NEW r \in Requests
  PROVE  ~HoldsCatalog(r)
<1>1. p \in Procs /\ r \in Procs /\ p \notin Requests /\ p # r
  BY Kinds, Zenon
<1>2. p \in held["catalog"]
  BY <1>1, Zenon DEF GateInv, Holders, Holder
<1>3. r \notin held["catalog"]
  BY <1>1, <1>2, LockNames, Zenon DEF GateInv, Exclusion, Shared
<1>4. QED
  BY <1>1, <1>3, Zenon DEF GateInv, Holders, Holder

LEMMA AloneOnMutation ==
  ASSUME GateInv, Worker \in held["mutation"], NEW r \in Requests
  PROVE  r \notin held["mutation"] /\ ~HoldsMutation(r)
<1>1. Worker \notin Requests /\ r \in Procs /\ Worker # r
  BY Kinds, Zenon
<1>2. r \notin held["mutation"]
  BY <1>1, LockNames, Zenon DEF GateInv, Exclusion, Shared
<1>3. QED
  BY <1>1, <1>2, Zenon DEF GateInv, Holders, Holder

LEMMA NothingChanges ==
  ASSUME GateInv, NEW r \in Requests, HoldsCatalog(r)
  PROVE  ~Changing
<1> SUFFICES ASSUME NEW p \in Drops \cup {Worker}, pc[p] = "advance" PROVE FALSE
  BY Zenon DEF Changing
<1>1. HoldsCatalog(p)
  BY Zenon DEF HoldsCatalog
<1>2. QED
  BY <1>1, AloneOnCatalog, Zenon

LEMMA CacheKept ==
  ASSUME CacheInv, UNCHANGED <<reader, version, epoch, cache>>, Changing => Changing'
  PROVE  CacheInv'
BY Zenon DEF CacheInv

LEMMA AloneOnRefresh ==
  ASSUME GateInv, NEW p \in Procs, HoldsRefresh(p), NEW q \in Procs, HoldsRefresh(q)
  PROVE  p = q
<1>1. p \in held["refresh"] /\ q \in held["refresh"]
  BY Zenon DEF GateInv, Holders, Holder
<1>2. QED
  BY <1>1, LockNames, Zenon DEF GateInv, Exclusion, Shared

\* Only a holder of the refresh gate publishes.
Publishes(p) == UNCHANGED cache \/ (CacheInv' /\ HoldsRefresh(p))

LEMMA OthersReuse ==
  ASSUME GateInv, CatalogInv, NEW p \in Procs, Moved(p), Publishes(p),
         NEW r \in Requests, r # p
  PROVE  ReuseAt(r)'
<1>1. r \in Procs /\ pc'[r] = pc[r] /\ local'[r] = local[r] /\ ReuseAt(r)
  BY Kinds, Zenon DEF Moved, CatalogInv
<1>2. CASE UNCHANGED cache
  BY <1>1, <1>2, Zenon DEF ReuseAt, Reusable
<1>3. CASE HoldsRefresh(p)
  <2>1. pc[r] # "reuse"
    BY <1>1, <1>3, AloneOnRefresh, Zenon DEF HoldsRefresh
  <2>2. QED
    BY <1>1, <2>1, Zenon DEF ReuseAt
<1>4. QED
  BY <1>2, <1>3, Zenon DEF Publishes

(* A step of a request.                                                     *)
LEMMA RequestCatalog ==
  ASSUME GateInv, CatalogInv, NEW r \in Requests, Moved(r), Publishes(r),
         UNCHANGED <<reader, version, index, epoch>>, ObservedAt(r)', ReuseAt(r)', PlanAt(r)',
         pc'[r] \in {"mutation", "begin", "opened", "writing", "commit"} => ~reader
  PROVE  CatalogInv'
<1>1. r \in Procs /\ \A q \in Procs \ {r} : pc'[q] = pc[q] /\ local'[q] = local[q]
  BY Kinds, Zenon DEF Moved
<1>2. ReaderInv'
  BY <1>1, Kinds, Zenon DEF CatalogInv, ReaderInv
<1>3. ASSUME NEW q \in Requests, q # r  PROVE ObservedAt(q)' /\ PlanAt(q)'
  BY <1>1, <1>3, Kinds, ZenonT(60) DEF CatalogInv, ObservedAt, PlanAt
<1>4. Changing <=> Changing'
  BY <1>1, Kinds, Zenon DEF Changing
<1>5. CacheInv'
  BY <1>4, CacheKept, Zenon DEF CatalogInv, Publishes
<1>6. QED
  BY <1>1, <1>2, <1>3, <1>5, OthersReuse, Zenon DEF CatalogInv

(* A step of another process that changes no definition.                    *)
LEMMA OtherCatalog ==
  ASSUME GateInv, CatalogInv, NEW p \in Procs, p \notin Requests, Moved(p), Publishes(p),
         UNCHANGED <<reader, version, index, epoch>>, p # Refresher => ~reader, CacheInv'
  PROVE  CatalogInv'
<1>1. \A q \in Procs \ {p} : pc'[q] = pc[q] /\ local'[q] = local[q]
  BY Zenon DEF Moved
<1>2. ReaderInv'
  BY <1>1, Kinds, Zenon DEF CatalogInv, ReaderInv
<1>3. ASSUME NEW q \in Requests  PROVE ObservedAt(q)' /\ PlanAt(q)'
  BY <1>1, <1>3, Kinds, Zenon DEF CatalogInv, ObservedAt, PlanAt
<1>4. QED
  BY <1>2, <1>3, OthersReuse, Zenon DEF CatalogInv

-----------------------------------------------------------------------------
(* The catalog under each step. *)

LEMMA CatalogInit == Init => CatalogInv
<1> SUFFICES ASSUME Init PROVE CatalogInv
  BY Zenon
<1>1. \A p \in Procs : pc[p] = "idle"
  BY Zenon DEF Init
<1>2. ReaderInv /\ CacheInv
  BY <1>1, Kinds, BlankType, ZenonT(60) DEF Init, ReaderInv, CacheInv
<1>3. ASSUME NEW r \in Requests  PROVE ObservedAt(r) /\ ReuseAt(r) /\ PlanAt(r)
  BY <1>1, Kinds, Zenon DEF ObservedAt, ReuseAt, PlanAt, Planning
<1>4. QED
  BY <1>2, <1>3, Zenon DEF CatalogInv

(* The version is read under the gate that keeps it.                        *)
LEMMA OpeningCatalog ==
  ASSUME GateInv, CatalogInv, UNCHANGED reader, NEW r \in Requests,
         BeginRequest(r) \/ GrantCatalog(r) \/ RepairBegins(r) \/ RepairEnds(r) \/ OpenView(r)
  PROVE  CatalogInv'
<1>0. ObservedAt(r)
  BY Zenon DEF CatalogInv
<1>1. CASE BeginRequest(r)
  <2>1. Moved(r) /\ pc'[r] = "catalog" /\ UNCHANGED data
    BY <1>1, BeginRequestGates, Zenon
  <2>2. QED
    BY <2>1, RequestCatalog, ZenonT(60) DEF ObservedAt, ReuseAt, PlanAt, Planning, Publishes, data
<1>2. CASE GrantCatalog(r)
  <2>1. Moved(r) /\ pc'[r] \in {"view", "repair"} /\ local'[r].observed = version /\ UNCHANGED data
    BY <1>2, GrantCatalogGates, Zenon
  <2>2. ObservedAt(r)' /\ ReuseAt(r)' /\ PlanAt(r)'
    BY <2>1, Zenon DEF ObservedAt, ReuseAt, PlanAt, Planning, data
  <2>3. QED
    BY <2>1, <2>2, RequestCatalog, Zenon DEF Publishes, data
<1>3. CASE RepairBegins(r) \/ RepairEnds(r)
  <2>1. /\ Moved(r) /\ pc[r] \in {"repair", "repairing"} /\ pc'[r] \in {"repairing", "view"}
        /\ UNCHANGED <<local, version, index, epoch, cache>>
    BY <1>3, RepairBeginsGates, RepairEndsGates, Zenon DEF data
  <2>2. ObservedAt(r)' /\ ReuseAt(r)' /\ PlanAt(r)'
    BY <1>0, <2>1, Zenon DEF ObservedAt, ReuseAt, PlanAt, Planning
  <2>3. QED
    BY <2>1, <2>2, RequestCatalog, Zenon DEF Publishes
<1>4. CASE OpenView(r)
  <2>1. /\ Moved(r) /\ pc[r] = "view" /\ pc'[r] = "lookup" /\ UNCHANGED data
        /\ local'[r].snap = epoch /\ local'[r].observed = IF reader THEN epoch ELSE local[r].observed
    BY <1>4, OpenViewGates, Zenon
  <2>2. ObservedAt(r)' /\ ReuseAt(r)' /\ PlanAt(r)'
    BY <1>0, <2>1, Zenon DEF ObservedAt, ReuseAt, PlanAt, Planning, data
  <2>3. QED
    BY <2>1, <2>2, RequestCatalog, ZenonT(60) DEF Publishes, data
<1>5. QED
  BY <1>1, <1>2, <1>3, <1>4, Zenon

(* A reusable catalog is the one the request's view shows.                  *)
LEMMA ReusableIsExact ==
  ASSUME GateInv, CatalogInv, NEW r \in Requests, pc[r] \in {"lookup", "reuse"},
         Reusable(local[r].observed)
  PROVE  cache.active = local[r].snap /\ (~reader => cache.active = epoch)
<1>1. ObservedAt(r) /\ CacheInv
  BY Zenon DEF CatalogInv
<1>2. HoldsCatalog(r)
  BY Zenon DEF HoldsCatalog
<1>3. ~Changing
  BY <1>2, NothingChanges, Zenon
<1>4. QED
  BY <1>1, <1>3, Zenon DEF ObservedAt, CacheInv, Reusable, Planning

LEMMA PlanningCatalog ==
  ASSUME GateInv, CatalogInv, UNCHANGED reader, NEW r \in Requests,
         Lookup(r) \/ Recheck(r) \/ Reuse(r)
  PROVE  CatalogInv'
<1>0. ObservedAt(r)
  BY Zenon DEF CatalogInv
<1>1. CASE Lookup(r)
  <2>1. /\ Moved(r) /\ pc[r] = "lookup" /\ pc'[r] \in {"planned", "refresh"} /\ UNCHANGED data
        /\ pc'[r] = "refresh" => UNCHANGED local
        /\ pc'[r] = "planned" => Reusable(local[r].observed) /\ local'[r].plan = cache.active
    BY <1>1, LookupGates, Zenon
  <2>2. ObservedAt(r)' /\ ReuseAt(r)'
    BY <1>0, <2>1, ZenonT(60) DEF ObservedAt, ReuseAt, Planning, data
  <2>3. PlanAt(r)'
    BY <2>1, ReusableIsExact, ZenonT(60) DEF PlanAt, data
  <2>4. QED
    BY <2>1, <2>2, <2>3, RequestCatalog, Zenon DEF Publishes, data
<1>2. CASE Recheck(r)
  <2>1. Moved(r) /\ pc[r] = "refresh" /\ pc'[r] \in {"reuse", "load"} /\ UNCHANGED <<local, data>>
    BY <1>2, RecheckGates, Zenon
  <2>2. pc'[r] = IF Reusable(local[r].observed) THEN "reuse" ELSE "load"
    BY <1>2, Kinds, Zenon DEF Recheck, Go, GateInv, TypeOK, ProcessType
  <2>3. ObservedAt(r)' /\ ReuseAt(r)' /\ PlanAt(r)'
    BY <1>0, <2>1, <2>2, Zenon DEF ObservedAt, ReuseAt, PlanAt, Planning, Reusable, data
  <2>4. QED
    BY <2>1, <2>3, RequestCatalog, ZenonT(60) DEF Publishes, data
<1>3. CASE Reuse(r)
  <2>1. Moved(r) /\ pc[r] = "reuse" /\ pc'[r] = "planned" /\ local'[r].plan = cache.active /\ UNCHANGED data
    BY <1>3, ReuseGates, Zenon
  <2>2. ~reader => cache.active = epoch
    BY <2>1, ReusableIsExact, Zenon DEF CatalogInv, ReuseAt
  <2>3. ObservedAt(r)' /\ ReuseAt(r)' /\ PlanAt(r)'
    BY <2>1, <2>2, Zenon DEF ObservedAt, ReuseAt, PlanAt, Planning, data
  <2>4. QED
    BY <2>1, <2>3, RequestCatalog, Zenon DEF Publishes, data
<1>4. QED
  BY <1>1, <1>2, <1>3, Zenon

LEMMA WritingCatalog ==
  ASSUME GateInv, CatalogInv, UNCHANGED reader, NEW r \in Requests,
         EndRead(r) \/ BeginWrite(r) \/ GrantMutation(r) \/ BeginTx(r)
  PROVE  CatalogInv'
<1>0. PlanAt(r) /\ (pc[r] \in {"mutation", "begin"} => ~reader)
  BY Zenon DEF CatalogInv, ReaderInv
<1>1. CASE EndRead(r)
  <2>1. Moved(r) /\ pc'[r] = "done" /\ UNCHANGED data
    BY <1>1, EndReadGates, ZenonT(60)
  <2>2. QED
    BY <2>1, RequestCatalog, ZenonT(60) DEF ObservedAt, ReuseAt, PlanAt, Planning, Publishes, data
<1>2. CASE BeginWrite(r) \/ GrantMutation(r)
  <2>1. /\ Moved(r) /\ pc[r] \in {"planned", "mutation"} /\ pc'[r] \in {"mutation", "begin"} /\ ~reader
        /\ UNCHANGED <<local, data>>
    BY <1>0, <1>2, BeginWriteGates, GrantMutationGates, ZenonT(60)
  <2>2. ObservedAt(r)' /\ ReuseAt(r)' /\ PlanAt(r)'
    BY <1>0, <2>1, Zenon DEF ObservedAt, ReuseAt, PlanAt, Planning, data
  <2>3. QED
    BY <2>1, <2>2, RequestCatalog, ZenonT(60) DEF Publishes, data
<1>3. CASE BeginTx(r)
  <2>1. /\ Moved(r) /\ pc[r] = "begin" /\ pc'[r] = "opened" /\ ~reader
        /\ local'[r].plan = local[r].plan /\ local'[r].base = index /\ UNCHANGED data
    BY <1>0, <1>3, BeginTxGates, ZenonT(60)
  <2>2. ObservedAt(r)' /\ ReuseAt(r)' /\ PlanAt(r)'
    BY <1>0, <2>1, Zenon DEF ObservedAt, ReuseAt, PlanAt, Planning, data
  <2>3. QED
    BY <2>1, <2>2, RequestCatalog, ZenonT(60) DEF Publishes, data
<1>4. QED
  BY <1>1, <1>2, <1>3, Zenon

LEMMA CommittingCatalog ==
  ASSUME GateInv, CatalogInv, UNCHANGED reader, NEW r \in Requests,
         DropCatalogPermit(r) \/ BeginCommit(r) \/ Commit(r)
  PROVE  CatalogInv'
<1>0. PlanAt(r) /\ (pc[r] \in {"opened", "writing"} => ~reader)
  BY Zenon DEF CatalogInv, ReaderInv
<1>1. CASE DropCatalogPermit(r) \/ BeginCommit(r)
  <2>1. /\ Moved(r) /\ pc[r] \in {"opened", "writing"} /\ pc'[r] \in {"writing", "commit"} /\ ~reader
        /\ UNCHANGED <<local, data>>
    BY <1>0, <1>1, DropCatalogPermitGates, BeginCommitGates, Zenon
  <2>2. ObservedAt(r)' /\ ReuseAt(r)' /\ PlanAt(r)'
    BY <1>0, <2>1, Zenon DEF ObservedAt, ReuseAt, PlanAt, Planning, data
  <2>3. QED
    BY <2>1, <2>2, RequestCatalog, ZenonT(60) DEF Publishes, data
<1>2. CASE Commit(r)
  <2>1. Moved(r) /\ pc'[r] = "done" /\ UNCHANGED <<version, index, epoch, cache>>
    BY <1>2, CommitGates, Zenon
  <2>2. QED
    BY <2>1, RequestCatalog, Zenon DEF ObservedAt, ReuseAt, PlanAt, Planning, Publishes
<1>3. QED
  BY <1>1, <1>2, Zenon

(* What a load publishes is the catalog of the version it was planned under. *)
LEMMA LoadingCatalog ==
  ASSUME GateInv, CatalogInv, UNCHANGED reader, NEW r \in Requests, LoadCatalog(r)
  PROVE  CatalogInv'
<1>1. /\ Moved(r) /\ pc[r] = "load" /\ pc'[r] = "planned" /\ local'[r].plan = local[r].snap
      /\ cache' = Published(local[r].snap, local[r].observed)
      /\ UNCHANGED <<version, index, epoch>>
  BY LoadCatalogGates, Zenon
<1>2. HoldsRefresh(r)
  BY <1>1, Zenon DEF HoldsRefresh
<1>3. /\ ~reader => local[r].observed = version /\ local[r].snap = epoch
      /\ reader => local[r].observed = local[r].snap
  BY <1>1, Zenon DEF CatalogInv, ObservedAt, Planning
<1>4. CacheInv'
  <2>1. CASE cache' = cache
    <3>1. Changing => Changing'
      BY <1>1, Kinds, Zenon DEF Changing, Moved
    <3>2. QED
      BY <1>1, <2>1, <3>1, CacheKept, Zenon DEF CatalogInv
  <2>2. CASE cache' = [active |-> local[r].snap, seen |-> local[r].observed]
    <3>1. cache'.active = local[r].snap /\ cache'.seen = local[r].observed /\ version \in Nat
      BY <2>2, Zenon DEF GateInv, TypeOK, DataType
    <3>2. QED
      BY <1>1, <1>3, <3>1 DEF CacheInv
  <2>3. QED
    BY <1>1, <2>1, <2>2, Zenon DEF Published
<1>5. ObservedAt(r)' /\ ReuseAt(r)' /\ PlanAt(r)'
  BY <1>1, <1>3, ZenonT(60) DEF ObservedAt, ReuseAt, PlanAt, Planning
<1>6. QED
  BY <1>1, <1>2, <1>4, <1>5, RequestCatalog, Zenon DEF Publishes

-----------------------------------------------------------------------------
(* Definition changes and the catalog. *)

LEMMA StillChanging ==
  ASSUME GateInv, NEW p \in Procs, Moved(p), pc[p] # "advance"
  PROVE  Changing => Changing'
BY Kinds, Zenon DEF Changing, Moved

(* A change under the catalog gate meets no plan but those of open          *)
(* transactions.                                                            *)
LEMMA ChangeCatalog ==
  ASSUME GateInv, CatalogInv, NEW p \in Drops \cup {Worker}, Moved(p), HoldsCatalog(p),
         UNCHANGED <<reader, cache>>, CacheInv',
         \A r \in Requests : pc[r] \in {"opened", "writing", "commit"} => PlanAt(r)'
  PROVE  CatalogInv'
<1>1. ~reader
  BY Zenon DEF CatalogInv, ReaderInv, HoldsCatalog
<1>2. ASSUME NEW r \in Requests  PROVE ObservedAt(r)' /\ ReuseAt(r)' /\ PlanAt(r)'
  <2>1. pc'[r] = pc[r] /\ ~HoldsCatalog(r)
    BY AloneOnCatalog, Kinds, Zenon DEF Moved
  <2>2. QED
    BY <2>1, ZenonT(60) DEF HoldsCatalog, ObservedAt, ReuseAt, PlanAt, Planning
<1>3. QED
  BY <1>1, <1>2, Zenon DEF CatalogInv, ReaderInv

(* A step of the worker or of a DROP that changes nothing.                  *)
LEMMA IdleChange ==
  ASSUME GateInv, CatalogInv, NEW p \in Drops \cup {Worker}, Moved(p), pc[p] # "advance", ~reader,
         UNCHANGED <<reader, version, index, epoch, cache>>
  PROVE  CatalogInv'
<1>1. p \in Procs /\ p \notin Requests
  BY Kinds, Zenon
<1>2. CacheInv'
  BY <1>1, StillChanging, CacheKept, Zenon DEF CatalogInv
<1>3. QED
  BY <1>1, <1>2, OtherCatalog, Zenon DEF Publishes

LEMMA DropCatalog ==
  ASSUME GateInv, CatalogInv, UNCHANGED reader, NEW d \in Drops,
         BeginDrop(d) \/ GrantDrop(d) \/ AttemptDrop(d)
  PROVE  CatalogInv'
<1>1. /\ Moved(d) /\ pc[d] \in {"idle", "catalog", "attempt"} /\ UNCHANGED data
      /\ pc[d] = "idle" => ~reader
  BY BeginDropGates, GrantDropGates, AttemptDropGates, Zenon
<1>2. ~reader
  BY <1>1, Zenon DEF CatalogInv, ReaderInv
<1>3. QED
  BY <1>1, <1>2, IdleChange, Zenon DEF data

(* A DROP that takes away an Active index leaves every open transaction     *)
(* with a record that has changed under it.                                 *)
LEMMA CommitDropCatalog ==
  ASSUME GateInv, CatalogInv, UNCHANGED reader, NEW d \in Drops, CommitDrop(d)
  PROVE  CatalogInv'
<1>1. /\ Moved(d) /\ pc[d] = "commit" /\ UNCHANGED <<version, cache>>
      /\ \/ UNCHANGED <<index, epoch>>
         \/ /\ pc'[d] = "advance" /\ index'.state \in {"Dropping", "Aborting"}
            /\ epoch' = IF index.state = "Active" THEN epoch + 1 ELSE epoch
  BY CommitDropGates, ZenonT(60)
<1>2. ~reader
  BY <1>1, Zenon DEF CatalogInv, ReaderInv
<1>3. CASE UNCHANGED <<index, epoch>>
  BY <1>1, <1>2, <1>3, IdleChange, Zenon
<1>4. CASE /\ pc'[d] = "advance" /\ index'.state \in {"Dropping", "Aborting"}
           /\ epoch' = IF index.state = "Active" THEN epoch + 1 ELSE epoch
  <2>1. HoldsCatalog(d)
    BY <1>1, Zenon DEF HoldsCatalog
  <2>2. Changing'
    BY <1>4, Zenon DEF Changing
  <2>3. CacheInv'
    BY <1>1, <1>2, <2>2, Zenon DEF CatalogInv, CacheInv
  <2>4. ASSUME NEW r \in Requests, pc[r] \in {"opened", "writing", "commit"}  PROVE PlanAt(r)'
    <3>1. pc'[r] = pc[r] /\ local'[r] = local[r]
      BY <1>1, Kinds, Zenon DEF Moved
    <3>2. PlanAt(r)
      BY Zenon DEF CatalogInv
    <3>3. CASE index.state = "Active"
      <4>1. local[r].base.state = "Active"
        BY <2>4, <3>2, <3>3, Zenon DEF PlanAt
      <4>2. QED
        BY <1>4, <2>4, <3>1, <4>1, Zenon DEF PlanAt
    <3>4. CASE index.state # "Active"
      BY <1>4, <2>4, <3>1, <3>2, <3>4, ZenonT(60) DEF PlanAt
    <3>5. QED
      BY <3>3, <3>4, Zenon
  <2>5. QED
    BY <1>1, <2>1, <2>3, <2>4, ChangeCatalog, Zenon
<1>5. QED
  BY <1>1, <1>3, <1>4, Zenon

(* The version leaves every published catalog behind.                       *)
LEMMA AdvanceCatalog ==
  ASSUME GateInv, CatalogInv, UNCHANGED reader, NEW p \in Drops \cup {Worker}, Advance(p)
  PROVE  CatalogInv'
<1>1. /\ Moved(p) /\ pc[p] = "advance" /\ version' = version + 1
      /\ UNCHANGED <<local, index, epoch, cache>>
  BY AdvanceGates, Zenon
<1>2. HoldsCatalog(p)
  BY <1>1, Zenon DEF HoldsCatalog
<1>3. ~reader
  BY <1>1, Zenon DEF CatalogInv, ReaderInv
<1>4. CacheInv'
  <2>1. version \in Nat /\ cache \in CacheRecord
    BY Zenon DEF GateInv, TypeOK, DataType
  <2>2. cache.seen # Unverified => cache.seen \in Nat /\ cache.seen <= version
    BY <1>3, <2>1, Zenon DEF CatalogInv, CacheInv, CacheRecord, Observation
  <2>3. QED
    BY <1>1, <1>3, <2>1, <2>2 DEF CacheInv
<1>5. ASSUME NEW r \in Requests, pc[r] \in {"opened", "writing", "commit"}  PROVE PlanAt(r)'
  BY <1>1, <1>5, Kinds, Zenon DEF CatalogInv, PlanAt, Moved
<1>6. QED
  BY <1>1, <1>2, <1>4, <1>5, ChangeCatalog, Zenon

LEMMA UnlockCatalog ==
  ASSUME GateInv, CatalogInv, UNCHANGED reader, NEW p \in Drops \cup {Worker}, Unlock(p)
  PROVE  CatalogInv'
<1>1. Moved(p) /\ pc[p] = "unlock" /\ UNCHANGED data
  BY UnlockGates, Zenon
<1>2. ~reader
  BY <1>1, Zenon DEF CatalogInv, ReaderInv
<1>3. QED
  BY <1>1, <1>2, IdleChange, Zenon DEF data

(* Lifecycle steps.                                                         *)
LEMMA StepCatalog ==
  ASSUME GateInv, CatalogInv, UNCHANGED reader,
         BeginStep \/ GrantStepCatalog \/ GrantFence \/ Unfence
  PROVE  CatalogInv'
<1>1. /\ Moved(Worker) /\ pc[Worker] \in {"idle", "catalog", "mutation", "unfence"} /\ UNCHANGED data
      /\ pc[Worker] = "idle" => index.state # "Absent"
  BY BeginStepGates, GrantStepCatalogGates, GrantFenceGates, UnfenceGates, Zenon
<1>2. ~reader
  BY <1>1, Zenon DEF CatalogInv, ReaderInv
<1>3. QED
  BY <1>1, <1>2, IdleChange, Zenon DEF data

(* Activation has both gates, so no transaction is open; another step does  *)
(* not make an index Active.                                                *)
LEMMA CommitStepCatalog ==
  ASSUME GateInv, CatalogInv, UNCHANGED reader, CommitStep
  PROVE  CatalogInv'
<1> DEFINE stage == local[Worker].base.stage
<1>1. /\ Moved(Worker) /\ pc[Worker] = "step" /\ UNCHANGED <<version, cache>>
      /\ pc'[Worker] = IF stage = "activate" THEN "advance" ELSE "unfence"
      /\ \/ UNCHANGED <<index, epoch>>
         \/ stage # "activate" /\ epoch' = epoch /\ index'.state \in {index.state, "Dropped"}
         \/ stage = "activate" /\ epoch' = epoch + 1
  BY CommitStepGates, Zenon
<1>2. ~reader
  BY <1>1, Zenon DEF CatalogInv, ReaderInv
<1>3. CASE UNCHANGED <<index, epoch>>
  BY <1>1, <1>2, <1>3, IdleChange, Zenon
<1>4. CASE stage # "activate" /\ epoch' = epoch /\ index'.state \in {index.state, "Dropped"}
  <2>1. Worker \in Procs
    BY Kinds, Zenon
  <2>2. CacheInv'
    BY <1>1, <1>4, <2>1, StillChanging, CacheKept, Zenon DEF CatalogInv
  <2>3. ASSUME NEW r \in Requests  PROVE ObservedAt(r)' /\ ReuseAt(r)' /\ PlanAt(r)'
    <3>1. pc'[r] = pc[r] /\ local'[r] = local[r]
      BY <1>1, Kinds, Zenon DEF Moved
    <3>2. ObservedAt(r) /\ ReuseAt(r) /\ PlanAt(r)
      BY Zenon DEF CatalogInv
    <3>3. ObservedAt(r)' /\ ReuseAt(r)'
      BY <1>1, <1>4, <3>1, <3>2, Zenon DEF ObservedAt, ReuseAt, Reusable
    <3>4. PlanAt(r)'
      BY <1>4, <3>1, <3>2, Zenon DEF PlanAt
    <3>5. QED
      BY <3>3, <3>4, Zenon
  <2>4. QED
    BY <1>2, <2>2, <2>3, Zenon DEF CatalogInv, ReaderInv
<1>5. CASE stage = "activate" /\ epoch' = epoch + 1
  <2>1. HoldsCatalog(Worker) /\ HoldsMutation(Worker) /\ Changing'
    BY <1>1, <1>5, Zenon DEF HoldsCatalog, HoldsMutation, Changing
  <2>2. Worker \in held["mutation"]
    BY <2>1, Kinds, ZenonT(60) DEF GateInv, Holders, Holder
  <2>3. CacheInv'
    BY <1>1, <1>2, <2>1, ZenonT(60) DEF CatalogInv, CacheInv
  <2>4. \A r \in Requests : pc[r] \notin {"opened", "writing", "commit"}
    BY <2>2, AloneOnMutation, Zenon DEF HoldsMutation
  <2>5. QED
    BY <1>1, <2>1, <2>3, <2>4, ChangeCatalog, ZenonT(60)
<1>6. QED
  BY <1>1, <1>3, <1>4, <1>5, Zenon

-----------------------------------------------------------------------------
(* The refresh of the catalog, and the rest. *)

LEMMA RefresherCatalog ==
  ASSUME GateInv, CatalogInv, UNCHANGED reader,
         BeginRefresh \/ GrantRefresh \/ RefreshView \/ Refresh
  PROVE  CatalogInv'
<1>0. Refresher \in Procs /\ Refresher \notin Requests
  BY Kinds, Zenon
<1>1. /\ Moved(Refresher) /\ pc[Refresher] # "advance" /\ UNCHANGED <<version, index, epoch>>
  BY BeginRefreshGates, GrantRefreshGates, RefreshViewGates, RefreshGates, Zenon DEF data
<1>2. Changing => Changing'
  BY <1>0, <1>1, StillChanging, Zenon
<1>3. CASE BeginRefresh \/ GrantRefresh \/ RefreshView
  <2>1. UNCHANGED cache
    BY <1>3, BeginRefreshGates, GrantRefreshGates, RefreshViewGates, Zenon DEF data
  <2>2. CacheInv'
    BY <1>1, <1>2, <2>1, CacheKept, Zenon DEF CatalogInv
  <2>3. QED
    BY <1>0, <1>1, <2>1, <2>2, OtherCatalog, Zenon DEF Publishes
<1>4. CASE Refresh
  <2> DEFINE snap == local[Refresher].snap
  <2>1. HoldsRefresh(Refresher)
    BY <1>4, RefreshGates, Zenon DEF HoldsRefresh
  <2>2. \/ ~reader /\ cache' = [active |-> snap, seen |-> Unverified]
        \/ reader /\ cache' = [active |-> snap, seen |-> snap]
        \/ cache' = cache
    BY <1>4, Zenon DEF Refresh, Published
  <2>3. CacheInv'
    <3>1. CASE cache' = cache
      BY <1>1, <1>2, <3>1, CacheKept, Zenon DEF CatalogInv
    <3>2. CASE ~reader /\ cache' = [active |-> snap, seen |-> Unverified]
      BY <3>2, Zenon DEF CacheInv
    <3>3. CASE reader /\ cache' = [active |-> snap, seen |-> snap]
      BY <3>3, Zenon DEF CacheInv
    <3>4. QED
      BY <2>2, <3>1, <3>2, <3>3, Zenon
  <2>4. QED
    BY <1>0, <1>1, <2>1, <2>3, OtherCatalog, Zenon DEF Publishes
<1>5. QED
  BY <1>3, <1>4, Zenon

LEMMA CallerCatalog ==
  ASSUME GateInv, CatalogInv, UNCHANGED reader, NEW p \in Requests \cup Drops, Cancel(p) \/ Detach(p)
  PROVE  CatalogInv'
<1>1. CASE Cancel(p)
  <2>1. /\ Moved(p) /\ pc'[p] = "done" /\ pc[p] # "idle" /\ UNCHANGED data
        /\ p \in Drops => pc[p] = "catalog"
    BY <1>1, CancelGates, Zenon
  <2>2. CASE p \in Requests
    BY <2>1, <2>2, RequestCatalog, Zenon DEF ObservedAt, ReuseAt, PlanAt, Planning, Publishes, data
  <2>3. CASE p \in Drops
    <3>1. ~reader
      BY <2>1, <2>3, Zenon DEF CatalogInv, ReaderInv
    <3>2. QED
      BY <2>1, <2>3, <3>1, IdleChange, Zenon DEF data
  <2>4. QED
    BY <2>2, <2>3, Zenon
<1>2. CASE Detach(p)
  <2>1. /\ Moved(p) /\ UNCHANGED <<pc, data>> /\ Completing(p)
        /\ local'[p].plan = local[p].plan /\ local'[p].base = local[p].base
        /\ local'[p].observed = local[p].observed /\ local'[p].snap = local[p].snap
    BY <1>2, DetachGates, Zenon DEF Detach
  <2>2. CASE p \in Requests
    <3>1. pc[p] = "commit" /\ ~reader /\ PlanAt(p)
      BY <2>1, <2>2, Kinds, Zenon DEF Completing, CatalogInv, ReaderInv
    <3>2. ObservedAt(p)' /\ ReuseAt(p)' /\ PlanAt(p)'
      BY <2>1, <3>1, ZenonT(60) DEF ObservedAt, ReuseAt, PlanAt, Planning, data
    <3>3. QED
      BY <2>1, <2>2, <3>1, <3>2, RequestCatalog, ZenonT(60) DEF Publishes, data
  <2>3. CASE p \in Drops
    <3>1. pc[p] # "advance" /\ ~reader
      BY <2>1, <2>3, Kinds, ZenonT(60) DEF Completing, CatalogInv, ReaderInv
    <3>2. QED
      BY <2>1, <2>3, <3>1, IdleChange, ZenonT(60) DEF data
  <2>4. QED
    BY <2>2, <2>3, Zenon
<1>3. QED
  BY <1>1, <1>2, Zenon

LEMMA AwaitCatalog ==
  ASSUME CatalogInv, UNCHANGED <<reader, pc, local, data>>
  PROVE  CatalogInv'
BY ZenonT(60) DEF CatalogInv, ReaderInv, CacheInv, Changing, ObservedAt, ReuseAt, Reusable, PlanAt, data

(* CREATE and abort leave the Active set alone.                             *)
LEMMA RecordCatalog ==
  ASSUME GateInv, CatalogInv, UNCHANGED reader, Create \/ Abort
  PROVE  CatalogInv'
<1>1. /\ UNCHANGED <<version, epoch, cache, pc, local>> /\ index'.state \in {"Building", "Aborting"}
      /\ ~reader
  BY CreateGates, AbortGates, Zenon DEF CatalogInv, ReaderInv
<1>2. index.state # "Active"
  BY Zenon DEF Create, Abort
<1>3. QED
  BY <1>1, <1>2, ZenonT(60) DEF CatalogInv, ReaderInv, CacheInv, Changing, ObservedAt, ReuseAt, Reusable, PlanAt

LEMMA FollowCatalog ==
  ASSUME GateInv, CatalogInv, UNCHANGED reader, Follow
  PROVE  CatalogInv'
<1>1. reader /\ UNCHANGED <<version, index, cache, pc, local>>
  BY FollowGates, Zenon
<1>2. QED
  BY <1>1, Zenon DEF CatalogInv, ReaderInv, CacheInv, Changing, ObservedAt, ReuseAt, Reusable, PlanAt

-----------------------------------------------------------------------------
(* The invariant. *)

LEMMA RequestKeeps ==
  ASSUME IInv, UNCHANGED reader, NEW r \in Requests, BeginRequest(r) \/ RequestStep(r)
  PROVE  IInv'
<1>0. GateInv /\ CatalogInv /\ r \in Procs
  BY Kinds, Zenon DEF IInv
<1>1. CASE BeginRequest(r) \/ GrantCatalog(r) \/ RepairBegins(r) \/ RepairEnds(r) \/ OpenView(r)
  BY Zenon, <1>0, <1>1, OpeningCatalog, BeginRequestGates, GrantCatalogGates, RepairBeginsGates,
     RepairEndsGates, OpenViewGates DEF IInv
<1>2. CASE Lookup(r) \/ Recheck(r) \/ Reuse(r)
  BY <1>0, <1>2, PlanningCatalog, LookupGates, RecheckGates, ReuseGates, ZenonT(60) DEF IInv
<1>3. CASE EndRead(r) \/ BeginWrite(r) \/ GrantMutation(r) \/ BeginTx(r)
  BY Zenon, <1>0, <1>3, WritingCatalog, EndReadGates, BeginWriteGates, GrantMutationGates,
     BeginTxGates DEF IInv
<1>4. CASE DropCatalogPermit(r) \/ BeginCommit(r) \/ Commit(r)
  BY <1>0, <1>4, CommittingCatalog, DropCatalogPermitGates, BeginCommitGates, CommitGates, ZenonT(60) DEF IInv
<1>5. CASE LoadCatalog(r)
  BY <1>0, <1>5, LoadingCatalog, LoadCatalogGates, Zenon DEF IInv
<1>6. CASE Await(r)
  BY <1>0, <1>6, AwaitGates, AwaitCatalog, Zenon DEF IInv
<1>7. QED
  BY <1>1, <1>2, <1>3, <1>4, <1>5, <1>6, Zenon DEF RequestStep

LEMMA DropKeeps ==
  ASSUME IInv, UNCHANGED reader, NEW d \in Drops, BeginDrop(d) \/ DropStep(d)
  PROVE  IInv'
<1>0. GateInv /\ CatalogInv /\ d \in Procs /\ d \in Drops \cup {Worker}
  BY Kinds, Zenon DEF IInv
<1>1. CASE BeginDrop(d) \/ GrantDrop(d) \/ AttemptDrop(d)
  BY <1>0, <1>1, DropCatalog, BeginDropGates, GrantDropGates, AttemptDropGates, Zenon DEF IInv
<1>2. CASE CommitDrop(d)
  BY <1>0, <1>2, CommitDropCatalog, CommitDropGates, Zenon DEF IInv
<1>3. CASE Advance(d) \/ Unlock(d)
  BY <1>0, <1>3, AdvanceCatalog, UnlockCatalog, AdvanceGates, UnlockGates, Zenon DEF IInv
<1>4. CASE Await(d)
  BY <1>0, <1>4, AwaitGates, AwaitCatalog, Zenon DEF IInv
<1>5. QED
  BY <1>1, <1>2, <1>3, <1>4, Zenon DEF DropStep

LEMMA WorkerKeeps ==
  ASSUME IInv, UNCHANGED reader, BeginStep \/ WorkerStep
  PROVE  IInv'
<1>0. GateInv /\ CatalogInv /\ Worker \in Procs /\ Worker \in Drops \cup {Worker}
  BY Kinds, Zenon DEF IInv
<1>1. CASE BeginStep \/ GrantStepCatalog \/ GrantFence \/ Unfence
  BY ZenonT(60), <1>0, <1>1, StepCatalog, BeginStepGates, GrantStepCatalogGates, GrantFenceGates,
     UnfenceGates DEF IInv
<1>2. CASE CommitStep
  BY <1>0, <1>2, CommitStepCatalog, CommitStepGates, ZenonT(60) DEF IInv
<1>3. CASE Advance(Worker) \/ Unlock(Worker)
  BY <1>0, <1>3, AdvanceCatalog, UnlockCatalog, AdvanceGates, UnlockGates, Zenon DEF IInv
<1>4. CASE Await(Worker)
  BY <1>0, <1>4, AwaitGates, AwaitCatalog, Zenon DEF IInv
<1>5. QED
  BY <1>1, <1>2, <1>3, <1>4, Zenon DEF WorkerStep

LEMMA RefresherKeeps ==
  ASSUME IInv, UNCHANGED reader, BeginRefresh \/ RefreshStep
  PROVE  IInv'
<1>0. GateInv /\ CatalogInv /\ Refresher \in Procs
  BY Kinds, Zenon DEF IInv
<1>1. CASE BeginRefresh \/ GrantRefresh \/ RefreshView \/ Refresh
  BY Zenon, <1>0, <1>1, RefresherCatalog, BeginRefreshGates, GrantRefreshGates, RefreshViewGates,
     RefreshGates DEF IInv
<1>2. CASE Await(Refresher)
  BY <1>0, <1>2, AwaitGates, AwaitCatalog, Zenon DEF IInv
<1>3. QED
  BY <1>1, <1>2, Zenon DEF RefreshStep

LEMMA StutterKeeps ==
  ASSUME IInv, UNCHANGED vars
  PROVE  IInv'
<1>1. CatalogInv' /\ DataType'
  BY AwaitCatalog, Zenon DEF IInv, GateInv, TypeOK, DataType, vars, data
<1>2. QED
  BY <1>1, FreeGates, Zenon DEF IInv, vars

LEMMA NextKeeps ==
  ASSUME IInv, [Next]_vars
  PROVE  IInv'
<1>0. GateInv /\ CatalogInv
  BY Zenon DEF IInv
<1>1. CASE Next
  <2>0. UNCHANGED reader /\ Act
    BY <1>1, Zenon DEF Next
  <2>1. CASE \E r \in Requests : BeginRequest(r) \/ RequestStep(r)
    BY <2>0, <2>1, RequestKeeps, Zenon
  <2>2. CASE \E d \in Drops : BeginDrop(d) \/ DropStep(d)
    BY <2>0, <2>2, DropKeeps, Zenon
  <2>3. CASE \E p \in Requests \cup Drops : Cancel(p) \/ Detach(p)
    BY <1>0, <2>0, <2>3, CallerCatalog, CancelGates, DetachGates, Zenon DEF IInv
  <2>4. CASE BeginStep \/ WorkerStep
    BY <2>0, <2>4, WorkerKeeps, Zenon
  <2>5. CASE BeginRefresh \/ RefreshStep
    BY <2>0, <2>5, RefresherKeeps, Zenon
  <2>6. CASE Create \/ Abort
    BY <1>0, <2>0, <2>6, RecordCatalog, CreateGates, AbortGates, Zenon DEF IInv
  <2>7. CASE Follow
    BY <1>0, <2>0, <2>7, FollowCatalog, FollowGates, Zenon DEF IInv
  <2>8. QED
    BY <2>0, <2>1, <2>2, <2>3, <2>4, <2>5, <2>6, <2>7, Zenon DEF Act
<1>2. CASE UNCHANGED vars
  BY <1>2, StutterKeeps, Zenon
<1>3. QED
  BY <1>1, <1>2, Zenon

(* In every reachable state each gate is held exactly by the processes whose *)
(* place in the code says so, and what they rely on holds.                   *)
THEOREM Invariance == Spec => []IInv
<1>1. Init => IInv
  BY GateInit, CatalogInit, Zenon DEF IInv
<1>2. IInv /\ [Next]_vars => IInv'
  BY NextKeeps, Zenon
<1>3. QED
  BY <1>1, <1>2, PTL DEF Spec

-----------------------------------------------------------------------------
(* The results. *)

(* Locks, processes, records and the catalog keep their types.              *)
THEOREM TypeCorrect == Spec => []TypeOK
<1>1. IInv => TypeOK
  BY Zenon DEF IInv, GateInv
<1>2. QED
  BY <1>1, Invariance, PTL

(* A catalog that planning finds reusable is the one a fresh load of the    *)
(* request's view would give, on a writer and on a reader.                  *)
THEOREM ReuseIsExact == Spec => []CachedCatalogIsExact
<1>1. IInv => CachedCatalogIsExact
  <2>1. ASSUME IInv, NEW r \in Requests, pc[r] \in {"lookup", "reuse"}, Reusable(local[r].observed)
        PROVE  cache.active = local[r].snap
    BY <2>1, ReusableIsExact, Zenon DEF IInv
  <2>2. QED
    BY <2>1, Zenon DEF CachedCatalogIsExact
<1>2. QED
  BY <1>1, Invariance, PTL

LEMMA OnlyCommitWrites ==
  ASSUME [Next]_vars, written' # written
  PROVE  \E r \in Requests : Commit(r)
<1> USE DEF data
<1>1. Act
  BY Zenon DEF Next, vars
<1>2. ASSUME NEW r \in Requests, BeginRequest(r) \/ RequestStep(r)  PROVE Commit(r)
  BY <1>2, Zenon DEF RequestStep, BeginRequest, Await, GrantCatalog, RepairBegins, RepairEnds, OpenView, Lookup,
     Recheck, Reuse, LoadCatalog, EndRead, BeginWrite, GrantMutation, BeginTx, DropCatalogPermit,
     BeginCommit
<1>3. ~ \E d \in Drops : BeginDrop(d) \/ DropStep(d)
  BY Zenon DEF BeginDrop, DropStep, Await, GrantDrop, AttemptDrop, CommitDrop, Advance, Unlock
<1>4. ~ \E p \in Requests \cup Drops : Cancel(p) \/ Detach(p)
  BY Zenon DEF Cancel, Detach
<1>5. ~(BeginStep \/ WorkerStep)
  BY Zenon DEF BeginStep, WorkerStep, Await, GrantStepCatalog, GrantFence, CommitStep, Advance, Unlock, Unfence
<1>6. ~(BeginRefresh \/ RefreshStep)
  BY Zenon DEF BeginRefresh, RefreshStep, Await, GrantRefresh, RefreshView, Refresh
<1>7. ~(Create \/ Abort \/ Follow)
  BY Zenon DEF Create, Abort, Follow
<1>8. QED
  BY <1>1, <1>2, <1>3, <1>4, <1>5, <1>6, <1>7, Zenon DEF Act

(* A transaction that commits was planned with the Active set it commits    *)
(* under: a DROP since then changed the record the commit compares.         *)
THEOREM PlansAreCurrent == Spec => WritesMatchTheirPlan
<1>1. ASSUME IInv, [Next]_vars, NEW r \in Requests, r \in written' \ written
      PROVE  local[r].plan = epoch /\ epoch' = epoch
  <2>1. PICK q \in Requests : Commit(q)
    BY <1>1, OnlyCommitWrites, Zenon
  <2>2. q = r /\ local[r].base.state = index.state /\ pc[r] = "commit" /\ epoch' = epoch
    BY <1>1, <2>1, Zenon DEF Commit, Go
  <2>3. PlanAt(r)
    BY <1>1, Zenon DEF IInv, CatalogInv
  <2>4. QED
    BY <2>2, <2>3, Zenon DEF PlanAt
<1>2. IInv /\ [Next]_vars =>
        [\A r \in Requests : r \in written' \ written => local[r].plan = epoch /\ epoch' = epoch]_vars
  BY <1>1, Zenon
<1>3. QED
  BY <1>2, Invariance, PTL DEF Spec, WritesMatchTheirPlan

(* No transaction commits under the fence of a lifecycle step, not even one *)
(* whose caller has gone.                                                   *)
THEOREM FencesExcludeWrites == Spec => FencedStepsSeeNoWrite
<1>1. ASSUME IInv, [Next]_vars, written' # written  PROVE Worker \notin held["mutation"]
  <2>1. PICK r \in Requests : Commit(r)
    BY <1>1, OnlyCommitWrites, Zenon
  <2>2. HoldsMutation(r)
    BY <2>1, Zenon DEF Commit, Go, HoldsMutation
  <2>3. QED
    BY <1>1, <2>2, AloneOnMutation, Zenon DEF IInv
<1>2. IInv /\ [Next]_vars => [written' # written => Worker \notin held["mutation"]]_vars
  BY <1>1, Zenon
<1>3. QED
  BY <1>2, Invariance, PTL DEF Spec, FencedStepsSeeNoWrite

-----------------------------------------------------------------------------
(* Deadlock. Who holds the refresh or the mutation gate waits for nothing;  *)
(* who holds the catalog gate waits for one of those at most.               *)

Runs(p) == pc[p] \notin {"idle", "done"} /\ \A l \in Locks : ~Contains(queue[l], p)

LEMMA BlockedIsHeld ==
  ASSUME GateInv, NEW l \in Locks, queue[l] # <<>>, ~Admits(l)
  PROVE  \E p \in Procs : p \in held[l]
<1>1. held[l] # {} /\ held[l] \subseteq Procs
  BY Zenon DEF Admits, GateInv, TypeOK, LockType
<1>2. QED
  BY <1>1, Zenon

LEMMA InnerHolderRuns ==
  ASSUME GateInv, NEW p \in Procs, p \in held["refresh"] \/ p \in held["mutation"]
  PROVE  Runs(p)
<1>1. HoldsRefresh(p) \/ HoldsMutation(p) \/ pc[p] = "unfence"
  BY Zenon DEF GateInv, Holders, Holder
<1>2. pc[p] \in {"repairing", "reuse", "load", "view", "begin", "opened", "writing", "commit",
                 "advance", "unlock", "step", "unfence"}
  BY <1>1, Zenon DEF HoldsRefresh, HoldsMutation
<1>3. \A l \in Locks : ~Wants(p, l)
  BY <1>2, Zenon DEF Wants
<1>4. QED
  BY <1>2, <1>3, Zenon DEF GateInv, Queues, Runs

LEMMA OuterHolderRuns ==
  ASSUME GateInv, NEW p \in Procs, p \in held["catalog"], queue["refresh"] = <<>>,
         queue["mutation"] = <<>>
  PROVE  Runs(p)
<1>1. HoldsCatalog(p)
  BY Zenon DEF GateInv, Holders, Holder
<1>2. pc[p] \notin {"idle", "done", "catalog"}
  BY <1>1, Zenon DEF HoldsCatalog
<1>3. ~Contains(queue["catalog"], p)
  BY <1>2, LockNames, Zenon DEF GateInv, Queues, Wants
<1>4. ~Contains(<<>>, p)
  BY DEF Contains
<1>5. QED
  BY <1>2, <1>3, <1>4, Zenon DEF Runs, Locks

(* While a gate is waited for, some gate lets its next waiter in or some    *)
(* process runs that waits for none.                                        *)
THEOREM NoGateDeadlock == Spec => []GatesNeverDeadlock
<1>1. IInv => GatesNeverDeadlock
  <2>1. SUFFICES ASSUME GateInv, NEW l \in Locks, queue[l] # <<>>, \A m \in Locks : ~Admits(m)
                 PROVE  \E p \in Procs : Runs(p)
    BY Zenon DEF GatesNeverDeadlock, Runs, IInv
  <2>2. CASE queue["refresh"] # <<>> \/ queue["mutation"] # <<>>
    BY <2>1, <2>2, LockNames, BlockedIsHeld, InnerHolderRuns, Zenon
  <2>3. CASE queue["refresh"] = <<>> /\ queue["mutation"] = <<>>
    <3>1. l = "catalog"
      BY <2>1, <2>3, Zenon DEF Locks
    <3>2. PICK p \in Procs : p \in held["catalog"]
      BY <2>1, <3>1, BlockedIsHeld, Zenon
    <3>3. QED
      BY <2>1, <2>3, <3>2, OuterHolderRuns, Zenon
  <2>4. QED
    BY <2>2, <2>3, Zenon
<1>2. QED
  BY <1>1, Invariance, PTL
=============================================================================
