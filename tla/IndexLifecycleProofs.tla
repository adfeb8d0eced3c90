------------------------ MODULE IndexLifecycleProofs ------------------------
(***************************************************************************)
(* Proofs about IndexLifecycle, for any set of indexes, any number of      *)
(* operations, steps, faults and crashes, and any concurrency.             *)
(*                                                                         *)
(* DurableInv is about the records alone: it holds at every commit,        *)
(* whoever makes it.  WorkerInv is about the claims and the tasks of the   *)
(* running process, and needs DurableInv to know that a claim that is not  *)
(* Current is a claim no more.                                             *)
(***************************************************************************)
EXTENDS IndexLifecycle, TLAPS

\* What validate_link compares of an index and the operation it retains.
Agree(x, r) ==
  /\ r.gen = x.gen /\ r.indexRev = x.rev
  /\ r.kind = "Drop" <=> r.phase = "cleanup"
  /\ x.state = "Building" => r.phase = "constructing" /\ r.exec \notin Outcomes
  /\ x.state = "Active"   => r.phase = "constructing" /\ r.exec = "BuildSucceeded"
  /\ x.state = "Aborting" => r.phase = "aborting" /\ r.exec \notin Outcomes
  /\ x.state = "Dropping" => r.phase = "cleanup" /\ r.exec \notin Outcomes
  /\ x.state = "Dropped"  => r.exec = IF r.kind = "Build" THEN "BuildAborted" ELSE "DropSucceeded"

PointerFor(r) == IF r.exec \in Runnable THEN r.rev ELSE 0

DurableType ==
  /\ index \in [Indexes -> IndexRecord]
  /\ op \in [Ops -> OperationRecord \cup {None}]
  /\ pointer \in [Ops -> Nat]
  /\ nextOp \in 1..MaxOps + 1

\* An index and the operation it retains name each other.
Retained(i) ==
  LET o == index[i].op IN
    IF index[i].state = "Absent" THEN o = 0
    ELSE o \in Ops /\ o < nextOp /\ op[o] # None /\ op[o].on = i /\ Agree(index[i], op[o])

DurableInv ==
  /\ DurableType
  /\ \A i \in Indexes : Retained(i)
  /\ \A o \in Ops : op[o] # None => index[op[o].on].op = o
  /\ \A o \in Ops : pointer[o] = IF op[o] = None THEN 0 ELSE PointerFor(op[o])

TaskRecord == [op : Ops, rev : Nat, at : {"run", "release", "block"}]

WorkerType ==
  /\ mode \in Modes /\ epoch \in Nat /\ cycle \in {"dispatch", "drain"}
  /\ targets \in SUBSET Ops
  /\ tasks \in SUBSET TaskRecord
  /\ faults \in 0..MaxFaults /\ crashes \in 0..MaxCrashes

\* No record carries a claim or a delay of an epoch yet to come.
EpochsPast == \A o \in Ops : op[o] # None => op[o].epoch <= epoch

WorkerInv == WorkerType /\ EpochsPast /\ OneTaskPerOperation /\ ClaimsAreOwned

IInv == DurableInv /\ proof \in BOOLEAN /\ WorkerInv

-----------------------------------------------------------------------------
(* What the transitions of an operation record leave and change. *)

LEMMA AdvancedFields ==
  ASSUME NEW r \in OperationRecord, NEW e \in Runnable \cup {"Blocked"} \cup Outcomes
  PROVE  /\ Advanced(r, e) \in OperationRecord
         /\ Advanced(r, e).on = r.on /\ Advanced(r, e).kind = r.kind
         /\ Advanced(r, e).gen = r.gen /\ Advanced(r, e).indexRev = r.indexRev
         /\ Advanced(r, e).phase = r.phase /\ Advanced(r, e).exec = e
         /\ Advanced(r, e).rev = r.rev + 1 /\ Advanced(r, e).epoch = 0
         /\ Advanced(r, e).left = r.left
PROOF
  <1> DEFINE a == [r EXCEPT !.rev = @ + 1]
             b == [a EXCEPT !.exec = e]
             c == [b EXCEPT !.epoch = 0]
             d == [c EXCEPT !.delayed = FALSE]
  <1>1. Advanced(r, e) = d
    BY Zenon DEF Advanced
  <1>2. a \in OperationRecord /\ a.rev = r.rev + 1
    BY DEF OperationRecord
  <1>3. b \in OperationRecord
    BY <1>2, Zenon DEF OperationRecord
  <1>4. c \in OperationRecord
    BY <1>3, Zenon DEF OperationRecord
  <1>5. d \in OperationRecord
    BY <1>4, Zenon DEF OperationRecord
  <1>6. /\ d.on = r.on /\ d.kind = r.kind /\ d.gen = r.gen /\ d.indexRev = r.indexRev
        /\ d.phase = r.phase /\ d.left = r.left /\ d.rev = a.rev /\ d.exec = e /\ d.epoch = 0
    BY Zenon DEF OperationRecord
  <1> QED BY <1>1, <1>2, <1>5, <1>6, Zenon

LEMMA ClaimedFields ==
  ASSUME NEW r \in OperationRecord, epoch \in Nat
  PROVE  /\ Claimed(r) \in OperationRecord
         /\ Claimed(r).on = r.on /\ Claimed(r).kind = r.kind
         /\ Claimed(r).gen = r.gen /\ Claimed(r).indexRev = r.indexRev
         /\ Claimed(r).phase = r.phase /\ Claimed(r).exec = "Claimed"
         /\ Claimed(r).rev = r.rev + 1 /\ Claimed(r).epoch = epoch
BY AdvancedFields DEF Claimed, OperationRecord, Runnable

LEMMA ProgressedFields ==
  ASSUME NEW r \in OperationRecord, r.left > 0
  PROVE  /\ Progressed(r) \in OperationRecord
         /\ Progressed(r).on = r.on /\ Progressed(r).kind = r.kind
         /\ Progressed(r).gen = r.gen /\ Progressed(r).indexRev = r.indexRev
         /\ Progressed(r).phase = r.phase /\ Progressed(r).exec = "Queued"
         /\ Progressed(r).epoch = 0
PROOF
  <1> DEFINE a == Advanced(r, "Queued")
  <1>1. a.left - 1 \in Nat /\ a \in OperationRecord
    BY AdvancedFields DEF OperationRecord, Runnable
  <1>2. Progressed(r) = [a EXCEPT !.left = a.left - 1]
    BY Zenon DEF Progressed
  <1>3. [a EXCEPT !.left = a.left - 1] \in OperationRecord
    BY <1>1, Zenon DEF OperationRecord
  <1> HIDE DEF a
  <1>4. /\ Progressed(r).on = a.on /\ Progressed(r).kind = a.kind
        /\ Progressed(r).gen = a.gen /\ Progressed(r).indexRev = a.indexRev
        /\ Progressed(r).phase = a.phase /\ Progressed(r).exec = a.exec
        /\ Progressed(r).epoch = a.epoch
    BY <1>1, <1>2, Zenon DEF OperationRecord
  <1> QED BY <1>2, <1>3, <1>4, AdvancedFields DEF a, Runnable

LEMMA TransientFields ==
  ASSUME NEW r \in OperationRecord
  PROVE  /\ TransientFailure(r) \in OperationRecord
         /\ TransientFailure(r).on = r.on /\ TransientFailure(r).kind = r.kind
         /\ TransientFailure(r).gen = r.gen /\ TransientFailure(r).indexRev = r.indexRev
         /\ TransientFailure(r).phase = r.phase /\ TransientFailure(r).exec = "Queued"
         /\ TransientFailure(r).epoch = r.epoch
PROOF
  <1> DEFINE a == Advanced(r, "Queued")
             b == [a EXCEPT !.epoch = r.epoch]
  <1>1. a \in OperationRecord
    BY AdvancedFields, Zenon DEF Runnable
  <1>2. TransientFailure(r) = [b EXCEPT !.delayed = TRUE]
    BY Zenon DEF TransientFailure
  <1> HIDE DEF a
  <1>3. b \in OperationRecord
    BY <1>1, Zenon DEF OperationRecord
  <1>4. [b EXCEPT !.delayed = TRUE] \in OperationRecord
    BY <1>3, Zenon DEF OperationRecord
  <1>5. /\ TransientFailure(r).on = a.on /\ TransientFailure(r).kind = a.kind
        /\ TransientFailure(r).gen = a.gen /\ TransientFailure(r).indexRev = a.indexRev
        /\ TransientFailure(r).phase = a.phase /\ TransientFailure(r).exec = a.exec
        /\ TransientFailure(r).epoch = r.epoch
    BY <1>1, <1>2, Zenon DEF OperationRecord
  <1> QED BY <1>2, <1>4, <1>5, AdvancedFields DEF a, Runnable

LEMMA CompletedFields ==
  ASSUME NEW r \in OperationRecord, NEW outcome \in Outcomes, NEW n \in Nat
  PROVE  /\ Completed(r, outcome, n) \in OperationRecord
         /\ Completed(r, outcome, n).on = r.on /\ Completed(r, outcome, n).kind = r.kind
         /\ Completed(r, outcome, n).gen = r.gen /\ Completed(r, outcome, n).indexRev = n
         /\ Completed(r, outcome, n).phase = r.phase /\ Completed(r, outcome, n).exec = outcome
         /\ Completed(r, outcome, n).epoch = 0
BY AdvancedFields DEF Completed, OperationRecord

LEMMA AbortingFields ==
  ASSUME NEW r \in OperationRecord, NEW n \in Nat
  PROVE  /\ Aborting(r, n) \in OperationRecord
         /\ Aborting(r, n).on = r.on /\ Aborting(r, n).kind = r.kind
         /\ Aborting(r, n).gen = r.gen /\ Aborting(r, n).indexRev = n
         /\ Aborting(r, n).phase = "aborting" /\ Aborting(r, n).exec = "Queued"
         /\ Aborting(r, n).epoch = 0
PROOF
  <1> DEFINE a == Advanced(r, "Queued")
             b == [a EXCEPT !.indexRev = n]
             c == [b EXCEPT !.phase = "aborting"]
  <1>1. a \in OperationRecord
    BY AdvancedFields, Zenon DEF Runnable
  <1>2. Aborting(r, n) = [c EXCEPT !.left = CleanupSteps]
    BY Zenon DEF Aborting
  <1> HIDE DEF a
  <1>3. b \in OperationRecord
    BY <1>1, Zenon DEF OperationRecord
  <1>4. c \in OperationRecord
    BY <1>3, Zenon DEF OperationRecord
  <1>5. [c EXCEPT !.left = CleanupSteps] \in OperationRecord
    BY <1>4, ConstantsAssumption, Zenon DEF OperationRecord
  <1>6. /\ Aborting(r, n).on = a.on /\ Aborting(r, n).kind = a.kind
        /\ Aborting(r, n).gen = a.gen /\ Aborting(r, n).indexRev = n
        /\ Aborting(r, n).phase = "aborting" /\ Aborting(r, n).exec = a.exec
        /\ Aborting(r, n).epoch = a.epoch
    BY <1>1, <1>2, Zenon DEF OperationRecord
  <1> QED BY <1>2, <1>5, <1>6, AdvancedFields DEF a, Runnable

LEMMA OperationFields ==
  ASSUME NEW i \in Indexes, NEW kind \in {"Build", "Drop"}, NEW g \in Nat, NEW n \in Nat
  PROVE  /\ Operation(i, kind, g, n) \in OperationRecord
         /\ Operation(i, kind, g, n).on = i /\ Operation(i, kind, g, n).kind = kind
         /\ Operation(i, kind, g, n).gen = g /\ Operation(i, kind, g, n).indexRev = n
         /\ Operation(i, kind, g, n).phase = IF kind = "Build" THEN "constructing" ELSE "cleanup"
         /\ Operation(i, kind, g, n).exec = "Queued" /\ Operation(i, kind, g, n).rev = 1
         /\ Operation(i, kind, g, n).epoch = 0
BY ConstantsAssumption DEF Operation, OperationRecord, Runnable

\* IndexRecordV2::transition, from the state it expects.
LEMMA TransitionFields ==
  ASSUME NEW x \in IndexRecord, NEW from, x.state = from,
         NEW to \in {"Active", "Aborting", "Dropping", "Dropped"},
         NEW y, y = Transition(x, from, to)
  PROVE  /\ y \in IndexRecord /\ y.state = to /\ y.gen = x.gen /\ y.op = x.op
         /\ y.gen \in Nat /\ y.rev \in Nat
PROOF
  <1> DEFINE z == [x EXCEPT !.state = to]
  <1>1. y = [z EXCEPT !.rev = z.rev + 1]
    BY Zenon DEF Transition, IndexRecord
  <1>2. z \in IndexRecord /\ z.rev + 1 \in Nat
    BY DEF IndexRecord
  <1>3. z.state = to /\ z.gen = x.gen /\ z.op = x.op
    BY Zenon DEF IndexRecord
  <1> HIDE DEF z
  <1>4. [z EXCEPT !.rev = z.rev + 1] \in IndexRecord
    BY <1>2, Zenon DEF IndexRecord
  <1> QED BY <1>1, <1>2, <1>3, <1>4, Zenon DEF IndexRecord

-----------------------------------------------------------------------------
(* The durable records. *)

LEMMA Linked ==
  ASSUME DurableInv, NEW o \in Ops, op[o] # None
  PROVE  /\ op[o] \in OperationRecord /\ op[o].on \in Indexes
         /\ index[op[o].on] \in IndexRecord /\ index[op[o].on].op = o
         /\ index[op[o].on].state # "Absent" /\ o < nextOp
         /\ Agree(index[op[o].on], op[o])
PROOF
  <1>1. op[o] \in OperationRecord /\ op[o].on \in Indexes
    BY Zenon DEF DurableInv, DurableType, OperationRecord
  <1>2. index[op[o].on] \in IndexRecord /\ index[op[o].on].op = o /\ o # 0
    BY <1>1 DEF DurableInv, DurableType, Ops
  <1>3. Retained(op[o].on)
    BY <1>1, Zenon DEF DurableInv
  <1> QED BY <1>1, <1>2, <1>3, Zenon DEF Retained

\* A transaction that rewrites an operation together with the index that
\* retains it keeps the records valid if the two agree.
LEMMA RelinkOK ==
  ASSUME DurableInv, NEW o \in Ops, op[o] # None,
         NEW x \in IndexRecord, NEW r \in OperationRecord,
         r.on = op[o].on, x.op = o, x.state # "Absent", Agree(x, r),
         index' = [index EXCEPT ![r.on] = x], Write(o, r), UNCHANGED nextOp
  PROVE  DurableInv'
PROOF
  <1>1. /\ r.on \in Indexes /\ index[r.on].op = o /\ o < nextOp
    BY Linked, Zenon
  <1>2. r # None
    BY NoneAssumption, Zenon
  <1>3. /\ op' = [op EXCEPT ![o] = r]
        /\ pointer' = [pointer EXCEPT ![o] = PointerFor(r)]
        /\ PointerFor(r) \in Nat
    BY Zenon DEF Write, PointerFor, OperationRecord
  <1>4. DurableType'
    BY <1>1, <1>3, Zenon DEF DurableInv, DurableType
  <1>5. op'[o] = r /\ index'[r.on] = x /\ pointer'[o] = PointerFor(r)
    BY <1>1, <1>3, Zenon DEF DurableInv, DurableType
  <1>6. \A q \in Ops \ {o} : op'[q] = op[q] /\ pointer'[q] = pointer[q]
    BY <1>3, Zenon DEF DurableInv, DurableType
  <1>7. \A i \in Indexes \ {r.on} : index'[i] = index[i]
    BY Zenon DEF DurableInv, DurableType
  <1>8. ASSUME NEW i \in Indexes PROVE Retained(i)'
    <2>1. CASE i = r.on
      BY <1>1, <1>2, <1>5, <2>1, Zenon DEF Retained
    <2>2. CASE i # r.on
      <3>1. Retained(i)
        BY Zenon DEF DurableInv
      <3>2. index[i].op # o
        BY <2>2, <3>1 DEF Retained, Ops
      <3> QED BY <1>6, <1>7, <2>2, <3>1, <3>2 DEF Retained
    <2> QED BY <2>1, <2>2, Zenon
  <1>9. ASSUME NEW q \in Ops, op'[q] # None PROVE index'[op'[q].on].op = q
    <2>1. CASE q = o
      BY <1>5, <2>1, Zenon
    <2>2. CASE q # o
      <3>1. op[q] # None /\ op'[q] = op[q]
        BY <1>6, <1>9, <2>2, Zenon
      <3>2. op[q].on \in Indexes /\ index[op[q].on].op = q
        BY <3>1, Linked, Zenon
      <3> QED BY <1>1, <1>7, <2>2, <3>1, <3>2, Zenon
    <2> QED BY <2>1, <2>2, Zenon
  <1>10. \A q \in Ops : pointer'[q] = IF op'[q] = None THEN 0 ELSE PointerFor(op'[q])
    BY <1>2, <1>5, <1>6 DEF DurableInv
  <1> QED BY <1>4, <1>8, <1>9, <1>10, Zenon DEF DurableInv, Retained, PointerFor

\* A transaction that moves an operation between the states of one phase, and
\* leaves its index alone.
LEMMA RewriteOK ==
  ASSUME DurableInv, NEW o \in Ops, op[o] # None, NEW r \in OperationRecord,
         r.on = op[o].on, r.kind = op[o].kind, r.gen = op[o].gen,
         r.indexRev = op[o].indexRev, r.phase = op[o].phase,
         op[o].exec \notin Outcomes, r.exec \notin Outcomes,
         Write(o, r), UNCHANGED <<index, nextOp>>
  PROVE  DurableInv'
PROOF
  <1> DEFINE x == index[r.on]
  <1>1. /\ r.on \in Indexes /\ x \in IndexRecord /\ x.op = o /\ x.state # "Absent"
        /\ Agree(x, op[o])
    BY Linked, Zenon
  <1>2. index' = [index EXCEPT ![r.on] = x]
    BY <1>1, Zenon DEF DurableInv, DurableType
  <1>3. Agree(x, r)
    BY <1>1, Zenon DEF Agree, Outcomes, OperationRecord
  <1> QED BY <1>1, <1>2, <1>3, RelinkOK, Zenon

\* stage_operation: the index gets a fresh operation, the old one is gone.
LEMMA StageOK ==
  ASSUME DurableInv, NEW i \in Indexes, NEW x \in IndexRecord, NEW r \in OperationRecord,
         index[i].state \in {"Absent", "Active", "Dropped"},
         r.on = i, x.state # "Absent", Agree(x, r), r.exec = "Queued", Stage(i, x, r)
  PROVE  DurableInv'
PROOF
  <1> DEFINE y == [x EXCEPT !.op = nextOp]
  <1>1. nextOp \in Ops /\ nextOp' = nextOp + 1 /\ nextOp' \in 1..MaxOps + 1
    BY ConstantsAssumption DEF Stage, DurableInv, DurableType, Ops
  <1>2. /\ y \in IndexRecord /\ y.op = nextOp /\ y.state = x.state
        /\ y.gen = x.gen /\ y.rev = x.rev
    BY <1>1, ConstantsAssumption DEF IndexRecord, Ops
  <1>3. Agree(y, r)
    BY <1>2, Zenon DEF Agree
  <1>4. /\ index' = [index EXCEPT ![i] = y]
        /\ op' = [o \in Ops |-> IF o = nextOp THEN r ELSE IF o = index[i].op THEN None ELSE op[o]]
        /\ pointer' = [pointer EXCEPT ![nextOp] = r.rev]
    BY Zenon DEF Stage
  <1>5. r # None /\ PointerFor(r) = r.rev /\ r.rev \in Nat
    BY NoneAssumption, Zenon DEF PointerFor, OperationRecord, Runnable
  <1> HIDE DEF y
  <1>6. DurableType'
    BY <1>1, <1>2, <1>4, <1>5, Zenon DEF DurableInv, DurableType
  <1>7. /\ op'[nextOp] = r /\ index'[i] = y /\ pointer'[nextOp] = r.rev
        /\ \A q \in Ops \ {nextOp} : pointer'[q] = pointer[q]
        /\ \A q \in Ops \ {nextOp} : op'[q] = IF q = index[i].op THEN None ELSE op[q]
        /\ \A j \in Indexes \ {i} : index'[j] = index[j]
    BY <1>1, <1>4, Zenon DEF DurableInv, DurableType
  <1>8. ASSUME NEW j \in Indexes PROVE Retained(j)'
    <2>1. CASE j = i
      BY <1>1, <1>2, <1>3, <1>5, <1>7, <2>1 DEF Retained, Ops
    <2>2. CASE j # i
      <3>1. Retained(j) /\ Retained(i)
        BY Zenon DEF DurableInv
      <3>2. CASE index[j].state = "Absent"
        BY <1>7, <2>2, <3>1, <3>2, Zenon DEF Retained
      <3>3. CASE index[j].state # "Absent"
        <4>1. index[j].op \in Ops \ {nextOp} /\ op[index[j].op].on = j
          BY <1>1, <3>1, <3>3 DEF Retained, Ops
        <4>2. index[j].op # index[i].op
          BY <2>2, <3>1, <4>1 DEF Retained, Ops
        <4>3. op'[index[j].op] = op[index[j].op] /\ index'[j] = index[j]
          BY <1>7, <2>2, <4>1, <4>2, Zenon
        <4>4. index[j].op < nextOp'
          BY <1>1, <3>1, <3>3 DEF Retained, Ops
        <4> QED BY <3>1, <3>3, <4>1, <4>3, <4>4, Zenon DEF Retained
      <3> QED BY <3>2, <3>3, Zenon
    <2> QED BY <2>1, <2>2, Zenon
  <1>9. ASSUME NEW q \in Ops, op'[q] # None PROVE index'[op'[q].on].op = q
    <2>1. CASE q = nextOp
      BY <1>2, <1>7, <2>1, Zenon
    <2>2. CASE q # nextOp
      <3>1. op[q] # None /\ op'[q] = op[q] /\ q # index[i].op
        BY <1>7, <1>9, <2>2, Zenon
      <3>2. op[q].on \in Indexes /\ index[op[q].on].op = q
        BY <3>1, Linked, Zenon
      <3> QED BY <1>7, <3>1, <3>2
    <2> QED BY <2>1, <2>2, Zenon
  <1>10. ASSUME NEW q \in Ops
         PROVE  pointer'[q] = IF op'[q] = None THEN 0 ELSE PointerFor(op'[q])
    <2>1. CASE q = nextOp
      BY <1>5, <1>7, <2>1, Zenon
    <2>2. CASE q # nextOp /\ q = index[i].op
      <3>1. op[q] # None /\ op[q].exec \in Outcomes
        BY <2>2, Linked DEF DurableInv, Retained, Agree, Ops, Outcomes
      <3>2. pointer[q] = 0
        BY <3>1, Zenon DEF DurableInv, PointerFor, Runnable, Outcomes
      <3> QED BY <1>7, <2>2, <3>2, Zenon
    <2>3. CASE q # nextOp /\ q # index[i].op
      BY <1>7, <2>3, Zenon DEF DurableInv
    <2> QED BY <2>1, <2>2, <2>3, Zenon
  <1> QED BY <1>6, <1>8, <1>9, <1>10, Zenon DEF DurableInv, Retained, PointerFor

-----------------------------------------------------------------------------
(* The transactions, one by one. *)

LEMMA CreateDurable == ASSUME DurableInv, NEW i \in Indexes, Create(i) PROVE DurableInv'
PROOF
  <1> DEFINE a == [index[i] EXCEPT !.state = "Building"]
             b == [a EXCEPT !.gen = @ + 1]
             x == [b EXCEPT !.rev = @ + 1]
  <1>1. index[i] \in IndexRecord
    BY Zenon DEF DurableInv, DurableType
  <1>2. Stage(i, x, Operation(i, "Build", x.gen, x.rev))
    BY Zenon DEF Create
  <1>3. a \in IndexRecord /\ a.state = "Building"
    BY <1>1, Zenon DEF IndexRecord
  <1> HIDE DEF a
  <1>4. b \in IndexRecord /\ b.state = "Building"
    BY <1>3 DEF IndexRecord
  <1> HIDE DEF b
  <1>5. x \in IndexRecord /\ x.state = "Building" /\ x.gen \in Nat /\ x.rev \in Nat
    BY <1>4 DEF IndexRecord
  <1> HIDE DEF x
  <1>6. Agree(x, Operation(i, "Build", x.gen, x.rev))
    BY <1>5, OperationFields DEF Agree, Outcomes
  <1> QED BY <1>2, <1>5, <1>6, OperationFields, StageOK DEF Create

LEMMA DropActiveDurable == ASSUME DurableInv, NEW i \in Indexes, DropActive(i) PROVE DurableInv'
PROOF
  <1> DEFINE x == Transition(index[i], "Active", "Dropping")
  <1>1. index[i] \in IndexRecord /\ index[i].state = "Active"
    BY Zenon DEF DurableInv, DurableType, DropActive
  <1>2. x \in IndexRecord /\ x.state = "Dropping" /\ x.gen \in Nat /\ x.rev \in Nat
    BY <1>1, TransitionFields
  <1>3. Stage(i, x, Operation(i, "Drop", x.gen, x.rev))
    BY Zenon DEF DropActive
  <1> HIDE DEF x
  <1>4. Agree(x, Operation(i, "Drop", x.gen, x.rev))
    BY <1>2, OperationFields DEF Agree, Outcomes
  <1> QED BY <1>1, <1>2, <1>3, <1>4, OperationFields, StageOK

LEMMA BeginAbortDurable ==
  ASSUME DurableInv, NEW i \in Indexes, index[i].state = "Building", BeginAbort(i)
  PROVE  DurableInv'
PROOF
  <1> DEFINE x == Transition(index[i], "Building", "Aborting")
             o == index[i].op
             r == Aborting(op[o], x.rev)
  <1>1. index[i] \in IndexRecord
    BY Zenon DEF DurableInv, DurableType
  <1>2. /\ x \in IndexRecord /\ x.state = "Aborting" /\ x.gen = index[i].gen /\ x.rev \in Nat
        /\ x.op = o
    BY <1>1, TransitionFields
  <1>3. o \in Ops /\ op[o] # None /\ op[o].on = i /\ Agree(index[i], op[o])
    BY Zenon DEF DurableInv, Retained
  <1>4. op[o] \in OperationRecord
    BY <1>3, Linked, Zenon
  <1>5. /\ index' = [index EXCEPT ![i] = x] /\ UNCHANGED nextOp
        /\ Write(x.op, Aborting(op[x.op], x.rev))
    BY Zenon DEF BeginAbort
  <1> HIDE DEF x
  <1>6. r \in OperationRecord /\ r.on = i /\ Agree(x, r)
    BY <1>2, <1>3, <1>4, AbortingFields DEF Agree, Outcomes
  <1> QED BY <1>2, <1>3, <1>5, <1>6, RelinkOK, Zenon

\* A claim that is still Current is one of a runnable operation.
LEMMA CurrentRuns ==
  ASSUME DurableInv, NEW o \in Ops, op[o] # None, pointer[o] # 0
  PROVE  op[o] \in OperationRecord /\ op[o].exec \in Runnable /\ op[o].exec \notin Outcomes
BY Linked, Zenon DEF DurableInv, PointerFor, Runnable, Outcomes

\* The deadline passes in the record alone.
LEMMA DelayElapsesDurable == ASSUME DurableInv, NEW o \in Ops, DelayElapses(o) PROVE DurableInv'
PROOF
  <1> DEFINE r == [op[o] EXCEPT !.delayed = FALSE]
  <1>1. op[o] # None /\ op[o] \in OperationRecord
    BY Linked, Zenon DEF DelayElapses
  <1>2. op' = [op EXCEPT ![o] = r] /\ UNCHANGED <<index, pointer, nextOp>>
    BY Zenon DEF DelayElapses
  <1>3. /\ r \in OperationRecord
        /\ r.on = op[o].on /\ r.kind = op[o].kind /\ r.gen = op[o].gen /\ r.indexRev = op[o].indexRev
        /\ r.phase = op[o].phase /\ r.exec = op[o].exec /\ r.rev = op[o].rev
    BY <1>1, ZenonT(60) DEF OperationRecord
  <1> HIDE DEF r
  <1>4. r # None
    BY <1>3, NoneAssumption, Zenon
  <1>5. op'[o] = r /\ \A q \in Ops \ {o} : op'[q] = op[q]
    BY <1>2, Zenon DEF DurableInv, DurableType
  <1>6. DurableType'
    BY <1>2, <1>3, Zenon DEF DurableInv, DurableType
  <1>7. ASSUME NEW i \in Indexes PROVE Retained(i)'
    <2>1. Retained(i)
      BY Zenon DEF DurableInv
    <2>2. CASE index[i].op = o
      BY <1>2, <1>3, <1>4, <1>5, <2>1, <2>2 DEF Retained, Agree
    <2>3. CASE index[i].op # o
      BY <1>2, <1>5, <2>1, <2>3, Zenon DEF Retained
    <2> QED BY <2>2, <2>3, Zenon
  <1>8. \A q \in Ops : op'[q] # None => index'[op'[q].on].op = q
    BY <1>1, <1>2, <1>3, <1>5 DEF DurableInv
  <1>9. \A q \in Ops : pointer'[q] = IF op'[q] = None THEN 0 ELSE PointerFor(op'[q])
    BY <1>1, <1>2, <1>3, <1>4, <1>5 DEF DurableInv, PointerFor
  <1> QED BY <1>6, <1>7, <1>8, <1>9, Zenon DEF DurableInv, Retained, PointerFor

Moved(i, from, to) ==
  index[i].state = from /\ index' = [index EXCEPT ![i] = Transition(index[i], from, to)]

\* The driver's last step publishes the index's next state.
LEMMA StepCompletedDurable ==
  ASSUME DurableInv, NEW t, t.op \in Ops, StepCompleted(t)
  PROVE  /\ DurableInv'
         /\ \E outcome \in Outcomes, n \in Nat : Write(t.op, Completed(op[t.op], outcome, n))
         /\ LET i == op[t.op].on IN
              Moved(i, "Building", "Active") \/ Moved(i, "Aborting", "Dropped")
                \/ Moved(i, "Dropping", "Dropped")
PROOF
  <1> DEFINE o == t.op
             r == op[o]
             i == r.on
  <1>1. r # None /\ pointer[o] # 0
    BY Zenon DEF StepCompleted, Current
  <1>2. /\ r \in OperationRecord /\ r.exec \notin Outcomes /\ i \in Indexes
        /\ index[i] \in IndexRecord /\ index[i].op = o /\ index[i].state # "Absent"
        /\ Agree(index[i], r)
    BY <1>1, CurrentRuns, Linked, Zenon
  <1>3. UNCHANGED nextOp
    BY Zenon DEF StepCompleted, Committed
  <1>4. ASSUME NEW from, NEW to \in {"Active", "Dropped"}, NEW outcome \in Outcomes,
               Moved(i, from, to),
               to = "Active" => from = "Building" /\ outcome = "BuildSucceeded",
               to = "Dropped" => outcome = IF r.kind = "Build" THEN "BuildAborted"
                                           ELSE "DropSucceeded",
               Write(o, Completed(r, outcome, Transition(index[i], from, to).rev))
        PROVE  /\ DurableInv'
               /\ \E e \in Outcomes, n \in Nat : Write(o, Completed(r, e, n))
    <2> DEFINE x == Transition(index[i], from, to)
               s == Completed(r, outcome, x.rev)
    <2>1. /\ x \in IndexRecord /\ x.state = to /\ x.gen = index[i].gen /\ x.op = o
          /\ x.rev \in Nat
      <3>1. index[i] \in IndexRecord /\ index[i].state = from
        BY <1>2, <1>4, Zenon DEF Moved
      <3>2. PICK y : y = Transition(index[i], from, to)
        BY Zenon
      <3>3. /\ y \in IndexRecord /\ y.state = to /\ y.gen = index[i].gen
            /\ y.op = index[i].op /\ y.rev \in Nat
        BY <1>4, <3>1, <3>2, TransitionFields
      <3> QED BY <1>2, <3>2, <3>3, Zenon
    <2>2. Write(o, s) /\ index' = [index EXCEPT ![i] = x]
      BY <1>4, Zenon DEF Moved
    <2> HIDE DEF x
    <2>3. /\ s \in OperationRecord /\ s.on = i /\ s.kind = r.kind /\ s.gen = r.gen
          /\ s.indexRev = x.rev /\ s.phase = r.phase /\ s.exec = outcome
      BY <1>2, <2>1, CompletedFields
    <2> HIDE DEF s
    <2>4. r.kind = "Drop" <=> r.phase = "cleanup"
      BY <1>2, Zenon DEF Agree
    <2>5. to = "Active" => r.phase = "constructing"
      BY <1>2, <1>4, ZenonT(60) DEF Agree, Moved
    <2>6. Agree(x, s)
      BY <1>2, <1>4, <2>1, <2>3, <2>4, <2>5, ZenonT(60) DEF Agree
    <2>7. DurableInv'
      BY <1>1, <1>2, <1>3, <2>1, <2>2, <2>3, <2>6, RelinkOK, ZenonT(60)
    <2>8. \E e \in Outcomes, n \in Nat : Write(o, Completed(r, e, n))
      BY <2>1, <2>2, Zenon DEF s
    <2> QED BY <2>7, <2>8, Zenon
  <1>5. r.kind = "Drop" <=> r.phase = "cleanup"
    BY <1>2, Zenon DEF Agree
  <1>6. CASE r.phase = "constructing"
    <2>1. index[i].state = "Building"
      BY <1>2, <1>5, <1>6, Zenon DEF Agree, Outcomes, IndexRecord, OperationRecord
    <2>2. /\ Moved(i, "Building", "Active")
          /\ Write(o, Completed(r, "BuildSucceeded", Transition(index[i], "Building", "Active").rev))
      BY <1>6, <2>1, Zenon DEF StepCompleted, Moved
    <2> QED BY <1>4, <2>1, <2>2, Zenon DEF Outcomes
  <1>7. CASE r.phase = "aborting"
    <2>1. index[i].state = "Aborting" /\ r.kind = "Build"
      BY <1>2, <1>5, <1>7, Zenon DEF Agree, Outcomes, IndexRecord, OperationRecord
    <2>2. /\ Moved(i, "Aborting", "Dropped")
          /\ Write(o, Completed(r, "BuildAborted", Transition(index[i], "Aborting", "Dropped").rev))
      BY <1>7, <2>1, Zenon DEF StepCompleted, Moved
    <2> QED BY <1>4, <2>1, <2>2, Zenon DEF Outcomes
  <1>8. CASE r.phase = "cleanup"
    <2>1. index[i].state = "Dropping" /\ r.kind = "Drop"
      BY <1>2, <1>5, <1>8, Zenon DEF Agree, Outcomes, IndexRecord, OperationRecord
    <2>2. /\ Moved(i, "Dropping", "Dropped")
          /\ Write(o, Completed(r, "DropSucceeded", Transition(index[i], "Dropping", "Dropped").rev))
      BY <1>8, <2>1, Zenon DEF StepCompleted, Moved
    <2> QED BY <1>4, <2>1, <2>2, Zenon DEF Outcomes
  <1> QED BY <1>2, <1>6, <1>7, <1>8, Zenon DEF OperationRecord

-----------------------------------------------------------------------------
(* The claims and the tasks of the running process. *)

\* A step keeps the claims owned if it makes none, and a claim that it leaves
\* is still held by the task that held it.
LEMMA ClaimsKept ==
  ASSUME IInv, UNCHANGED <<epoch, proof>>, cycle = "drain" => cycle' = "drain",
         \A o \in Ops : op'[o] # None =>
           /\ op'[o].epoch <= epoch
           /\ op'[o].exec = "Claimed" =>
                /\ op[o] # None /\ op[o].exec = "Claimed"
                /\ op'[o].rev = op[o].rev /\ op'[o].epoch = op[o].epoch
                /\ \/ cycle' = "drain"
                   \/ \A t \in tasks : t.op = o /\ t.rev = op[o].rev =>
                        \E u \in tasks' : u.op = o /\ u.rev = t.rev
  PROVE  EpochsPast' /\ ClaimsAreOwned'
PROOF
  <1>1. EpochsPast'
    BY Zenon DEF EpochsPast
  <1>2. ASSUME NEW o \in Ops, op'[o] # None, op'[o].exec = "Claimed", op'[o].epoch = epoch',
               ~proof', cycle' # "drain"
        PROVE  \E u \in tasks' : u.op = o /\ u.rev = op'[o].rev
    <2>1. /\ op[o] # None /\ op[o].exec = "Claimed" /\ op[o].epoch = epoch
          /\ op'[o].rev = op[o].rev /\ ~proof /\ cycle # "drain"
      BY <1>2, Zenon
    <2>2. PICK t \in tasks : t.op = o /\ t.rev = op[o].rev
      BY <2>1, Zenon DEF IInv, WorkerInv, ClaimsAreOwned
    <2> QED BY <1>2, <2>1, <2>2
  <1>3. ClaimsAreOwned'
    BY <1>2, Zenon DEF ClaimsAreOwned
  <1> QED BY <1>1, <1>3, Zenon

\* The same for a step that writes one operation that it does not claim.
LEMMA WriteKeepsClaims ==
  ASSUME IInv, NEW o \in Ops, NEW r \in OperationRecord, Write(o, r),
         r.exec # "Claimed", r.epoch <= epoch,
         UNCHANGED <<epoch, proof>>, cycle = "drain" => cycle' = "drain",
         \A t \in tasks : t.op # o => t \in tasks'
  PROVE  EpochsPast' /\ ClaimsAreOwned'
PROOF
  <1>1. op'[o] = r /\ \A q \in Ops \ {o} : op'[q] = op[q]
    BY Zenon DEF Write, IInv, DurableInv, DurableType
  <1>2. ASSUME NEW q \in Ops, op'[q] # None
        PROVE  /\ op'[q].epoch <= epoch
               /\ op'[q].exec = "Claimed" =>
                    /\ op[q] # None /\ op[q].exec = "Claimed"
                    /\ op'[q].rev = op[q].rev /\ op'[q].epoch = op[q].epoch
                    /\ \A t \in tasks : t.op = q /\ t.rev = op[q].rev =>
                         \E u \in tasks' : u.op = q /\ u.rev = t.rev
    <2>1. CASE q = o
      BY <1>1, <2>1, Zenon
    <2>2. CASE q # o
      BY <1>1, <1>2, <2>2, Zenon DEF IInv, WorkerInv, EpochsPast
    <2> QED BY <2>1, <2>2, Zenon
  <1> QED BY <1>2, ClaimsKept, Zenon

LEMMA JoinKeepsTasks ==
  ASSUME WorkerInv, NEW t \in tasks, tasks' = tasks \ {t}, targets' \in {targets, targets \ {t.op}}
  PROVE  /\ OneTaskPerOperation' /\ tasks' \in SUBSET TaskRecord /\ targets' \in SUBSET Ops
         /\ t.op \in Ops /\ \A u \in tasks : u.op # t.op => u \in tasks'
PROOF
  <1>1. t.op \in Ops
    BY Zenon DEF WorkerInv, WorkerType, TaskRecord
  <1>2. \A u \in tasks' : u \in tasks /\ u.op # t.op
    BY Zenon DEF WorkerInv, OneTaskPerOperation
  <1>3. OneTaskPerOperation'
    BY <1>2, Zenon DEF WorkerInv, OneTaskPerOperation
  <1> QED BY <1>1, <1>3, Zenon DEF WorkerInv, WorkerType

\* A task goes on to release its claim or to record a blocker.
LEMMA TurnKeepsTasks ==
  ASSUME WorkerInv, NEW t \in tasks, NEW next \in {"release", "block"},
         tasks' = (tasks \ {t}) \cup {[t EXCEPT !.at = next]}, UNCHANGED targets
  PROVE  /\ OneTaskPerOperation' /\ tasks' \in SUBSET TaskRecord
         /\ \A u \in tasks : \E v \in tasks' : v.op = u.op /\ v.rev = u.rev
PROOF
  <1> DEFINE s == [t EXCEPT !.at = next]
  <1>1. t \in TaskRecord
    BY Zenon DEF WorkerInv, WorkerType
  <1>2. s \in TaskRecord /\ s.op = t.op /\ s.rev = t.rev
    BY <1>1, Zenon DEF TaskRecord
  <1> HIDE DEF s
  <1>3. tasks' = (tasks \ {t}) \cup {s}
    BY Zenon DEF s
  <1>4. OneTaskPerOperation'
    BY <1>2, <1>3, Zenon DEF WorkerInv, OneTaskPerOperation
  <1>5. tasks' \in SUBSET TaskRecord
    BY <1>2, <1>3, Zenon DEF WorkerInv, WorkerType
  <1>6. \A u \in tasks : \E v \in tasks' : v.op = u.op /\ v.rev = u.rev
    BY <1>2, <1>3, Zenon
  <1> QED BY <1>4, <1>5, <1>6, Zenon

-----------------------------------------------------------------------------
(* Every action preserves IInv.  First DDL and the operation commands, which *)
(* leave the worker alone.                                                   *)

LEMMA WorkerUnchanged ==
  ASSUME IInv, UNCHANGED workerVars
  PROVE  WorkerType' /\ OneTaskPerOperation' /\ proof' \in BOOLEAN
BY Zenon DEF IInv, WorkerInv, WorkerType, OneTaskPerOperation, workerVars

LEMMA StageKeepsClaims ==
  ASSUME IInv, NEW i \in Indexes, NEW x, NEW r \in OperationRecord, r.exec = "Queued",
         r.epoch = 0, Stage(i, x, r), UNCHANGED workerVars
  PROVE  EpochsPast' /\ ClaimsAreOwned'
PROOF
  <1>1. ASSUME NEW q \in Ops, op'[q] # None
        PROVE  \/ op'[q].exec = "Queued" /\ op'[q].epoch <= epoch
               \/ op'[q] = op[q] /\ op[q] # None
    BY <1>1 DEF Stage, IInv, WorkerInv, WorkerType
  <1>2. \A q \in Ops : op'[q] # None =>
           /\ op'[q].epoch <= epoch
           /\ op'[q].exec = "Claimed" => op[q] # None /\ op'[q] = op[q]
    BY <1>1, Zenon DEF IInv, WorkerInv, EpochsPast
  <1> QED BY <1>2, ClaimsKept, Zenon DEF workerVars

LEMMA CreateOK == ASSUME IInv, NEW i \in Indexes, Create(i) PROVE IInv'
PROOF
  <1> DEFINE x == [index[i] EXCEPT !.state = "Building", !.gen = @ + 1, !.rev = @ + 1]
  <1>1. DurableInv'
    BY CreateDurable, Zenon DEF IInv
  <1>2. Stage(i, x, Operation(i, "Build", x.gen, x.rev)) /\ UNCHANGED workerVars
    BY Zenon DEF Create
  <1>3. x.gen \in Nat /\ x.rev \in Nat
    <2>1. index[i] \in IndexRecord
      BY Zenon DEF IInv, DurableInv, DurableType
    <2>2. x.gen = index[i].gen + 1 /\ x.rev = index[i].rev + 1
      BY <2>1, Zenon DEF IndexRecord
    <2> HIDE DEF x
    <2> QED BY <2>1, <2>2 DEF IndexRecord
  <1> HIDE DEF x
  <1>4. EpochsPast' /\ ClaimsAreOwned'
    BY <1>2, <1>3, OperationFields, StageKeepsClaims
  <1> QED BY <1>1, <1>2, <1>4, WorkerUnchanged, Zenon DEF IInv, WorkerInv

LEMMA DropActiveOK == ASSUME IInv, NEW i \in Indexes, DropActive(i) PROVE IInv'
PROOF
  <1> DEFINE x == Transition(index[i], "Active", "Dropping")
  <1>1. DurableInv'
    BY DropActiveDurable, Zenon DEF IInv
  <1>2. Stage(i, x, Operation(i, "Drop", x.gen, x.rev)) /\ UNCHANGED workerVars
    BY Zenon DEF DropActive
  <1>3. x.gen \in Nat /\ x.rev \in Nat
    <2>1. index[i] \in IndexRecord /\ index[i].state = "Active"
      BY Zenon DEF IInv, DurableInv, DurableType, DropActive
    <2> QED BY <2>1, TransitionFields
  <1> HIDE DEF x
  <1>4. EpochsPast' /\ ClaimsAreOwned'
    BY <1>2, <1>3, OperationFields, StageKeepsClaims
  <1> QED BY <1>1, <1>2, <1>4, WorkerUnchanged, Zenon DEF IInv, WorkerInv

LEMMA BeginAbortOK ==
  ASSUME IInv, NEW i \in Indexes, index[i].state = "Building", BeginAbort(i)
  PROVE  IInv'
PROOF
  <1> DEFINE x == Transition(index[i], "Building", "Aborting")
             o == index[i].op
  <1>1. DurableInv'
    BY BeginAbortDurable, Zenon DEF IInv
  <1>2. Write(x.op, Aborting(op[x.op], x.rev)) /\ UNCHANGED workerVars
    BY Zenon DEF BeginAbort
  <1>3. x.op = o /\ x.rev \in Nat
    <2>1. index[i] \in IndexRecord
      BY Zenon DEF IInv, DurableInv, DurableType
    <2> QED BY <2>1, TransitionFields
  <1> HIDE DEF x
  <1>4. o \in Ops /\ op[o] # None
    BY Zenon DEF IInv, DurableInv, Retained
  <1>5. op[o] \in OperationRecord
    BY <1>4, Linked, Zenon DEF IInv
  <1> DEFINE r == Aborting(op[o], x.rev)
  <1>6. r \in OperationRecord /\ r.exec = "Queued" /\ r.epoch = 0
    BY <1>3, <1>5, AbortingFields, Zenon
  <1>7. Write(o, r)
    BY <1>2, <1>3, Zenon
  <1>8. 0 <= epoch
    BY DEF IInv, WorkerInv, WorkerType
  <1> HIDE DEF r
  <1>9. EpochsPast' /\ ClaimsAreOwned'
    BY <1>2, <1>4, <1>6, <1>7, <1>8, WriteKeepsClaims, Zenon DEF workerVars
  <1> QED BY <1>1, <1>2, <1>9, WorkerUnchanged, Zenon DEF IInv, WorkerInv

LEMMA RetryOK == ASSUME IInv, NEW o \in Ops, RetryOperation(o) PROVE IInv'
PROOF
  <1> DEFINE r == Retried(op[o])
  <1>1. op[o] # None /\ op[o].exec = "Blocked" /\ op[o] \in OperationRecord
    BY Linked, Zenon DEF IInv, RetryOperation
  <1>2. /\ r \in OperationRecord /\ r.on = op[o].on /\ r.kind = op[o].kind /\ r.gen = op[o].gen
        /\ r.indexRev = op[o].indexRev /\ r.phase = op[o].phase /\ r.exec = "Queued" /\ r.epoch = 0
    BY <1>1, AdvancedFields, Zenon DEF Retried, Runnable
  <1>3. Write(o, r) /\ UNCHANGED <<index, nextOp, workerVars>>
    BY Zenon DEF RetryOperation
  <1> HIDE DEF r
  <1>4. DurableInv'
    BY <1>1, <1>2, <1>3, RewriteOK, Zenon DEF IInv, Outcomes
  <1>5. 0 <= epoch
    BY DEF IInv, WorkerInv, WorkerType
  <1>6. EpochsPast' /\ ClaimsAreOwned'
    BY <1>2, <1>3, <1>5, WriteKeepsClaims, Zenon DEF workerVars
  <1> QED BY <1>3, <1>4, <1>6, WorkerUnchanged, Zenon DEF IInv, WorkerInv

LEMMA DelayElapsesOK == ASSUME IInv, NEW o \in Ops, DelayElapses(o) PROVE IInv'
PROOF
  <1>1. DurableInv' /\ UNCHANGED workerVars
    BY DelayElapsesDurable, Zenon DEF IInv, DelayElapses
  <1>2. op[o] # None /\ op[o] \in OperationRecord
    BY Linked, Zenon DEF IInv, DelayElapses
  <1>3. \A q \in Ops : op'[q] # None =>
           op[q] # None /\ op'[q].epoch = op[q].epoch /\ op'[q].exec = op[q].exec
             /\ op'[q].rev = op[q].rev
    BY <1>2, Zenon DEF DelayElapses, OperationRecord, IInv, DurableInv, DurableType
  <1>4. EpochsPast' /\ ClaimsAreOwned'
    BY <1>1, <1>3, ClaimsKept, Zenon DEF IInv, WorkerInv, EpochsPast, workerVars
  <1> QED BY <1>1, <1>4, WorkerUnchanged, Zenon DEF IInv, WorkerInv

-----------------------------------------------------------------------------
(* The worker's cycle. *)

LEMMA DispatchWrites ==
  ASSUME IInv, NEW o \in Ops, Dispatch(o), UNCHANGED <<index, nextOp>>
  PROVE  /\ DurableInv' /\ op[o] \in OperationRecord /\ o \notin targets
         /\ op'[o].rev = op[o].rev + 1 /\ op'[o].epoch = epoch
         /\ \A q \in Ops \ {o} : op'[q] = op[q]
PROOF
  <1> DEFINE r == Claimed(op[o])
  <1>1. op[o] # None /\ op[o].exec \in Runnable /\ op[o] \in OperationRecord
    BY Linked, Zenon DEF IInv, Dispatch, Claimable, Runnable
  <1>2. epoch \in Nat
    BY Zenon DEF IInv, WorkerInv, WorkerType
  <1>3. /\ r \in OperationRecord /\ r.on = op[o].on /\ r.kind = op[o].kind /\ r.gen = op[o].gen
        /\ r.indexRev = op[o].indexRev /\ r.phase = op[o].phase /\ r.exec = "Claimed"
        /\ r.epoch = epoch /\ r.rev = op[o].rev + 1
    BY <1>1, <1>2, ClaimedFields, Zenon
  <1>4. Write(o, r) /\ o \notin targets
    BY Zenon DEF Dispatch
  <1> HIDE DEF r
  <1>5. DurableInv'
    BY <1>1, <1>3, <1>4, RewriteOK, Zenon DEF IInv, Outcomes, Runnable
  <1>6. op'[o] = r /\ \A q \in Ops \ {o} : op'[q] = op[q]
    BY <1>4, Zenon DEF Write, IInv, DurableInv, DurableType
  <1> QED BY <1>1, <1>3, <1>4, <1>5, <1>6, Zenon

LEMMA DispatchEpochs ==
  ASSUME IInv, NEW o \in Ops, UNCHANGED epoch, op'[o].epoch = epoch \/ op'[o] = op[o],
         \A q \in Ops \ {o} : op'[q] = op[q]
  PROVE  EpochsPast'
PROOF
  <1>1. epoch <= epoch
    BY DEF IInv, WorkerInv, WorkerType
  <1> QED BY <1>1, Zenon DEF IInv, WorkerInv, EpochsPast

LEMMA ClaimOK == ASSUME IInv, NEW o \in Ops, Claim(o) PROVE IInv'
PROOF
  <1> DEFINE s == [op |-> o, rev |-> op[o].rev + 1, at |-> "run"]
  <1>1. /\ DurableInv' /\ op[o] \in OperationRecord /\ o \notin targets
        /\ op'[o].rev = op[o].rev + 1 /\ op'[o].epoch = epoch
        /\ \A q \in Ops \ {o} : op'[q] = op[q]
    BY DispatchWrites, Zenon DEF Claim
  <1>2. /\ targets' = targets \cup {o} /\ tasks' = tasks \cup {s}
        /\ UNCHANGED <<mode, epoch, cycle, proof, faults, crashes>>
    BY Zenon DEF Claim
  <1>3. s \in TaskRecord /\ s.op = o /\ s.rev = op'[o].rev
    BY <1>1 DEF TaskRecord, OperationRecord
  <1> HIDE DEF s
  <1>4. WorkerType' /\ proof' \in BOOLEAN
    BY <1>2, <1>3, Zenon DEF IInv, WorkerInv, WorkerType
  <1>5. OneTaskPerOperation'
    BY <1>1, <1>2, <1>3, Zenon DEF IInv, WorkerInv, OneTaskPerOperation
  <1>6. EpochsPast'
    BY <1>1, <1>2, DispatchEpochs, Zenon
  <1>7. ClaimsAreOwned'
    <2> SUFFICES ASSUME NEW q \in Ops, op'[q] # None, op'[q].exec = "Claimed",
                        op'[q].epoch = epoch', ~proof', cycle' # "drain"
                 PROVE  \E t \in tasks' : t.op = q /\ t.rev = op'[q].rev
      BY Zenon DEF ClaimsAreOwned
    <2>1. CASE q = o
      BY <1>2, <1>3, <2>1, Zenon
    <2>2. CASE q # o
      <3>1. op'[q] = op[q] /\ ~proof /\ cycle # "drain" /\ op[q].epoch = epoch
        BY <1>1, <1>2, <2>2, Zenon
      <3>2. PICK t \in tasks : t.op = q /\ t.rev = op[q].rev
        BY <3>1, Zenon DEF IInv, WorkerInv, ClaimsAreOwned
      <3> QED BY <1>2, <3>1, <3>2, Zenon
    <2> QED BY <2>1, <2>2, Zenon
  <1> QED BY <1>1, <1>4, <1>5, <1>6, <1>7, Zenon DEF IInv, WorkerInv

\* A failure is counted within the bound, and ends the cycle.
LEMMA FaultType ==
  ASSUME IInv, faults < MaxFaults, faults' = faults + 1
  PROVE  faults' \in 0..MaxFaults
PROOF
  <1>1. faults \in 0..MaxFaults
    BY Zenon DEF IInv, WorkerInv, WorkerType
  <1> QED BY <1>1, ConstantsAssumption

LEMMA DrainOwnsClaims == ASSUME cycle' = "drain" PROVE ClaimsAreOwned'
BY Zenon DEF ClaimsAreOwned

LEMMA SameDurable == ASSUME DurableInv, UNCHANGED durableVars PROVE DurableInv'
BY Zenon DEF DurableInv, DurableType, Retained, durableVars

LEMMA ClaimFailsOK == ASSUME IInv, NEW o \in Ops, ClaimFails(o) PROVE IInv'
PROOF
  <1>1. /\ UNCHANGED <<index, nextOp, mode, epoch, proof, targets, tasks, crashes>>
        /\ cycle' = "drain" /\ faults' \in 0..MaxFaults
    BY FaultType, Zenon DEF ClaimFails
  <1>2. DurableInv' /\ EpochsPast'
    <2>1. CASE Dispatch(o)
      BY <1>1, <2>1, DispatchWrites, DispatchEpochs, Zenon
    <2>2. CASE UNCHANGED <<op, pointer>>
      BY <1>1, <2>2, SameDurable, DispatchEpochs, Zenon DEF IInv, durableVars
    <2> QED BY <2>1, <2>2, Zenon DEF ClaimFails
  <1>3. WorkerType' /\ proof' \in BOOLEAN /\ OneTaskPerOperation'
    BY <1>1, Zenon DEF IInv, WorkerInv, WorkerType, OneTaskPerOperation
  <1> QED BY <1>1, <1>2, <1>3, DrainOwnsClaims, Zenon DEF IInv, WorkerInv

LEMMA RestartCycleOK == ASSUME IInv, RestartCycle PROVE IInv'
PROOF
  <1>1. DurableInv'
    BY SameDurable, Zenon DEF IInv, RestartCycle
  <1>2. WorkerType' /\ proof' \in BOOLEAN /\ OneTaskPerOperation' /\ EpochsPast'
    BY Zenon DEF IInv, WorkerInv, WorkerType, OneTaskPerOperation, EpochsPast, RestartCycle, durableVars
  <1>3. ClaimsAreOwned'
    BY Zenon DEF ClaimsAreOwned, RestartCycle
  <1> QED BY <1>1, <1>2, <1>3, Zenon DEF IInv, WorkerInv

\* After a restart of the process every claim is one of an earlier epoch.
LEMMA CrashOK == ASSUME IInv, Crash PROVE IInv'
PROOF
  <1>1. DurableInv' /\ op' = op
    BY SameDurable, Zenon DEF IInv, Crash, durableVars
  <1>2. epoch \in Nat /\ epoch' = epoch + 1 /\ crashes' \in 0..MaxCrashes
    <2>1. crashes \in 0..MaxCrashes /\ epoch \in Nat
      BY Zenon DEF IInv, WorkerInv, WorkerType
    <2> QED BY <2>1, ConstantsAssumption DEF Crash
  <1>3. \A o \in Ops : op[o] # None => op[o].epoch \in Nat /\ op[o].epoch <= epoch
    BY Linked, Zenon DEF IInv, WorkerInv, EpochsPast, OperationRecord
  <1>4. EpochsPast'
    BY <1>1, <1>2, <1>3 DEF EpochsPast
  <1>5. ClaimsAreOwned'
    BY <1>1, <1>2, <1>3 DEF ClaimsAreOwned
  <1>6. WorkerType' /\ OneTaskPerOperation'
    BY <1>2 DEF IInv, WorkerInv, WorkerType, OneTaskPerOperation, Crash
  <1>7. proof' \in BOOLEAN
    BY Zenon DEF Crash
  <1> QED BY <1>1, <1>4, <1>5, <1>6, <1>7, Zenon DEF IInv, WorkerInv

-----------------------------------------------------------------------------
(* The tasks. *)

\* A task that is done leaves the cycle, which goes on or drains.
Leaves(t) ==
  /\ tasks' = tasks \ {t} /\ targets' \in {targets, targets \ {t.op}}
  /\ cycle' \in {cycle, "drain"} /\ faults' \in 0..MaxFaults
  /\ UNCHANGED <<mode, epoch, proof, crashes>>

LEMMA LeavesOK ==
  ASSUME IInv, NEW t \in tasks, Leaves(t)
  PROVE  WorkerType' /\ OneTaskPerOperation' /\ proof' \in BOOLEAN
PROOF
  <1>1. OneTaskPerOperation' /\ tasks' \in SUBSET TaskRecord /\ targets' \in SUBSET Ops
    BY JoinKeepsTasks, Zenon DEF IInv, Leaves
  <1> QED BY <1>1, Zenon DEF IInv, WorkerInv, WorkerType, Leaves

LEMMA CommittedLeaves == ASSUME IInv, NEW t \in tasks, Committed(t) PROVE Leaves(t)
PROOF
  <1>1. faults \in 0..MaxFaults
    BY Zenon DEF IInv, WorkerInv, WorkerType
  <1> QED BY <1>1, FaultType, Zenon DEF Committed, JoinedOk, Joined, Leaves

\* A task that commits its operation's next record drops its claim with it.
LEMMA TaskWriteOK ==
  ASSUME IInv, NEW t \in tasks, NEW r \in OperationRecord, Write(t.op, r),
         r.exec # "Claimed", r.epoch <= epoch, DurableInv', Leaves(t)
  PROVE  IInv'
PROOF
  <1>1. WorkerType' /\ OneTaskPerOperation' /\ proof' \in BOOLEAN
    BY LeavesOK, Zenon
  <1>2. t.op \in Ops /\ \A u \in tasks : u.op # t.op => u \in tasks'
    BY JoinKeepsTasks, Zenon DEF IInv, Leaves
  <1>3. EpochsPast' /\ ClaimsAreOwned'
    BY <1>2, WriteKeepsClaims, Zenon DEF Leaves
  <1> QED BY <1>1, <1>3, Zenon DEF IInv, WorkerInv

\* The same for the record that stays in its phase.
LEMMA TaskRewriteOK ==
  ASSUME IInv, NEW t \in tasks, Current(t), NEW r \in OperationRecord, Write(t.op, r),
         r.on = op[t.op].on, r.kind = op[t.op].kind, r.gen = op[t.op].gen,
         r.indexRev = op[t.op].indexRev, r.phase = op[t.op].phase,
         r.exec \notin Outcomes \cup {"Claimed"}, r.epoch <= epoch,
         UNCHANGED <<index, nextOp>>, Leaves(t)
  PROVE  IInv'
PROOF
  <1>1. t.op \in Ops
    BY Zenon DEF IInv, WorkerInv, WorkerType, TaskRecord
  <1>2. op[t.op] # None /\ op[t.op].exec \notin Outcomes
    BY <1>1, CurrentRuns, Zenon DEF IInv, Current
  <1>3. DurableInv'
    BY <1>1, <1>2, RewriteOK, Zenon DEF IInv
  <1> QED BY <1>3, TaskWriteOK, Zenon

LEMMA CurrentRecord ==
  ASSUME IInv, NEW t \in tasks, Current(t)
  PROVE  /\ t.op \in Ops /\ op[t.op] \in OperationRecord
         /\ 0 <= epoch /\ op[t.op].epoch <= epoch
PROOF
  <1>1. t.op \in Ops /\ epoch \in Nat
    BY Zenon DEF IInv, WorkerInv, WorkerType, TaskRecord
  <1>2. op[t.op] # None /\ op[t.op] \in OperationRecord
    BY <1>1, Linked, Zenon DEF IInv, Current
  <1> QED BY <1>1, <1>2 DEF IInv, WorkerInv, EpochsPast

LEMMA ProgressedOK == ASSUME IInv, NEW t \in tasks, StepProgressed(t) PROVE IInv'
PROOF
  <1>1. Current(t) /\ Leaves(t) /\ UNCHANGED <<index, nextOp>>
    BY CommittedLeaves, Zenon DEF StepProgressed, Committed
  <1>2. op[t.op] \in OperationRecord /\ 0 <= epoch /\ op[t.op].left > 0
    BY <1>1, CurrentRecord, Zenon DEF StepProgressed
  <1>3. Write(t.op, Progressed(op[t.op]))
    BY Zenon DEF StepProgressed
  <1> QED BY <1>1, <1>2, <1>3, ProgressedFields, TaskRewriteOK, Zenon DEF Outcomes

LEMMA CompletedOK == ASSUME IInv, NEW t \in tasks, StepCompleted(t) PROVE IInv'
PROOF
  <1>1. Current(t) /\ Leaves(t)
    BY CommittedLeaves, Zenon DEF StepCompleted
  <1>2. t.op \in Ops /\ op[t.op] \in OperationRecord /\ 0 <= epoch
    BY <1>1, CurrentRecord, Zenon
  <1>3. DurableInv'
    BY <1>2, StepCompletedDurable, Zenon DEF IInv
  <1>4. PICK outcome \in Outcomes, n \in Nat : Write(t.op, Completed(op[t.op], outcome, n))
    BY <1>2, StepCompletedDurable, Zenon DEF IInv
  <1> DEFINE r == Completed(op[t.op], outcome, n)
  <1>5. r \in OperationRecord /\ r.exec = outcome /\ r.epoch = 0
    BY <1>2, CompletedFields, Zenon
  <1>6. Write(t.op, r)
    BY <1>4, Zenon
  <1> HIDE DEF r
  <1>7. r.exec # "Claimed" /\ r.epoch <= epoch
    BY <1>2, <1>5, Zenon DEF Outcomes
  <1> QED BY <1>1, <1>3, <1>5, <1>6, <1>7, TaskWriteOK, Zenon

LEMMA BlockedOK ==
  ASSUME IInv, NEW t \in tasks, StepBlocked(t) \/ RecordFailure(t)
  PROVE  IInv'
PROOF
  <1> DEFINE r == Blocked(op[t.op])
  <1>1. Leaves(t)
    <2>1. CASE StepBlocked(t)
      BY <2>1, FaultType, Zenon DEF StepBlocked, Joined, Leaves
    <2>2. CASE RecordFailure(t)
      BY <2>2, CommittedLeaves, Zenon DEF RecordFailure
    <2> QED BY <2>1, <2>2, Zenon
  <1>2. Current(t) /\ UNCHANGED <<index, nextOp>> /\ Write(t.op, r)
    BY Zenon DEF StepBlocked, RecordFailure, Committed
  <1>3. op[t.op] \in OperationRecord /\ 0 <= epoch
    BY <1>2, CurrentRecord, Zenon
  <1>4. /\ r \in OperationRecord /\ r.on = op[t.op].on /\ r.kind = op[t.op].kind
        /\ r.gen = op[t.op].gen /\ r.indexRev = op[t.op].indexRev /\ r.phase = op[t.op].phase
        /\ r.exec = "Blocked" /\ r.epoch = 0
    BY <1>3, AdvancedFields DEF Blocked
  <1> HIDE DEF r
  <1> QED BY <1>1, <1>2, <1>3, <1>4, TaskRewriteOK, Zenon DEF Outcomes

LEMMA ReleaseOK == ASSUME IInv, NEW t \in tasks, ReleaseClaim(t) PROVE IInv'
PROOF
  <1>1. Current(t) /\ Leaves(t) /\ UNCHANGED <<index, nextOp>>
    BY CommittedLeaves, ZenonT(60) DEF ReleaseClaim, Committed
  <1>2. op[t.op] \in OperationRecord /\ op[t.op].epoch <= epoch
    BY <1>1, CurrentRecord, Zenon
  <1>3. Write(t.op, TransientFailure(op[t.op]))
    BY Zenon DEF ReleaseClaim
  <1> QED BY <1>1, <1>2, <1>3, TransientFields, TaskRewriteOK, Zenon DEF Outcomes

\* A task that leaves without a write either drains the cycle or had lost its
\* claim before.
LEMMA LeavesQuietlyOK ==
  ASSUME IInv, NEW t \in tasks, UNCHANGED durableVars, Leaves(t), cycle' = "drain" \/ ~Current(t)
  PROVE  IInv'
PROOF
  <1>1. WorkerType' /\ OneTaskPerOperation' /\ proof' \in BOOLEAN
    BY LeavesOK, Zenon
  <1>2. t.op \in Ops /\ \A u \in tasks : u.op # t.op => u \in tasks'
    BY JoinKeepsTasks, Zenon DEF IInv, Leaves
  <1>3. DurableInv' /\ op' = op
    BY SameDurable, Zenon DEF IInv, durableVars
  <1>4. ASSUME NEW o \in Ops, op[o] # None, op[o].exec = "Claimed", cycle' # "drain",
               NEW u \in tasks, u.op = o, u.rev = op[o].rev
        PROVE  u \in tasks'
    <2>1. CASE u.op # t.op
      BY <1>2, <2>1, Zenon
    <2>2. CASE u.op = t.op
      <3>1. u = t
        BY <2>2, Zenon DEF IInv, WorkerInv, OneTaskPerOperation
      <3>2. pointer[o] = op[o].rev /\ op[o].rev # 0
        BY <1>4, Linked, Zenon DEF IInv, DurableInv, PointerFor, Runnable, OperationRecord
      <3> QED BY <1>4, <3>1, <3>2, Zenon DEF Current
    <2> QED BY <2>1, <2>2, Zenon
  <1>5. EpochsPast' /\ ClaimsAreOwned'
    BY <1>3, <1>4, ClaimsKept, Zenon DEF Leaves, IInv, WorkerInv, EpochsPast
  <1> QED BY <1>1, <1>3, <1>5, Zenon DEF IInv, WorkerInv

\* A task that turns to release its claim, or to record a blocker, keeps it.
LEMMA TurnsOK ==
  ASSUME IInv, NEW t \in tasks, NEW next \in {"release", "block"},
         tasks' = (tasks \ {t}) \cup {[t EXCEPT !.at = next]},
         UNCHANGED <<durableVars, mode, epoch, cycle, proof, targets, crashes>>,
         faults' \in 0..MaxFaults
  PROVE  IInv'
PROOF
  <1>1. /\ OneTaskPerOperation' /\ tasks' \in SUBSET TaskRecord
        /\ \A u \in tasks : \E v \in tasks' : v.op = u.op /\ v.rev = u.rev
    BY TurnKeepsTasks, Zenon DEF IInv
  <1>2. DurableInv' /\ op' = op
    BY SameDurable, Zenon DEF IInv, durableVars
  <1>3. EpochsPast' /\ ClaimsAreOwned'
    BY <1>1, <1>2, ClaimsKept DEF IInv, WorkerInv, EpochsPast
  <1>4. WorkerType' /\ proof' \in BOOLEAN
    BY <1>1, Zenon DEF IInv, WorkerInv, WorkerType
  <1> QED BY <1>1, <1>2, <1>3, <1>4, Zenon DEF IInv, WorkerInv

LEMMA TaskStepOK == ASSUME IInv, NEW t \in tasks, TaskStep(t) PROVE IInv'
PROOF
  <1>0. faults \in 0..MaxFaults
    BY Zenon DEF IInv, WorkerInv, WorkerType
  <1>1. CASE StepFails(t)
    <2>1. PICK next \in {"release", "block"} : tasks' = (tasks \ {t}) \cup {[t EXCEPT !.at = next]}
      BY <1>1, Zenon DEF StepFails
    <2> QED BY <1>1, <2>1, FaultType, TurnsOK, Zenon DEF StepFails
  <1>2. CASE StepStale(t)
    <2>1. CASE JoinedErr(t)
      BY <1>0, <1>2, <2>1, LeavesQuietlyOK, Zenon DEF StepStale, JoinedErr, Joined, Leaves
    <2>2. CASE /\ tasks' = (tasks \ {t}) \cup {[t EXCEPT !.at = "release"]}
               /\ UNCHANGED <<targets, cycle, faults>>
      BY <1>0, <1>2, <2>2, TurnsOK, Zenon DEF StepStale
    <2> QED BY <1>2, <2>1, <2>2, Zenon DEF StepStale
  <1>3. CASE ReleaseNothing(t)
    <2>1. Leaves(t) /\ UNCHANGED durableVars /\ ~Current(t)
      BY <1>0, <1>3, Zenon DEF ReleaseNothing, JoinedOk, JoinedErr, Joined, Leaves
    <2> QED BY <2>1, LeavesQuietlyOK, Zenon
  <1>4. CASE RecordFailureStale(t)
    <2>1. Leaves(t) /\ UNCHANGED durableVars /\ ~Current(t)
      BY <1>0, <1>4, Zenon DEF RecordFailureStale, JoinedErr, Joined, Leaves
    <2> QED BY <2>1, LeavesQuietlyOK, Zenon
  <1>5. CASE TaskFails(t)
    <2>1. Leaves(t) /\ UNCHANGED durableVars /\ cycle' = "drain"
      BY <1>5, FaultType, Zenon DEF TaskFails, Leaves
    <2> QED BY <2>1, LeavesQuietlyOK, Zenon
  <1> QED BY <1>1, <1>2, <1>3, <1>4, <1>5, ProgressedOK, CompletedOK, BlockedOK, ReleaseOK, Zenon
          DEF TaskStep

-----------------------------------------------------------------------------
LEMMA InitOK == Init => IInv
PROOF
  <1> SUFFICES ASSUME Init PROVE IInv
    BY Zenon
  <1> USE DEF Init
  <1>1. DurableType
    BY ConstantsAssumption DEF DurableType, IndexRecord
  <1>2. \A o \in Ops : op[o] = None /\ pointer[o] = 0
    BY Zenon
  <1>3. \A i \in Indexes : Retained(i)
    BY Zenon DEF Retained
  <1>4. DurableInv
    BY <1>1, <1>2, <1>3, Zenon DEF DurableInv
  <1>5. WorkerType
    BY ConstantsAssumption DEF WorkerType
  <1>6. EpochsPast /\ OneTaskPerOperation /\ ClaimsAreOwned
    BY <1>2, Zenon DEF EpochsPast, OneTaskPerOperation, ClaimsAreOwned
  <1>7. proof \in BOOLEAN
    BY Zenon
  <1> QED BY <1>4, <1>5, <1>6, <1>7, Zenon DEF IInv, WorkerInv

LEMMA AbortIndex ==
  ASSUME IInv, NEW o \in Ops, AbortOperation(o)
  PROVE  \E i \in Indexes : index[i].state = "Building" /\ BeginAbort(i)
PROOF
  <1>1. op[o] # None /\ op[o].on \in Indexes
    BY Linked, Zenon DEF IInv, AbortOperation
  <1> QED BY <1>1, Zenon DEF AbortOperation

LEMMA AbortOK ==
  ASSUME IInv, (\E i \in Indexes : DropBuilding(i)) \/ (\E o \in Ops : AbortOperation(o))
  PROVE  IInv'
PROOF
  <1>1. CASE \E i \in Indexes : DropBuilding(i)
    BY <1>1, BeginAbortOK, Zenon DEF DropBuilding
  <1>2. CASE \E o \in Ops : AbortOperation(o)
    BY <1>2, AbortIndex, BeginAbortOK, Zenon
  <1> QED BY <1>1, <1>2, Zenon

LEMMA StutterOK == ASSUME IInv, UNCHANGED vars PROVE IInv'
PROOF
  <1>1. DurableInv' /\ op' = op /\ UNCHANGED workerVars
    BY SameDurable, Zenon DEF IInv, vars, durableVars, workerVars
  <1>2. EpochsPast' /\ ClaimsAreOwned'
    BY <1>1, ClaimsKept, Zenon DEF IInv, WorkerInv, EpochsPast, workerVars
  <1> QED BY <1>1, <1>2, WorkerUnchanged, Zenon DEF IInv, WorkerInv

LEMMA NextOK == IInv /\ [Next]_vars => IInv'
BY Zenon, CreateOK, DropActiveOK, AbortOK, RetryOK, DelayElapsesOK, ClaimOK, ClaimFailsOK, TaskStepOK,
   RestartCycleOK, CrashOK, StutterOK DEF Next

(* IInv is an invariant: it holds after every commit, failed task and crash. *)
THEOREM Invariance == Spec => []IInv
BY InitOK, NextOK, PTL DEF Spec

(* Every variable keeps its type; the records are those of the outbox.       *)
THEOREM TypeCorrect == Spec => [](DurableType /\ WorkerType)
PROOF
  <1>1. IInv => DurableType /\ WorkerType
    BY Zenon DEF IInv, DurableInv, WorkerInv
  <1> QED BY <1>1, Invariance, PTL

(* validate_link never reports corruption: an index and the operation it     *)
(* retains agree, pointers are exact, and nothing is left unretained.        *)
THEOREM LinksHold == Spec => []LinksValidate
PROOF
  <1>1. IInv => LinksValidate
    <2> SUFFICES ASSUME IInv PROVE LinksValidate
      BY Zenon
    <2>1. ASSUME NEW i \in Indexes, index[i].state # "Absent"
          PROVE  LinkValid(index[i], index[i].op)
      <3> DEFINE o == index[i].op
                 x == index[i]
      <3>1. o \in Ops /\ op[o] # None /\ Agree(x, op[o])
        BY <2>1, Zenon DEF IInv, DurableInv, Retained
      <3>2. pointer[o] = IF op[o].exec \in Runnable THEN op[o].rev ELSE 0
        BY <3>1, Zenon DEF IInv, DurableInv, PointerFor
      <3>3. op[o] \in OperationRecord /\ x \in IndexRecord
        BY <3>1, Linked, Zenon DEF IInv, DurableInv, DurableType
      <3> HIDE DEF o, x
      <3>4. x.state \in {"Building", "Active", "Aborting", "Dropping", "Dropped"}
        BY <2>1, <3>3, Zenon DEF IndexRecord, x
      <3>5. op[o].kind \in {"Build", "Drop"}
        BY <3>3, Zenon DEF OperationRecord
      <3>6. LinkValid(x, o)
        BY <3>1, <3>2, <3>4, <3>5, Zenon DEF LinkValid, Agree
      <3> QED BY <3>6, Zenon DEF o, x
    <2>2. \A o \in Ops : op[o] # None => index[op[o].on].op = o
      BY Zenon DEF IInv, DurableInv
    <2>3. \A o \in Ops : op[o] = None => pointer[o] = 0
      BY Zenon DEF IInv, DurableInv
    <2> QED BY <2>1, <2>2, <2>3, Zenon DEF LinksValidate
  <1> QED BY <1>1, Invariance, PTL

(* No claim of the running epoch is orphaned by a failed step, a lost commit *)
(* or a task that finds its claim advanced.                                  *)
THEOREM NoOrphanedClaim == Spec => []ClaimsAreOwned
PROOF
  <1>1. IInv => ClaimsAreOwned
    BY Zenon DEF IInv, WorkerInv
  <1> QED BY <1>1, Invariance, PTL

(* One durable target has at most one in-flight task.                        *)
THEOREM OneTask == Spec => []OneTaskPerOperation
PROOF
  <1>1. IInv => OneTaskPerOperation
    BY Zenon DEF IInv, WorkerInv
  <1> QED BY <1>1, Invariance, PTL

-----------------------------------------------------------------------------
(* Refinement of IndexStates. *)

States == [i \in Indexes |-> index[i].state]
Generations == [i \in Indexes |-> index[i].gen]

LEMMA MoveRefines ==
  ASSUME IInv, NEW i \in Indexes, NEW from, NEW to \in {"Active", "Aborting", "Dropping", "Dropped"},
         NEW x, x.state = to, x.gen = index[i].gen,
         index[i].state = from, index' = [index EXCEPT ![i] = x]
  PROVE  Abstract!Move(i, from, to)
PROOF
  <1>1. index'[i] = x /\ \A j \in Indexes \ {i} : index'[j] = index[j]
    BY Zenon DEF IInv, DurableInv, DurableType
  <1>2. States' = [States EXCEPT ![i] = to]
    <2>1. \A j \in Indexes : index'[j].state = IF j = i THEN to ELSE index[j].state
      BY <1>1
    <2> QED BY <2>1, Zenon DEF States
  <1>3. \A j \in Indexes : index'[j].gen = index[j].gen
    BY <1>1, Zenon
  <1>4. Generations' = Generations
    BY <1>3, Zenon DEF Generations
  <1> QED BY <1>2, <1>4, Zenon DEF Abstract!Move, States, Generations

LEMMA CreateRefines ==
  ASSUME IInv, NEW i \in Indexes, Create(i)
  PROVE  Abstract!Create(i)
PROOF
  <1> DEFINE x == [index[i] EXCEPT !.state = "Building", !.gen = @ + 1, !.rev = @ + 1]
             y == [x EXCEPT !.op = nextOp]
  <1>1. index[i] \in IndexRecord
    BY Zenon DEF IInv, DurableInv, DurableType
  <1>2. y.state = "Building" /\ y.gen = index[i].gen + 1
    <2>1. x.state = "Building" /\ x.gen = index[i].gen + 1
      BY <1>1, Zenon DEF IndexRecord
    <2> HIDE DEF x
    <2>2. y.state = x.state /\ y.gen = x.gen
      OBVIOUS
    <2> QED BY <2>1, <2>2, Zenon
  <1>3. index' = [index EXCEPT ![i] = y]
    BY Zenon DEF Create, Stage
  <1> HIDE DEF y
  <1>4. index'[i] = y /\ \A j \in Indexes \ {i} : index'[j] = index[j]
    BY <1>3, Zenon DEF IInv, DurableInv, DurableType
  <1>5. States' = [States EXCEPT ![i] = "Building"]
    BY <1>2, <1>4, Zenon DEF States
  <1>6. Generations' = [Generations EXCEPT ![i] = @ + 1]
    BY <1>2, <1>4, Zenon DEF Generations
  <1> QED BY <1>5, <1>6, Zenon DEF Abstract!Create, Create, States, Generations

LEMMA StepRefines ==
  ASSUME IInv, [Next]_vars
  PROVE  Abstract!Next \/ (States' = States /\ Generations' = Generations)
PROOF
  <1>1. ASSUME NEW i \in Indexes, Create(i) PROVE Abstract!Next
    BY <1>1, CreateRefines, Zenon DEF Abstract!Next
  <1>2. ASSUME NEW i \in Indexes, DropActive(i) PROVE Abstract!Next
    <2> DEFINE x == Transition(index[i], "Active", "Dropping")
               y == [x EXCEPT !.op = nextOp]
    <2>1. index[i] \in IndexRecord /\ index[i].state = "Active"
      BY <1>2, Zenon DEF IInv, DurableInv, DurableType, DropActive
    <2>2. index' = [index EXCEPT ![i] = y]
      BY <1>2, Zenon DEF DropActive, Stage
    <2>3. x \in IndexRecord /\ x.state = "Dropping" /\ x.gen = index[i].gen
      BY <2>1, TransitionFields
    <2> HIDE DEF x
    <2>4. y.state = "Dropping" /\ y.gen = index[i].gen
      BY <2>3, Zenon DEF IndexRecord
    <2> HIDE DEF y
    <2>5. Abstract!Move(i, "Active", "Dropping")
      BY <2>1, <2>2, <2>4, MoveRefines, Zenon
    <2> QED BY <2>5, Zenon DEF Abstract!Next
  <1>3. ASSUME NEW i \in Indexes, index[i].state = "Building", BeginAbort(i) PROVE Abstract!Next
    <2> DEFINE x == Transition(index[i], "Building", "Aborting")
    <2>1. index[i] \in IndexRecord /\ index[i].state = "Building"
      BY <1>3, Zenon DEF IInv, DurableInv, DurableType
    <2>2. index' = [index EXCEPT ![i] = x]
      BY <1>3, Zenon DEF BeginAbort
    <2>3. x.state = "Aborting" /\ x.gen = index[i].gen
      BY <2>1, TransitionFields
    <2> HIDE DEF x
    <2>4. Abstract!Move(i, "Building", "Aborting")
      BY <2>1, <2>2, <2>3, MoveRefines, ZenonT(60)
    <2> QED BY <2>4, Zenon DEF Abstract!Next
  <1>4. ASSUME NEW t \in tasks, StepCompleted(t) PROVE Abstract!Next
    <2> DEFINE i == op[t.op].on
    <2>1. t.op \in Ops /\ op[t.op] # None
      BY <1>4, Zenon DEF IInv, WorkerInv, WorkerType, TaskRecord, StepCompleted, Current
    <2>2. i \in Indexes /\ index[i] \in IndexRecord
      BY <2>1, Linked, Zenon DEF IInv
    <2>3. Moved(i, "Building", "Active") \/ Moved(i, "Aborting", "Dropped")
            \/ Moved(i, "Dropping", "Dropped")
      BY <1>4, <2>1, StepCompletedDurable, Zenon DEF IInv
    <2> HIDE DEF i
    <2>4. ASSUME NEW from, NEW to \in {"Active", "Dropped"}, Moved(i, from, to)
          PROVE  Abstract!Move(i, from, to)
      <3> DEFINE x == Transition(index[i], from, to)
      <3>1. x.state = to /\ x.gen = index[i].gen
        BY <2>2, <2>4, TransitionFields DEF Moved
      <3>2. index[i].state = from /\ index' = [index EXCEPT ![i] = x]
        BY <2>4, Zenon DEF Moved
      <3> HIDE DEF x
      <3> QED BY <2>2, <3>1, <3>2, MoveRefines, Zenon
    <2> QED BY <2>2, <2>3, <2>4, Zenon DEF Abstract!Next
  <1>5. ASSUME UNCHANGED index PROVE States' = States /\ Generations' = Generations
    BY <1>5, Zenon DEF States, Generations
  <1>6. CASE UNCHANGED index
    BY <1>5, <1>6, Zenon
  <1>7. CASE ~UNCHANGED index
    BY <1>1, <1>2, <1>3, <1>4, <1>7, AbortIndex, Zenon DEF Next, DropBuilding, RetryOperation, DelayElapses,
       Claim, ClaimFails, TaskStep, StepProgressed, StepBlocked, StepFails, StepStale, ReleaseClaim,
       ReleaseNothing, RecordFailure, RecordFailureStale, TaskFails, RestartCycle, Crash,
       durableVars, vars
  <1> QED BY <1>6, <1>7, Zenon

(* The outbox implements IndexStates: every commit of every task, command    *)
(* and recovery moves an index along its lifecycle or leaves it alone, and a *)
(* generation belongs to one build.                                          *)
THEOREM LifecycleRefinement == Spec => ImplementsIndexStates
PROOF
  <1>1. Init => Abstract!Init
    BY DEF Init, Abstract!Init
  <1>2. IInv /\ [Next]_vars => [Abstract!Next]_<<States, Generations>>
    BY StepRefines, Zenon
  <1> QED BY <1>1, <1>2, Invariance, PTL
          DEF Spec, ImplementsIndexStates, Abstract!Spec, States, Generations
=============================================================================
