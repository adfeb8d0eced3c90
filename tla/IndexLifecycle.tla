--------------------------- MODULE IndexLifecycle ---------------------------
(***************************************************************************)
(* The durable index-operation outbox and the worker that drives it        *)
(* (crates/db/src/index_lifecycle: lifecycle.rs, outbox.rs, operation.rs,  *)
(* model.rs, worker.rs).                                                   *)
(*                                                                         *)
(* CREATE and DROP commit a canonical index record, an operation record    *)
(* and a pointer that makes the operation runnable.  The worker finds      *)
(* pointers, claims an operation under its writer epoch, runs one bounded  *)
(* step of it and commits the step with the operation's next checkpoint.   *)
(* Every write is one serializable transaction, so it is one action here;  *)
(* it reads and writes the state at its commit, and a transaction that     *)
(* loses a conflict writes nothing.  A commit may also be applied and yet  *)
(* reported as an error.  The process can crash between any two of them;   *)
(* claims of its epoch then stay behind.                                   *)
(***************************************************************************)
EXTENDS Integers, FiniteSets

CONSTANTS
  Indexes,        \* the index identities of one scope
  None,           \* no record
  MaxOps,         \* bound: operations created in a behaviour
  BuildSteps,     \* steps that checkpoint a build before it can complete
  CleanupSteps,   \* the same for the cleanup of a drop or an aborted build
  Concurrency,    \* in-flight tasks WorkerPermits admits
  Modes,          \* "automatic": the supervised worker; "manual": explicit steps
  MaxFaults,      \* bound: failures of a driver, a commit or a blocked step
  MaxCrashes      \* bound: process restarts

ASSUME ConstantsAssumption ==
  /\ MaxOps \in Nat \ {0} /\ BuildSteps \in Nat /\ CleanupSteps \in Nat
  /\ Concurrency \in Nat \ {0} /\ Modes \subseteq {"automatic", "manual"}
  /\ MaxFaults \in Nat /\ MaxCrashes \in Nat

VARIABLES
  index,      \* canonical record of each identity
  op,         \* operation records, by operation id
  pointer,    \* the revision each runnable pointer names, 0 where there is none
  nextOp,     \* the next operation id
  mode,       \* who drives the operations
  epoch,      \* the running process's writer epoch
  cycle,      \* the worker cycle: "dispatch", or "drain" once a task failed
  proof,      \* the worker holds a SameEpochRecoveryProof
  targets,    \* operations the cycle has registered as in flight
  tasks,      \* the in-flight tasks and the claims they run under
  faults, crashes

vars == <<index, op, pointer, nextOp, mode, epoch, cycle, proof, targets, tasks, faults, crashes>>
durableVars == <<index, op, pointer, nextOp>>
workerVars == <<mode, epoch, cycle, proof, targets, tasks, faults, crashes>>

Ops == 1..MaxOps
Runnable == {"Queued", "Claimed"}
Outcomes == {"BuildSucceeded", "BuildAborted", "DropSucceeded"}

\* IndexOperationRecord and IndexRecordV2
OperationRecord ==
  [on : Indexes, kind : {"Build", "Drop"}, gen : Nat, indexRev : Nat, rev : Nat \ {0},
   phase : {"constructing", "aborting", "cleanup"}, left : Nat,
   exec : Runnable \cup {"Blocked"} \cup Outcomes, epoch : Nat, delayed : BOOLEAN]

IndexRecord ==
  [state : {"Absent", "Building", "Active", "Aborting", "Dropping", "Dropped"},
   gen : Nat, rev : Nat, op : 0..MaxOps]

ASSUME NoneAssumption == None \notin OperationRecord

Init ==
  /\ index = [i \in Indexes |-> [state |-> "Absent", gen |-> 0, rev |-> 0, op |-> 0]]
  /\ op = [o \in Ops |-> None] /\ pointer = [o \in Ops |-> 0] /\ nextOp = 1
  /\ mode \in Modes /\ epoch = 1 /\ cycle = "dispatch" /\ proof = (mode = "manual")
  /\ targets = {} /\ tasks = {} /\ faults = 0 /\ crashes = 0

-----------------------------------------------------------------------------
(* Records. *)

\* A new operation: queued at revision one.
Operation(i, kind, gen, indexRev) ==
  [on |-> i, kind |-> kind, gen |-> gen, indexRev |-> indexRev, rev |-> 1,
   phase |-> IF kind = "Build" THEN "constructing" ELSE "cleanup",
   left |-> IF kind = "Build" THEN BuildSteps ELSE CleanupSteps,
   exec |-> "Queued", epoch |-> 0, delayed |-> FALSE]

\* IndexOperationRecord::next: the next revision, in an execution state that
\* carries no claim and no delay.
Advanced(r, exec) == [r EXCEPT !.rev = @ + 1, !.exec = exec, !.epoch = 0, !.delayed = FALSE]

Claimed(r) == [Advanced(r, "Claimed") EXCEPT !.epoch = epoch]
Progressed(r) == [Advanced(r, "Queued") EXCEPT !.left = @ - 1]
TransientFailure(r) == [Advanced(r, "Queued") EXCEPT !.epoch = r.epoch, !.delayed = TRUE]
Blocked(r) == Advanced(r, "Blocked")
Completed(r, outcome, indexRev) == [Advanced(r, outcome) EXCEPT !.indexRev = indexRev]
Retried(r) == Advanced(r, "Queued")
Aborting(r, indexRev) ==
  [Advanced(r, "Queued") EXCEPT !.indexRev = indexRev, !.phase = "aborting", !.left = CleanupSteps]

\* IndexOperationQueueSchedule::is_eligible_for
Eligible(r) == ~r.delayed \/ r.epoch # epoch

\* IndexRecordV2::transition
Transition(x, from, to) == [x EXCEPT !.state = IF @ = from THEN to ELSE "illegal", !.rev = @ + 1]

\* Variant: the pointer of an operation that cannot run is kept.
WriteAlwaysPoints(o, r) ==
  /\ op' = [op EXCEPT ![o] = r]
  /\ pointer' = [pointer EXCEPT ![o] = r.rev]

\* An operation's record and pointer are written together: pointer_for names
\* a runnable operation's revision, and the pointer is deleted with the claim
\* of one that cannot run.
Write(o, r) ==
  /\ op' = [op EXCEPT ![o] = r]
  /\ pointer' = [pointer EXCEPT ![o] = IF r.exec \in Runnable THEN r.rev ELSE 0]

\* stage_operation: the new operation replaces the terminal one the index
\* retained.
Stage(i, x, r) ==
  /\ nextOp <= MaxOps
  /\ index' = [index EXCEPT ![i] = [x EXCEPT !.op = nextOp]]
  /\ op' = [o \in Ops |-> IF o = nextOp THEN r ELSE IF o = index[i].op THEN None ELSE op[o]]
  /\ pointer' = [pointer EXCEPT ![nextOp] = r.rev]
  /\ nextOp' = nextOp + 1

-----------------------------------------------------------------------------
(* DDL and the operation commands.  Calls that find the work under way or    *)
(* done return it and write nothing.                                         *)

\* Variant: a recreated index reuses its last generation.
CreateSameGeneration(i) ==
  /\ index[i].state \in {"Absent", "Dropped"}
  /\ LET x == [index[i] EXCEPT !.state = "Building", !.rev = @ + 1] IN
       Stage(i, x, Operation(i, "Build", x.gen, x.rev))
  /\ UNCHANGED workerVars

Create(i) ==
  /\ index[i].state \in {"Absent", "Dropped"}
  /\ LET x == [index[i] EXCEPT !.state = "Building", !.gen = @ + 1, !.rev = @ + 1] IN
       Stage(i, x, Operation(i, "Build", x.gen, x.rev))
  /\ UNCHANGED workerVars

\* DROP of an Active index.
DropActive(i) ==
  /\ index[i].state = "Active"
  /\ LET x == Transition(index[i], "Active", "Dropping") IN
       Stage(i, x, Operation(i, "Drop", x.gen, x.rev))
  /\ UNCHANGED workerVars

BeginAbort(i) ==
  LET x == Transition(index[i], "Building", "Aborting") IN
    /\ index' = [index EXCEPT ![i] = x]
    /\ Write(x.op, Aborting(op[x.op], x.rev))
    /\ UNCHANGED <<nextOp, workerVars>>

\* DROP of an index that is still being built.
DropBuilding(i) == index[i].state = "Building" /\ BeginAbort(i)

AbortOperation(o) ==
  /\ op[o] # None /\ op[o].kind = "Build" /\ op[o].phase = "constructing"
  /\ op[o].exec \in {"Queued", "Claimed", "Blocked"}
  /\ index[op[o].on].state = "Building" /\ BeginAbort(op[o].on)

RetryOperation(o) ==
  /\ op[o] # None /\ op[o].exec = "Blocked"
  /\ Write(o, Retried(op[o]))
  /\ UNCHANGED <<index, nextOp, workerVars>>

-----------------------------------------------------------------------------
(* The worker. *)

\* A backed-off operation's deadline passes.
DelayElapses(o) ==
  /\ op[o] # None /\ op[o].delayed
  /\ op' = [op EXCEPT ![o].delayed = FALSE]
  /\ UNCHANGED <<index, pointer, nextOp, workerVars>>

\* Variant: a claim is taken over only on proof, also one of a dead process.
ClaimableOnProof(o) ==
  /\ pointer[o] # 0 /\ op[o] # None /\ op[o].rev = pointer[o]
  /\ \/ op[o].exec = "Queued" /\ Eligible(op[o])
     \/ op[o].exec = "Claimed" /\ proof

\* observe_operation_pointer and claim_operation, which rechecks all it saw:
\* which operations the worker may claim.
Claimable(o) ==
  /\ pointer[o] # 0 /\ op[o] # None /\ op[o].rev = pointer[o]
  /\ \/ op[o].exec = "Queued" /\ Eligible(op[o])
     \/ op[o].exec = "Claimed" /\ (op[o].epoch # epoch \/ proof)

\* schedule_operation_task and claim_operation.  process_secondary_once runs
\* one step per call, and calls are serialised.
Dispatch(o) ==
  /\ cycle = "dispatch" /\ o \notin targets
  /\ Cardinality(targets) < IF mode = "manual" THEN 1 ELSE Concurrency
  /\ Claimable(o)
  /\ Write(o, Claimed(op[o]))

Claim(o) ==
  /\ Dispatch(o)
  /\ targets' = targets \cup {o}
  /\ tasks' = tasks \cup {[op |-> o, rev |-> op[o].rev + 1, at |-> "run"]}
  /\ UNCHANGED <<index, nextOp, mode, epoch, cycle, proof, faults, crashes>>

\* The claim's commit reports an error, applied or not: the cycle fails.
ClaimFails(o) ==
  /\ faults < MaxFaults /\ faults' = faults + 1
  /\ \/ Dispatch(o)
     \/ cycle = "dispatch" /\ Claimable(o) /\ UNCHANGED <<op, pointer>>
  /\ cycle' = "drain"
  /\ UNCHANGED <<index, nextOp, mode, epoch, proof, targets, tasks, crashes>>

\* A task is joined: with a result, or with an error that ends the cycle.
Joined(t) == tasks' = tasks \ {t} /\ targets' = targets \ {t.op}
JoinedOk(t) == Joined(t) /\ UNCHANGED <<cycle, faults>>
JoinedErr(t) == Joined(t) /\ cycle' = "drain" /\ UNCHANGED faults
\* How a task that committed ends: its commit may still report an error.
Committed(t) ==
  /\ \/ JoinedOk(t)
     \/ Joined(t) /\ cycle' = "drain" /\ faults < MaxFaults /\ faults' = faults + 1
  /\ UNCHANGED <<nextOp, mode, epoch, proof, crashes>>

\* The recheck of a claim: load_exact_link finds the operation, at the
\* claim's revision.
Current(t) == op[t.op] # None /\ pointer[t.op] # 0 /\ op[t.op].rev = t.rev

\* execute_claimed_step, by what the family driver's step returns.
StepProgressed(t) ==
  /\ t.at = "run" /\ Current(t) /\ op[t.op].left > 0
  /\ Write(t.op, Progressed(op[t.op]))
  /\ UNCHANGED index /\ Committed(t)

StepCompleted(t) ==
  /\ t.at = "run" /\ Current(t) /\ op[t.op].left = 0
  /\ LET r == op[t.op]
         x == CASE r.phase = "constructing" -> Transition(index[r.on], "Building", "Active")
                [] r.phase = "aborting" -> Transition(index[r.on], "Aborting", "Dropped")
                [] r.phase = "cleanup" -> Transition(index[r.on], "Dropping", "Dropped")
         outcome == CASE r.phase = "constructing" -> "BuildSucceeded"
                      [] r.phase = "aborting" -> "BuildAborted"
                      [] r.phase = "cleanup" -> "DropSucceeded"
     IN /\ index' = [index EXCEPT ![r.on] = x]
        /\ Write(t.op, Completed(r, outcome, x.rev))
  /\ Committed(t)

\* Finding a blocker counts as the fault, whether its commit then reports an
\* error or not.
StepBlocked(t) ==
  /\ t.at = "run" /\ Current(t)
  /\ Write(t.op, Blocked(op[t.op]))
  /\ faults < MaxFaults /\ faults' = faults + 1
  /\ Joined(t) /\ cycle' \in {cycle, "drain"}
  /\ UNCHANGED <<index, nextOp, mode, epoch, proof, crashes>>

\* A transient failure, a retryable driver error or a conflict: the claim is
\* released by a transaction of its own.  A permanent driver error is
\* recorded as a blocker, also in its own transaction.
StepFails(t) ==
  /\ t.at = "run" /\ faults < MaxFaults /\ faults' = faults + 1
  /\ \E next \in {"release", "block"} : tasks' = (tasks \ {t}) \cup {[t EXCEPT !.at = next]}
  /\ UNCHANGED <<durableVars, mode, epoch, cycle, proof, targets, crashes>>

\* The step finds that its claim has advanced, or loses the conflict to the
\* transaction that advances it.
StepStale(t) ==
  /\ t.at = "run" /\ ~Current(t)
  /\ \/ JoinedErr(t)
     \/ tasks' = (tasks \ {t}) \cup {[t EXCEPT !.at = "release"]} /\ UNCHANGED <<targets, cycle, faults>>
  /\ UNCHANGED <<durableVars, mode, epoch, proof, crashes>>

\* release_transient_claim
ReleaseClaim(t) ==
  /\ t.at = "release" /\ Current(t)
  /\ Write(t.op, TransientFailure(op[t.op]))
  /\ UNCHANGED index /\ Committed(t)

ReleaseNothing(t) ==
  /\ t.at = "release" /\ ~Current(t)
  /\ JoinedOk(t) \/ JoinedErr(t)
  /\ UNCHANGED <<durableVars, mode, epoch, proof, crashes>>

\* record_driver_failure
RecordFailure(t) ==
  /\ t.at = "block" /\ Current(t)
  /\ Write(t.op, Blocked(op[t.op]))
  /\ UNCHANGED index /\ Committed(t)

RecordFailureStale(t) ==
  /\ t.at = "block" /\ ~Current(t)
  /\ JoinedErr(t)
  /\ UNCHANGED <<durableVars, mode, epoch, proof, crashes>>

\* Variant: an error is taken for the end of the step.
TaskFailsQuietly(t) ==
  /\ faults < MaxFaults /\ faults' = faults + 1
  /\ Joined(t)
  /\ UNCHANGED <<durableVars, mode, epoch, cycle, proof, crashes>>

\* A task that ends with an error and writes nothing, at any point.  A panic
\* also leaves its target registered.
TaskFails(t) ==
  /\ faults < MaxFaults /\ faults' = faults + 1
  /\ tasks' = tasks \ {t} /\ targets' \in {targets, targets \ {t.op}}
  /\ cycle' = "drain"
  /\ UNCHANGED <<durableVars, mode, epoch, proof, crashes>>

\* Variant: the new cycle does not wait for the tasks of the old one.
RestartCycleUndrained ==
  /\ cycle = "drain"
  /\ cycle' = "dispatch" /\ proof' = TRUE /\ targets' = {}
  /\ UNCHANGED <<durableVars, mode, epoch, tasks, faults, crashes>>

\* supervise_worker: a failed cycle is drained, then a new one starts with
\* proof that no task of this epoch is left.
RestartCycle ==
  /\ cycle = "drain" /\ tasks = {}
  /\ cycle' = "dispatch" /\ proof' = TRUE /\ targets' = {}
  /\ UNCHANGED <<durableVars, mode, epoch, tasks, faults, crashes>>

\* The process stops, and another opens the database with a fresh epoch.
Crash ==
  /\ crashes < MaxCrashes
  /\ crashes' = crashes + 1 /\ epoch' = epoch + 1
  /\ cycle' = "dispatch" /\ proof' = (mode = "manual") /\ targets' = {} /\ tasks' = {}
  /\ UNCHANGED <<durableVars, mode, faults>>

-----------------------------------------------------------------------------
TaskStep(t) ==
  \/ StepProgressed(t) \/ StepCompleted(t) \/ StepBlocked(t) \/ StepFails(t) \/ StepStale(t)
  \/ ReleaseClaim(t) \/ ReleaseNothing(t) \/ RecordFailure(t) \/ RecordFailureStale(t)
  \/ TaskFails(t)

Next ==
  \/ \E i \in Indexes : Create(i) \/ DropActive(i) \/ DropBuilding(i)
  \/ \E o \in Ops : AbortOperation(o) \/ RetryOperation(o) \/ DelayElapses(o)
                     \/ Claim(o) \/ ClaimFails(o)
  \/ \E t \in tasks : TaskStep(t)
  \/ RestartCycle \/ Crash

Spec == Init /\ [][Next]_vars

(* A live worker scans its queue on every wake and every sweep, its tasks    *)
(* end, and its supervisor restarts a failed cycle.  The faults, the crash   *)
(* and the operators' commands are not fair.  An operation has finitely many *)
(* steps, so a permit becomes free for good for the last that waits.         *)
Fairness ==
  /\ \A o \in Ops : WF_vars(Claim(o)) /\ WF_vars(DelayElapses(o))
  /\ WF_vars(\E t \in tasks : TaskStep(t)) /\ WF_vars(RestartCycle)

FairSpec == Spec /\ Fairness

-----------------------------------------------------------------------------
\* validate_link, for the operation an index retains.
LinkValid(x, o) ==
  /\ op[o] # None
  /\ op[o].gen = x.gen /\ op[o].indexRev = x.rev
  /\ CASE x.state = "Building" -> op[o].phase = "constructing" /\ op[o].exec \notin Outcomes
       [] x.state = "Active"   -> op[o].phase = "constructing" /\ op[o].exec = "BuildSucceeded"
       [] x.state = "Aborting" -> op[o].phase = "aborting" /\ op[o].exec \notin Outcomes
       [] x.state = "Dropping" -> op[o].kind = "Drop" /\ op[o].exec \notin Outcomes
       [] x.state = "Dropped"  -> op[o].exec = IF op[o].kind = "Build" THEN "BuildAborted"
                                               ELSE "DropSucceeded"
  /\ pointer[o] = IF op[o].exec \in Runnable THEN op[o].rev ELSE 0

(* Every reader's cross-check passes in every reachable state: whatever DDL, *)
(* aborts, retries, late tasks and crashes did, an index and its operation   *)
(* agree on generation, revision and phase, the runnable pointer is there    *)
(* exactly when the operation can run, and no operation or pointer is left   *)
(* that no index retains.  A violation makes validate_link report corruption *)
(* for the rest of the database's life.                                      *)
LinksValidate ==
  /\ \A i \in Indexes : index[i].state # "Absent" => LinkValid(index[i], index[i].op)
  /\ \A o \in Ops : op[o] # None => index[op[o].on].op = o
  /\ \A o \in Ops : op[o] = None => pointer[o] = 0

(* A claim of the running epoch is never orphaned: a task holds it, or the   *)
(* cycle is failing, or the worker may take it over.  An orphan would wait   *)
(* for the next restart of the process.                                      *)
ClaimsAreOwned ==
  \A o \in Ops :
    op[o] # None /\ op[o].exec = "Claimed" /\ op[o].epoch = epoch =>
      \/ \E t \in tasks : t.op = o /\ t.rev = op[o].rev
      \/ proof \/ cycle = "drain"

(* One durable target never executes twice at a time, which the worker       *)
(* asserts, although a new cycle may take over claims of its own epoch.      *)
OneTaskPerOperation ==
  /\ \A t, u \in tasks : t.op = u.op => t = u
  /\ \A t \in tasks : t.op \in targets

Abstract == INSTANCE IndexStates WITH
  state <- [i \in Indexes |-> index[i].state],
  generation <- [i \in Indexes |-> index[i].gen]

(* The outbox implements IndexStates: an index moves only along the          *)
(* documented lifecycle and each build has its own generation, however its   *)
(* operation is claimed, retried, aborted, lost and recovered.               *)
ImplementsIndexStates == Abstract!Spec

(* Every runnable operation completes or stops at a blocker: no failed step, *)
(* lost commit, dead claim or crash leaves one waiting for ever.  Commands   *)
(* and faults are finitely many, so in the end none is runnable.             *)
OperationsSettle == []<>(\A o \in Ops : op[o] # None => op[o].exec \notin Runnable)
=============================================================================
