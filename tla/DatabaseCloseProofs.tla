------------------------ MODULE DatabaseCloseProofs ------------------------
(***************************************************************************)
(* Proofs about DatabaseClose, for any sets of requests, steppers and      *)
(* close() calls and any list of background tasks.                         *)
(*                                                                         *)
(* A fact about closed storage is established in pieces by an attempt that *)
(* may fail and be repeated: IInv says, for every place of finish_close,   *)
(* what the attempt has done so far, and what of it outlives the attempt.  *)
(***************************************************************************)
EXTENDS DatabaseClose, FiniteSetTheorems, TLAPS

TaskType ==
  /\ active \in Nat
  /\ at \in [Tasks -> {"idle", "lock", "check", "admit", "running", "detached", "done",
                       "panicked", "abandoned", "cancelled", "rejected"}]
  /\ step \in Tasks \cup {NoOne, CloseTask}

CloseType ==
  /\ closeState \in {"Open", "Closing", "Closed"}
  /\ waiters \in SUBSET Closers /\ woken \in SUBSET Closers
  /\ caller \in [Closers -> {"idle", "looking", "elected", "waiting", "joining", "dropped",
                             "closed", "failed"}]
  /\ owner \in Closers \cup {NoOne}
  /\ closing \in {"none", "drain", "lock", "stop", "allocators", "storage", "cache",
                  "succeeded", "failed"}
  /\ stopping \in 1 .. Len(StopOrder) + 1
  /\ worker \in [Workers -> {"idle", "busy", "stopping", "stopping busy", "exited", "joined"}]
  /\ refill \in {"Idle", "InFlight", "ClosingInFlight", "Closed"}
  /\ storage \in {"open", "closed"} /\ cache \in {"open", "closed"}
  /\ failures \in 0 .. MaxFailures

TypeOK == sealed \in BOOLEAN /\ TaskType /\ CloseType

\* The tracker's counter is the number of completions that are in flight.
Counted == active = Cardinality(InFlight)

Elected == {c \in Closers : caller[c] = "elected"}

\* From its election to its end an attempt is the only one.
Owned ==
  /\ closing # "none" => closeState = "Closing" /\ owner \in Closers /\ sealed
  /\ closing # "none" \/ closeState # "Closing" => Elected = {}
  /\ closing = "none" /\ closeState = "Closing" => \E c \in Closers : Elected = {c}

\* Once an attempt has drained the tracker, it is drained until the attempt
\* ends, and for ever if storage was closed meanwhile.
Drained ==
  closing \notin {"none", "drain"} \/ storage = "closed" => sealed /\ InFlight = {}

\* The background tasks stopped so far stay stopped.
Stopped ==
  /\ closing \in {"drain", "lock"} => stopping = 1
  /\ closing = "stop" => \A i \in 1 .. stopping - 1 : worker[StopOrder[i]] = "joined"
  /\ closing \in {"allocators", "storage", "cache", "succeeded", "failed"} \/ storage = "closed"
       => \A w \in Workers : worker[w] = "joined"
  /\ closing \in {"storage", "cache", "succeeded", "failed"} \/ storage = "closed"
       => refill = "Closed"

\* What has been closed when finish_close is where it is, and when close()
\* has returned Ok.
Shut ==
  /\ closing \in {"cache", "succeeded"} => storage = "closed"
  /\ closing = "succeeded" => cache = "closed"
  /\ closeState = "Closed" => storage = "closed" /\ cache = "closed"
  /\ \A c \in Closers : caller[c] = "closed" => storage = "closed" /\ cache = "closed"

\* Who holds secondary_lifecycle_step.
Locked ==
  /\ \A t \in Steppers : at[t] \in {"check", "admit", "running", "detached"} => step = t
  /\ closing \in {"stop", "allocators", "storage", "cache"} => step = CloseTask

IInv == TypeOK /\ Counted /\ Owned /\ Drained /\ Stopped /\ Shut /\ Locked

LEMMA StoppingType == IInv => stopping \in 1 .. Len(StopOrder) + 1
BY Zenon DEF IInv, TypeOK, CloseType

LEMMA StopLength == Len(StopOrder) \in Nat
BY StopOrderAssumption

-----------------------------------------------------------------------------
(* What the steps of a request or a stepper do to the work in flight. *)

\* Tracker::run counts the completion it admits.
LEMMA AdmitCounts ==
  ASSUME IInv, NEW t \in Tasks, Run(t)
  PROVE  /\ t \notin InFlight /\ InFlight' = InFlight \cup {t}
         /\ Counted' /\ active' \in Nat
PROOF
  <1>1. t \notin InFlight /\ InFlight' = InFlight \cup {t}
    BY Zenon DEF IInv, TypeOK, TaskType, Run, InFlight
  <1>2. IsFiniteSet(InFlight)
    BY TasksAssumption, FS_Union, FS_Subset, Zenon DEF InFlight, Tasks
  <1>3. Cardinality(InFlight \cup {t}) = Cardinality(InFlight) + 1
    BY <1>1, <1>2, FS_AddElement, Zenon
  <1>4. active' = active + 1
    BY Zenon DEF Run
  <1> QED BY <1>1, <1>3, <1>4 DEF IInv, TypeOK, TaskType, Counted

\* A completion that ends, however it ends, is counted down.
LEMMA EndCounts ==
  ASSUME IInv, NEW t \in Tasks, CompletionEnds(t) \/ DropWithoutRuntime(t)
  PROVE  /\ t \in InFlight /\ InFlight' = InFlight \ {t}
         /\ Counted' /\ active' \in Nat
PROOF
  <1>1. t \in InFlight /\ InFlight' = InFlight \ {t}
    BY Zenon DEF IInv, TypeOK, TaskType, CompletionEnds, DropWithoutRuntime, InFlight
  <1>2. IsFiniteSet(InFlight)
    BY TasksAssumption, FS_Union, FS_Subset, ZenonT(60) DEF InFlight, Tasks
  <1>3. /\ Cardinality(InFlight \ {t}) = Cardinality(InFlight) - 1
        /\ Cardinality(InFlight \ {t}) \in Nat
    BY <1>1, <1>2, FS_RemoveElement, FS_CardinalityType, Zenon
  <1>4. active' = active - 1
    BY Zenon DEF CompletionEnds, DropWithoutRuntime
  <1> QED BY <1>1, <1>3, <1>4, Zenon DEF IInv, TypeOK, TaskType, Counted

\* The other steps of a task neither admit nor end a completion.
LEMMA QuietTask ==
  ASSUME IInv, NEW t \in Tasks, TaskStep(t),
         ~Run(t), ~CompletionEnds(t), ~DropWithoutRuntime(t)
  PROVE  InFlight' = InFlight /\ active' = active
BY Zenon DEF IInv, TypeOK, TaskType, TaskStep, BeginRequest, BeginStep, LockStep, CheckOpen, CheckOpenFails,
       RunRejected, DropRunning, DropWaiting, InFlight, trackerVars

\* A task's step takes or releases secondary_lifecycle_step only for itself.
LEMMA TaskLocks ==
  ASSUME IInv, NEW t \in Tasks, TaskStep(t), UNCHANGED closing
  PROVE  TaskType' /\ Locked'
PROOF
  <1>0. t # CloseTask /\ t # NoOne
    BY TasksAssumption, Zenon DEF Tasks
  <1>1. active' \in Nat
    BY AdmitCounts, EndCounts, QuietTask, Zenon DEF IInv, TypeOK, TaskType
  <1> USE <1>0, <1>1, TasksAssumption DEF IInv, TypeOK, TaskType, Locked, Tasks
  <1>2. CASE BeginRequest(t)
    BY <1>2, Zenon DEF BeginRequest
  <1>3. CASE BeginStep(t)
    BY <1>3, Zenon DEF BeginStep
  <1>4. CASE LockStep(t)
    BY <1>4, Zenon DEF LockStep
  <1>5. CASE CheckOpen(t)
    BY <1>5, Zenon DEF CheckOpen
  <1>6. CASE CheckOpenFails(t)
    BY <1>6, Zenon DEF CheckOpenFails, Released
  <1>7. CASE Run(t)
    BY <1>7, Zenon DEF Run
  <1>8. CASE RunRejected(t)
    BY <1>8, Zenon DEF RunRejected, Released
  <1>9. CASE CompletionEnds(t)
    BY <1>9, Zenon DEF CompletionEnds, Released
  <1>10. CASE DropRunning(t)
    BY <1>10, Zenon DEF DropRunning
  <1>11. CASE DropWithoutRuntime(t)
    BY <1>11, Zenon DEF DropWithoutRuntime, Released
  <1>12. CASE DropWaiting(t)
    BY <1>12, Zenon DEF DropWaiting, Released
  <1> QED BY <1>2, <1>3, <1>4, <1>5, <1>6, <1>7, <1>8, <1>9, <1>10, <1>11, <1>12, Zenon
          DEF TaskStep

LEMMA TaskOK ==
  ASSUME IInv, NEW t \in Tasks, TaskStep(t)
  PROVE  IInv'
PROOF
  <1>1. UNCHANGED <<sealed, closeVars, taskVars, storeVars>>
    BY Zenon DEF TaskStep, BeginRequest, BeginStep, LockStep, CheckOpen, CheckOpenFails, Run,
           RunRejected, CompletionEnds, DropRunning, DropWithoutRuntime, DropWaiting, trackerVars
  <1>2. TypeOK' /\ Locked'
    <2>1. UNCHANGED <<closeVars, worker, refill, storage, cache, failures>>
      BY <1>1, Zenon DEF closeVars, taskVars, storeVars
    <2>2. CloseType'
      BY <2>1, ZenonT(60) DEF IInv, TypeOK, CloseType, closeVars
    <2>3. sealed' \in BOOLEAN
      BY <1>1, Zenon DEF IInv, TypeOK
    <2> QED BY <2>1, <2>2, <2>3, TaskLocks, Zenon DEF TypeOK, closeVars
  <1>3. Counted'
    BY AdmitCounts, EndCounts, QuietTask, Zenon DEF IInv, Counted
  <1>4. Owned' /\ Stopped' /\ Shut'
    BY <1>1, Zenon DEF IInv, Owned, Stopped, Shut, Elected, closeVars, taskVars, storeVars
  <1>5. InFlight' \subseteq InFlight \/ ~sealed
    BY AdmitCounts, EndCounts, QuietTask, Zenon DEF Run
  <1>6. Drained'
    BY <1>1, <1>5, Zenon DEF IInv, Drained, closeVars, storeVars
  <1> QED BY <1>2, <1>3, <1>4, <1>6, Zenon DEF IInv

-----------------------------------------------------------------------------
(* The background tasks, close() calls and finish_close leave the work in    *)
(* flight alone, and all but Drain and SpawnClose the tracker.               *)

LEMMA BackgroundOK ==
  ASSUME IInv, \/ \E w \in Workers : WorkerBegins(w) \/ WorkerEnds(w) \/ WorkerExits(w)
               \/ RefillBegins \/ RefillEnds
  PROVE  IInv'
PROOF
  <1>1. UNCHANGED <<sealed, active, at, step, closeVars, storage, cache, failures>>
    BY Zenon DEF WorkerBegins, WorkerEnds, WorkerExits, RefillBegins, RefillEnds, trackerVars, storeVars
  <1>2. worker' \in [Workers -> {"idle", "busy", "stopping", "stopping busy", "exited", "joined"}]
    BY Zenon DEF IInv, TypeOK, CloseType, WorkerBegins, WorkerEnds, WorkerExits, RefillBegins, RefillEnds
  <1>3. \A w \in Workers : worker[w] = "joined" => worker'[w] = "joined"
    BY Zenon DEF IInv, TypeOK, CloseType, WorkerBegins, WorkerEnds, WorkerExits, RefillBegins, RefillEnds
  <1>4. /\ refill' \in {"Idle", "InFlight", "ClosingInFlight", "Closed"}
        /\ refill = "Closed" => refill' = "Closed"
    BY Zenon DEF IInv, TypeOK, CloseType, WorkerBegins, WorkerEnds, WorkerExits, RefillBegins, RefillEnds
  <1>5. CloseType'
    BY <1>1, <1>2, <1>4, Zenon DEF IInv, TypeOK, CloseType, closeVars
  <1>6. TaskType' /\ Counted' /\ Drained' /\ Locked'
    BY <1>1, Zenon DEF IInv, TypeOK, TaskType, Counted, Drained, Locked, InFlight, closeVars
  <1>7. sealed' \in BOOLEAN /\ Owned' /\ Shut'
    BY <1>1, Zenon DEF IInv, TypeOK, Owned, Elected, Shut, closeVars
  <1>8. \A i \in 1 .. stopping - 1 : StopOrder[i] \in Workers
    BY StopLength, StoppingType DEF Workers
  <1>9. Stopped'
    BY <1>1, <1>3, <1>4, <1>8, Zenon DEF IInv, Stopped, closeVars
  <1> QED BY <1>5, <1>6, <1>7, <1>9, Zenon DEF IInv, TypeOK

\* close(): whatever a call does, it leaves the tasks and storage alone.
LEMMA CallerOK ==
  ASSUME IInv, NEW c \in Closers, CallerStep(c)
  PROVE  IInv'
PROOF
  <1> USE DEF trackerVars, taskVars, storeVars
  <1>1. UNCHANGED <<active, at, step, worker, refill, storage, cache, failures>>
    BY Zenon DEF CallerStep, BeginClose, ElectClose, JoinClose, FindClosed, SpawnClose, Wake, DropCaller
  <1>2. TaskType' /\ Counted' /\ InFlight' = InFlight
    BY <1>1, Zenon DEF IInv, TypeOK, TaskType, Counted, InFlight
  <1>3. CloseType'
    <2>1. stopping' \in 1 .. Len(StopOrder) + 1
      BY StopLength, StoppingType DEF CallerStep, BeginClose, ElectClose, JoinClose, FindClosed,
            SpawnClose, Wake, DropCaller
    <2>2. /\ closeState' \in {"Open", "Closing", "Closed"}
          /\ waiters' \in SUBSET Closers /\ woken' \in SUBSET Closers
          /\ owner' \in Closers \cup {NoOne}
      BY Zenon DEF IInv, TypeOK, CloseType, CallerStep, BeginClose, ElectClose,
            JoinClose, FindClosed, SpawnClose, Wake, DropCaller
    <2>3. /\ caller' \in [Closers -> {"idle", "looking", "elected", "waiting", "joining",
                                      "dropped", "closed", "failed"}]
          /\ closing' \in {"none", "drain", "lock", "stop", "allocators", "storage", "cache",
                           "succeeded", "failed"}
      BY ZenonT(60) DEF IInv, TypeOK, CloseType, CallerStep, BeginClose, ElectClose,
            JoinClose, FindClosed, SpawnClose, Wake, DropCaller
    <2> QED BY <1>1, <2>1, <2>2, <2>3, ZenonT(60) DEF IInv, TypeOK, CloseType
  <1>4. CASE ElectClose(c)
    <2>1. closing = "none" /\ Elected = {}
      BY <1>4, Zenon DEF IInv, Owned, ElectClose
    <2>2. Elected' = {c}
      BY <1>4, <2>1, Zenon DEF IInv, TypeOK, CloseType, Elected, ElectClose
    <2>3. Owned'
      BY <1>4, <2>1, <2>2, Zenon DEF Owned, ElectClose
    <2>4. Drained' /\ Stopped' /\ Shut' /\ Locked'
      BY <1>1, <1>2, <1>4, ZenonT(60) DEF IInv, TypeOK, CloseType, Drained, Stopped, Shut, Locked, ElectClose
    <2>5. sealed' \in BOOLEAN
      BY <1>4, Zenon DEF IInv, TypeOK, ElectClose
    <2> QED BY <1>2, <1>3, <2>3, <2>4, <2>5, Zenon DEF IInv, TypeOK
  <1>5. CASE SpawnClose(c)
    <2>1. closing = "none" /\ closeState = "Closing" /\ Elected = {c}
      BY <1>5, Zenon DEF IInv, Owned, Elected, SpawnClose
    <2>2. Elected' = {}
      BY <1>5, <2>1, Zenon DEF IInv, TypeOK, CloseType, Elected, SpawnClose
    <2>3. Owned'
      BY <1>5, <2>1, <2>2, Zenon DEF Owned, SpawnClose
    <2>4. Drained' /\ Stopped' /\ Shut' /\ Locked'
      BY <1>1, <1>2, <1>5, Zenon DEF IInv, TypeOK, CloseType, Drained, Stopped, Shut, Locked, SpawnClose
    <2>5. sealed' \in BOOLEAN
      BY <1>5, Zenon DEF SpawnClose
    <2> QED BY <1>2, <1>3, <2>3, <2>4, <2>5, Zenon DEF IInv, TypeOK
  <1>6. CASE BeginClose(c) \/ JoinClose(c) \/ FindClosed(c) \/ Wake(c) \/ DropCaller(c)
    <2>1. UNCHANGED <<sealed, closeState, owner, closing, stopping>>
      BY <1>6, Zenon DEF BeginClose, JoinClose, FindClosed, Wake, DropCaller
    <2>2. Elected' = Elected
      BY <1>6, ZenonT(60) DEF IInv, TypeOK, CloseType, Elected, BeginClose, JoinClose, FindClosed, Wake,
                  DropCaller
    <2>3. Owned'
      BY <2>1, <2>2, Zenon DEF IInv, Owned
    <2>4. Drained' /\ Stopped' /\ Locked'
      BY <1>1, <1>2, <2>1, Zenon DEF IInv, Drained, Stopped, Locked
    <2>5. \A d \in Closers : caller'[d] = "closed" => caller[d] = "closed" \/ closeState = "Closed"
      BY <1>6, Zenon DEF IInv, TypeOK, CloseType, BeginClose, JoinClose, FindClosed, Wake, DropCaller
    <2>6. Shut'
      BY <1>1, <2>1, <2>5, Zenon DEF IInv, Shut
    <2>7. sealed' \in BOOLEAN
      BY <2>1, Zenon DEF IInv, TypeOK
    <2> QED BY <1>2, <1>3, <2>3, <2>4, <2>6, <2>7, Zenon DEF IInv, TypeOK
  <1> QED BY <1>4, <1>5, <1>6, Zenon DEF CallerStep

-----------------------------------------------------------------------------
(* finish_close.  It never touches the tasks' places, the counter or, before *)
(* Settle, the elections.                                                    *)

FinishVars == <<active, at>>
ElectVars == <<closeState, waiters, woken, caller, owner>>

LEMMA CloseKeepsTasks ==
  ASSUME IInv, UNCHANGED FinishVars, step' \in {step, NoOne, CloseTask}
  PROVE  TaskType' /\ Counted' /\ InFlight' = InFlight
BY Zenon DEF IInv, TypeOK, TaskType, Counted, InFlight, FinishVars

LEMMA CloseKeepsOwner ==
  ASSUME IInv, UNCHANGED ElectVars, closing # "none", closing' # "none", sealed' = sealed \/ sealed'
  PROVE  Owned' /\ sealed' \in BOOLEAN
BY Zenon DEF IInv, TypeOK, Owned, Elected, ElectVars

\* A step of finish_close that changes closing only.
LEMMA AdvanceOK ==
  ASSUME IInv, UNCHANGED <<sealed, FinishVars, step, ElectVars, stopping, worker, refill,
                           storage, cache, failures>>,
         \/ closing = "stop" /\ stopping > Len(StopOrder) /\ closing' = "allocators"
         \/ closing = "allocators" /\ refill = "Closed" /\ closing' = "storage"
  PROVE  IInv'
PROOF
  <1>1. TaskType' /\ Counted' /\ InFlight' = InFlight
    BY CloseKeepsTasks, Zenon
  <1>2. Owned' /\ sealed' \in BOOLEAN
    BY CloseKeepsOwner, Zenon
  <1>3. CloseType' /\ Shut' /\ Locked'
    BY ZenonT(60) DEF IInv, TypeOK, CloseType, Shut, Locked, FinishVars, ElectVars
  <1>4. Drained'
    BY <1>1, Zenon DEF IInv, Drained
  <1>5. \A w \in Workers : worker[w] = "joined"
    <2>1. CASE closing = "stop" /\ stopping > Len(StopOrder)
      <3>1. 1 .. stopping - 1 = 1 .. Len(StopOrder)
        BY <2>1, StopLength, StoppingType
      <3> QED BY <2>1, <3>1, Zenon DEF IInv, Stopped, Workers
    <2>2. CASE closing = "allocators"
      BY <2>2, Zenon DEF IInv, Stopped
    <2> QED BY <2>1, <2>2, Zenon
  <1>6. Stopped'
    BY <1>5, Zenon DEF IInv, Stopped
  <1> QED BY <1>1, <1>2, <1>3, <1>4, <1>6, Zenon DEF IInv, TypeOK

LEMMA DrainOK == ASSUME IInv, Drain PROVE IInv'
PROOF
  <1> USE DEF trackerVars, taskVars, storeVars
  <1>1. UNCHANGED <<FinishVars, step, ElectVars, stopping, worker, refill, storage, cache, failures>>
    BY Zenon DEF Drain, FinishVars, ElectVars
  <1>2. TaskType' /\ Counted' /\ InFlight' = InFlight
    BY <1>1, CloseKeepsTasks, Zenon
  <1>3. Owned' /\ sealed' \in BOOLEAN
    BY <1>1, CloseKeepsOwner, Zenon DEF Drain
  <1>4. CloseType' /\ Shut' /\ Locked' /\ Stopped'
    BY <1>1, ZenonT(60) DEF IInv, TypeOK, CloseType, Shut, Locked, Stopped, FinishVars, ElectVars, Drain
  <1>5. InFlight = {}
    <2>1. IsFiniteSet(InFlight)
      BY TasksAssumption, FS_Union, FS_Subset, Zenon DEF InFlight, Tasks
    <2>2. Cardinality(InFlight) = 0
      BY Zenon DEF IInv, Counted, Drain
    <2> QED BY <2>1, <2>2, FS_EmptySet, Zenon
  <1>6. Drained'
    BY <1>2, <1>5, Zenon DEF Drained, Drain
  <1> QED BY <1>2, <1>3, <1>4, <1>6, Zenon DEF IInv, TypeOK

LEMMA CloseLocksStepOK == ASSUME IInv, CloseLocksStep PROVE IInv'
PROOF
  <1> USE DEF trackerVars, taskVars, storeVars
  <1>1. UNCHANGED <<sealed, FinishVars, ElectVars, stopping, worker, refill, storage, cache,
                    failures>>
    BY Zenon DEF CloseLocksStep, FinishVars, ElectVars
  <1>2. TaskType' /\ Counted' /\ InFlight' = InFlight
    BY <1>1, CloseKeepsTasks, Zenon DEF CloseLocksStep
  <1>3. Owned' /\ sealed' \in BOOLEAN
    BY <1>1, CloseKeepsOwner, Zenon DEF CloseLocksStep
  <1>4. CloseType' /\ Shut'
    BY <1>1, ZenonT(60) DEF IInv, TypeOK, CloseType, Shut, ElectVars, CloseLocksStep
  <1>5. Drained'
    BY <1>1, <1>2 DEF IInv, Drained, CloseLocksStep
  <1>6. \A t \in Steppers : at[t] \notin {"check", "admit", "running", "detached"}
    BY TasksAssumption, Zenon DEF IInv, Locked, CloseLocksStep
  <1>7. Locked'
    BY <1>1, <1>6, Zenon DEF Locked, FinishVars, CloseLocksStep
  <1>8. Stopped'
    <2>1. stopping' = 1 /\ 1 .. stopping' - 1 = {}
      BY <1>1 DEF IInv, Stopped, CloseLocksStep
    <2> QED BY <1>1, <2>1, Zenon DEF IInv, Stopped, CloseLocksStep
  <1> QED BY <1>2, <1>3, <1>4, <1>5, <1>7, <1>8, Zenon DEF IInv, TypeOK

\* Stopping a task, and shutting the allocators down, keep what is stopped.
LEMMA StopOK ==
  ASSUME IInv, StopWorker \/ CloseAllocators
  PROVE  IInv'
PROOF
  <1> USE DEF trackerVars, closeVars, taskVars, storeVars
  <1>1. UNCHANGED <<sealed, FinishVars, step, ElectVars, closing, stopping, storage, cache, failures>>
    BY Zenon DEF StopWorker, CloseAllocators, FinishVars, ElectVars
  <1>2. closing \in {"stop", "allocators"}
    BY Zenon DEF StopWorker, CloseAllocators
  <1>3. TaskType' /\ Counted' /\ InFlight' = InFlight
    BY <1>1, CloseKeepsTasks, Zenon
  <1>4. Owned' /\ sealed' \in BOOLEAN
    BY <1>1, <1>2, CloseKeepsOwner, Zenon
  <1>5. /\ worker' \in [Workers -> {"idle", "busy", "stopping", "stopping busy", "exited", "joined"}]
        /\ \A w \in Workers : worker[w] = "joined" => worker'[w] = "joined"
    BY Zenon DEF IInv, TypeOK, CloseType, StopWorker, CloseAllocators
  <1>6. /\ refill' \in {"Idle", "InFlight", "ClosingInFlight", "Closed"}
        /\ refill = "Closed" => refill' = "Closed"
    BY ZenonT(60) DEF IInv, TypeOK, CloseType, StopWorker, CloseAllocators
  <1>7. CloseType' /\ Shut' /\ Locked'
    BY <1>1, <1>5, <1>6, ZenonT(60) DEF IInv, TypeOK, CloseType, Shut, Locked, FinishVars, ElectVars
  <1>8. Drained'
    BY <1>1, <1>3, Zenon DEF IInv, Drained
  <1>9. \A i \in 1 .. stopping - 1 : StopOrder[i] \in Workers
    BY StopLength, StoppingType DEF Workers
  <1>10. Stopped'
    BY <1>1, <1>5, <1>6, <1>9, Zenon DEF IInv, Stopped
  <1> QED BY <1>3, <1>4, <1>7, <1>8, <1>10, Zenon DEF IInv, TypeOK

LEMMA JoinWorkerOK == ASSUME IInv, JoinWorker PROVE IInv'
PROOF
  <1> USE DEF trackerVars, storeVars
  <1> DEFINE w == StopOrder[stopping]
  <1>1. UNCHANGED <<sealed, FinishVars, step, ElectVars, closing, refill, storage, cache, failures>>
    BY Zenon DEF JoinWorker, FinishVars, ElectVars
  <1>2. TaskType' /\ Counted' /\ InFlight' = InFlight
    BY <1>1, CloseKeepsTasks, Zenon
  <1>3. closing = "stop" /\ stopping <= Len(StopOrder) /\ stopping' = stopping + 1
    BY Zenon DEF JoinWorker
  <1>4. Owned' /\ sealed' \in BOOLEAN
    BY <1>1, <1>3, CloseKeepsOwner, Zenon
  <1>5. stopping \in 1 .. Len(StopOrder) /\ stopping' \in 1 .. Len(StopOrder) + 1
    BY <1>3, StopLength, StoppingType
  <1>6. w \in Workers
    BY <1>5, Zenon DEF Workers
  <1>7. worker' = [worker EXCEPT ![w] = "joined"]
    BY Zenon DEF JoinWorker
  <1>8. /\ worker' \in [Workers -> {"idle", "busy", "stopping", "stopping busy", "exited", "joined"}]
        /\ worker'[w] = "joined"
        /\ \A v \in Workers : worker[v] = "joined" => worker'[v] = "joined"
    BY <1>6, <1>7, Zenon DEF IInv, TypeOK, CloseType
  <1>9. CloseType' /\ Shut' /\ Locked'
    <2>1. CloseType'
      BY <1>1, <1>5, <1>8, ZenonT(60) DEF IInv, TypeOK, CloseType, ElectVars
    <2> QED BY <1>1, <2>1, Zenon DEF IInv, Shut, Locked, FinishVars, ElectVars
  <1>10. Drained'
    BY <1>1, <1>2, Zenon DEF IInv, Drained
  <1>11. Stopped'
    <2>1. ASSUME NEW i \in 1 .. stopping' - 1
          PROVE  worker'[StopOrder[i]] = "joined"
      <3>1. i \in 1 .. stopping - 1 \/ i = stopping
        BY <1>3, <1>5
      <3>2. CASE i \in 1 .. stopping - 1
        <4>1. i \in 1 .. Len(StopOrder)
          BY <1>5, <3>2, StopLength
        <4>2. StopOrder[i] \in Workers /\ worker[StopOrder[i]] = "joined"
          BY <1>3, <3>2, <4>1, Zenon DEF IInv, Stopped, Workers
        <4> QED BY <1>8, <4>2, Zenon
      <3> QED BY <1>8, <3>1, <3>2, ZenonT(60)
    <2> QED BY <1>1, <1>3, <1>8, <2>1, Zenon DEF IInv, Stopped
  <1> QED BY <1>2, <1>4, <1>9, <1>10, <1>11, Zenon DEF IInv, TypeOK

\* storage.close() and the cache's, whether they report success or an error.
LEMMA StorageOK ==
  ASSUME IInv, CloseStorage \/ CloseCache \/ CloseFails
  PROVE  IInv'
PROOF
  <1> USE DEF trackerVars, taskVars
  <1>1. UNCHANGED <<sealed, FinishVars, ElectVars, stopping, worker, refill>>
    BY Zenon DEF CloseStorage, CloseCache, CloseFails, FinishVars, ElectVars
  <1>2. step' \in {step, NoOne} /\ closing' \in {"cache", "succeeded", "failed"}
    BY Zenon DEF CloseStorage, CloseCache, CloseFails
  <1>3. TaskType' /\ Counted' /\ InFlight' = InFlight
    BY <1>1, <1>2, CloseKeepsTasks, Zenon
  <1>4. closing \in {"storage", "cache"}
    BY Zenon DEF CloseStorage, CloseCache, CloseFails
  <1>5. Owned' /\ sealed' \in BOOLEAN
    BY <1>1, <1>2, <1>4, CloseKeepsOwner, Zenon
  <1>6. failures' \in 0 .. MaxFailures
    <2>1. failures \in 0 .. MaxFailures
      BY Zenon DEF IInv, TypeOK, CloseType
    <2> QED BY <2>1, MaxFailuresAssumption DEF CloseStorage, CloseCache, CloseFails
  <1>7. /\ storage' \in {"open", "closed"} /\ cache' \in {"open", "closed"}
        /\ storage = "closed" => storage' = "closed"
        /\ cache = "closed" => cache' = "closed"
        /\ closing' \in {"cache", "succeeded"} => storage' = "closed"
        /\ closing' = "succeeded" => cache' = "closed"
    BY Zenon DEF IInv, TypeOK, CloseType, Shut, CloseStorage, CloseCache, CloseFails
  <1>8. CloseType' /\ Shut'
    BY <1>1, <1>2, <1>6, <1>7, ZenonT(60) DEF IInv, TypeOK, CloseType, Shut, ElectVars
  <1>9. Drained' /\ Stopped'
    BY <1>1, <1>2, <1>3, <1>4, Zenon DEF IInv, Drained, Stopped
  <1>10. step = CloseTask /\ (closing' = "cache" => step' = CloseTask)
    BY <1>4, Zenon DEF IInv, Locked, CloseStorage, CloseCache, CloseFails
  <1>11. \A t \in Steppers : at[t] \notin {"check", "admit", "running", "detached"}
    BY <1>10, TasksAssumption, Zenon DEF IInv, Locked
  <1>12. Locked'
    BY <1>1, <1>2, <1>10, <1>11, Zenon DEF Locked, FinishVars
  <1> QED BY <1>3, <1>5, <1>8, <1>9, <1>12, Zenon DEF IInv, TypeOK

LEMMA SettleOK == ASSUME IInv, Settle PROVE IInv'
PROOF
  <1> USE DEF trackerVars, taskVars, storeVars
  <1>1. UNCHANGED <<sealed, FinishVars, step, stopping, worker, refill, storage, cache, failures>>
    BY Zenon DEF Settle, FinishVars
  <1>2. TaskType' /\ Counted' /\ InFlight' = InFlight
    BY <1>1, CloseKeepsTasks, Zenon
  <1>3. closing \in {"succeeded", "failed"} /\ closing' = "none" /\ closeState' # "Closing"
    BY Zenon DEF Settle
  <1>4. owner \in Closers /\ Elected = {}
    BY <1>3, Zenon DEF IInv, Owned
  <1>5. \A c \in Closers : caller'[c] \in {caller[c], "closed", "failed"}
    BY Zenon DEF IInv, TypeOK, CloseType, Settle
  <1>6. Elected' = {}
    BY <1>4, <1>5, Zenon DEF Elected
  <1>7. Owned' /\ sealed' \in BOOLEAN
    BY <1>1, <1>3, <1>6, Zenon DEF IInv, TypeOK, Owned
  <1>8. CloseType'
    BY <1>1, <1>3, <1>4, ZenonT(60) DEF IInv, TypeOK, CloseType, Settle
  <1>9. Drained' /\ Stopped' /\ Locked'
    BY <1>1, <1>2, <1>3, Zenon DEF IInv, Drained, Stopped, Locked, FinishVars
  <1>10. \A c \in Closers : caller'[c] = "closed" => caller[c] = "closed" \/ closing = "succeeded"
    BY <1>4, Zenon DEF IInv, TypeOK, CloseType, Settle
  <1>11. Shut'
    BY <1>1, <1>3, <1>10, Zenon DEF IInv, Shut, Settle
  <1> QED BY <1>2, <1>7, <1>8, <1>9, <1>11, Zenon DEF IInv, TypeOK

-----------------------------------------------------------------------------
LEMMA InitOK == Init => IInv
PROOF
  <1> SUFFICES ASSUME Init PROVE IInv
    BY Zenon
  <1>1. InFlight = {} /\ Elected = {}
    BY Zenon DEF Init, InFlight, Elected
  <1>2. TaskType
    BY Zenon DEF Init, TaskType
  <1>3. CloseType
    <2>1. stopping \in 1 .. Len(StopOrder) + 1
      BY StopLength DEF Init
    <2>2. failures \in 0 .. MaxFailures
      BY MaxFailuresAssumption DEF Init
    <2> QED BY <2>1, <2>2, Zenon DEF Init, CloseType
  <1>4. Counted
    BY <1>1, FS_EmptySet, Zenon DEF Init, Counted
  <1>5. Owned /\ sealed \in BOOLEAN
    BY <1>1, ZenonT(60) DEF Init, Owned
  <1>6. Drained /\ Stopped /\ Shut /\ Locked
    BY Zenon DEF Init, Drained, Stopped, Shut, Locked, Tasks
  <1> QED BY <1>2, <1>3, <1>4, <1>5, <1>6, Zenon DEF IInv, TypeOK

LEMMA CloseStepOK == ASSUME IInv, CloseStep PROVE IInv'
PROOF
  <1>1. CASE WorkersStopped
    BY <1>1, AdvanceOK, Zenon
       DEF WorkersStopped, FinishVars, ElectVars, trackerVars, taskVars, storeVars
  <1>2. CASE AllocatorsClosed
    BY <1>2, AdvanceOK, Zenon
       DEF AllocatorsClosed, FinishVars, ElectVars, trackerVars, taskVars, storeVars
  <1> QED BY <1>1, <1>2, DrainOK, CloseLocksStepOK, StopOK, JoinWorkerOK, StorageOK, SettleOK, Zenon
          DEF CloseStep

LEMMA StutterOK == ASSUME IInv, UNCHANGED vars PROVE IInv'
PROOF
  <1>1. TaskType' /\ Counted' /\ Drained' /\ Locked'
    BY Zenon DEF IInv, TypeOK, TaskType, Counted, Drained, Locked, InFlight, vars
  <1>2. CloseType' /\ sealed' \in BOOLEAN /\ Owned'
    BY ZenonT(60) DEF IInv, TypeOK, CloseType, Owned, Elected, vars
  <1>3. Stopped' /\ Shut'
    BY Zenon DEF IInv, Stopped, Shut, vars
  <1> QED BY <1>1, <1>2, <1>3, Zenon DEF IInv, TypeOK

LEMMA NextOK == IInv /\ [Next]_vars => IInv'
BY TaskOK, CallerOK, BackgroundOK, CloseStepOK, StutterOK, Zenon DEF Next

(* IInv is an invariant: every attempt to close is at the place it has       *)
(* earned, whatever was dropped, failed or repeated before.                  *)
THEOREM Invariance == Spec => []IInv
BY InitOK, NextOK, PTL DEF Spec

(* Every variable keeps its type; the bound on failures is the model's.      *)
THEOREM TypeCorrect == Spec => []TypeOK
BY Invariance, PTL DEF IInv

(* finish_close's order of shutdown: no completion, no background task and   *)
(* no refill of an ID lease is left when storage is closed.                  *)
THEOREM QuietStorage == Spec => []NothingRunsOnClosedStorage
PROOF
  <1>1. IInv => NothingRunsOnClosedStorage
    BY Zenon DEF IInv, Drained, Stopped, NothingRunsOnClosedStorage
  <1> QED BY <1>1, Invariance, PTL

(* CloseState admits one attempt at a time, and the unreachable!() of        *)
(* finish_close's tail is unreachable.                                       *)
THEOREM OneOwner == Spec => []CloseIsOwnedOnce
PROOF
  <1>1. IInv => CloseIsOwnedOnce
    <2> SUFFICES ASSUME IInv PROVE CloseIsOwnedOnce
      BY Zenon
    <2>1. CASE closing # "none"
      <3>1. Cardinality(Elected) = 0
        BY <2>1, FS_EmptySet, Zenon DEF IInv, Owned
      <3> QED BY <2>1, <3>1 DEF IInv, Owned, Elected, CloseIsOwnedOnce
    <2>2. CASE closing = "none" /\ closeState = "Closing"
      <3>1. Cardinality(Elected) = 1
        BY <2>2, FS_Singleton, Zenon DEF IInv, Owned
      <3> QED BY <2>2, <3>1 DEF Elected, CloseIsOwnedOnce
    <2>3. CASE closing = "none" /\ closeState # "Closing"
      BY <2>3, Zenon DEF CloseIsOwnedOnce
    <2> QED BY <2>1, <2>2, <2>3, Zenon
  <1> QED BY <1>1, Invariance, PTL

(* A close() that returned Ok, whoever did the work, left storage and its    *)
(* cache closed, for good.                                                   *)
THEOREM OkIsFinal == Spec => []OkMeansClosed
PROOF
  <1>1. IInv => OkMeansClosed
    BY Zenon DEF IInv, Shut, OkMeansClosed
  <1> QED BY <1>1, Invariance, PTL

(* secondary_lifecycle_step is held over a manual step to its very end, also *)
(* when the call was dropped, and by finish_close from the worker's stop on. *)
THEOREM LoneSteps == Spec => []StepsRunAlone
PROOF
  <1>1. IInv => StepsRunAlone
    BY Zenon DEF IInv, Locked, StepsRunAlone, InFlight
  <1> QED BY <1>1, Invariance, PTL

-----------------------------------------------------------------------------
(* Refinement of DrainContract. *)

ContractStep == Contract!Admit \/ Contract!End \/ Contract!Seal \/ Contract!Shut

Phase == IF storage = "closed" THEN "shut" ELSE IF sealed THEN "draining" ELSE "serving"

LEMMA TaskRefines ==
  ASSUME IInv, NEW t \in Tasks, TaskStep(t)
  PROVE  ContractStep \/ (Phase' = Phase /\ InFlight' = InFlight)
PROOF
  <1>1. UNCHANGED <<sealed, storage>>
    BY Zenon DEF TaskStep, BeginRequest, BeginStep, LockStep, CheckOpen, CheckOpenFails, Run,
           RunRejected, CompletionEnds, DropRunning, DropWithoutRuntime, DropWaiting,
           trackerVars, storeVars
  <1>2. Phase' = Phase
    BY <1>1, Zenon DEF Phase
  <1>3. CASE Run(t)
    <2>1. Phase = "serving"
      BY <1>3, Zenon DEF IInv, Drained, Run, Phase
    <2>2. t \in Tasks \ InFlight /\ InFlight' = InFlight \cup {t}
      BY <1>3, AdmitCounts, Zenon
    <2> QED BY <1>2, <2>1, <2>2, Zenon DEF ContractStep, Contract!Admit, Phase
  <1>4. CASE CompletionEnds(t) \/ DropWithoutRuntime(t)
    BY <1>2, <1>4, EndCounts, Zenon DEF ContractStep, Contract!End, Phase
  <1> QED BY <1>2, <1>3, <1>4, QuietTask, Zenon

\* Everything else leaves the work alone, seals the tracker or closes storage
\* of a drained one.
LEMMA OtherRefines ==
  ASSUME IInv, InFlight' = InFlight,
         storage \in {"open", "closed"}, storage' \in {storage, "closed"},
         sealed' = sealed \/ sealed',
         sealed' # sealed => storage' = storage,
         storage' # storage => sealed /\ InFlight = {}
  PROVE  ContractStep \/ (Phase' = Phase /\ InFlight' = InFlight)
PROOF
  <1>1. CASE storage' # storage
    <2>1. Phase = "draining" /\ Phase' = "shut" /\ InFlight = {}
      BY <1>1, Zenon DEF Phase
    <2> QED BY <2>1, Zenon DEF ContractStep, Contract!Shut, Phase
  <1>2. CASE storage' = storage /\ storage # "closed" /\ ~sealed /\ sealed'
    <2>1. Phase = "serving" /\ Phase' = "draining"
      BY <1>2, Zenon DEF Phase
    <2> QED BY <2>1, Zenon DEF ContractStep, Contract!Seal, Phase
  <1>3. CASE storage' = storage /\ (storage = "closed" \/ sealed' = sealed \/ (sealed /\ sealed'))
    BY <1>3 DEF Phase
  <1> QED BY <1>1, <1>2, <1>3, Zenon

LEMMA StepRefines ==
  ASSUME IInv, [Next]_vars
  PROVE  ContractStep \/ (Phase' = Phase /\ InFlight' = InFlight)
PROOF
  <1> USE DEF trackerVars, closeVars, taskVars, storeVars
  <1>1. CASE \E t \in Tasks : TaskStep(t)
    BY <1>1, TaskRefines, Zenon
  <1>2. CASE ~ \E t \in Tasks : TaskStep(t)
    <2>1. UNCHANGED at
      BY <1>2, Zenon DEF Next, CallerStep, BeginClose, ElectClose, JoinClose, FindClosed, SpawnClose, Wake,
         DropCaller, WorkerBegins, WorkerEnds, WorkerExits, RefillBegins, RefillEnds, CloseStep,
         Drain, CloseLocksStep, StopWorker, JoinWorker, WorkersStopped, CloseAllocators,
         AllocatorsClosed, CloseStorage, CloseCache, CloseFails, Settle, vars
    <2>2. InFlight' = InFlight
      BY <2>1, Zenon DEF InFlight
    <2>3. storage \in {"open", "closed"}
      BY Zenon DEF IInv, TypeOK, CloseType
    <2>4. CASE CloseStorage \/ CloseFails
      <3>1. sealed' = sealed /\ storage' \in {storage, "closed"}
        BY <2>4, Zenon DEF CloseStorage, CloseFails
      <3>2. sealed /\ InFlight = {}
        BY <2>4, Zenon DEF IInv, Drained, CloseStorage, CloseFails
      <3> QED BY <2>2, <2>3, <3>1, <3>2, OtherRefines, Zenon
    <2>5. CASE ~CloseStorage /\ ~CloseFails
      <3>1. storage' = storage /\ (sealed' = sealed \/ sealed')
        BY <1>2, <2>5, Zenon DEF Next, CallerStep, BeginClose, ElectClose, JoinClose, FindClosed,
           SpawnClose, Wake, DropCaller, WorkerBegins, WorkerEnds, WorkerExits, RefillBegins,
           RefillEnds, CloseStep, Drain, CloseLocksStep, StopWorker, JoinWorker, WorkersStopped,
           CloseAllocators, AllocatorsClosed, CloseCache, Settle, vars
      <3> QED BY <2>2, <2>3, <3>1, OtherRefines, Zenon
    <2> QED BY <2>4, <2>5, Zenon
  <1> QED BY <1>1, <1>2, Zenon

(* The tracker and close() implement DrainContract: a completion is admitted *)
(* only while the database serves, admission never reopens, and storage is   *)
(* closed only when the last admitted completion has ended.                  *)
THEOREM DrainRefinement == Spec => ImplementsDrain
PROOF
  <1>1. Init => Contract!Init
    BY Zenon DEF Init, Contract!Init, InFlight
  <1>2. IInv /\ [Next]_vars =>
          [Contract!Admit \/ Contract!End \/ Contract!Seal \/ Contract!Shut]_<<Phase, InFlight>>
    BY StepRefines, Zenon DEF ContractStep
  <1> QED BY <1>1, <1>2, Invariance, PTL DEF Spec, ImplementsDrain, Contract!Spec, Phase
=============================================================================
