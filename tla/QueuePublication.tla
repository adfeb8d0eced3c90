-------------------------- MODULE QueuePublication --------------------------
(* Publication of the queued operations of one text or vector generation      *)
(* (index_lifecycle/queue/publication.rs and the retained queues of           *)
(* storage.rs): what an attempt reads, selects, commits and holds back, and   *)
(* when the next one runs, beside the writes that enqueue.  Operations are    *)
(* numbered in the order their writes commit, so a set of numbers is a queue  *)
(* in storage order.  The ledger is the subject of OperationBacklog; here an  *)
(* admission matters only by being later than one observed before, so what    *)
(* an observer recorded is a flag that the next admission clears.             *)
EXTENDS Naturals, FiniteSets, FiniteSetsExt

CONSTANTS
  Entities, None,
  Families,      \* "vector", "text": what the generation may index
  Kinds,         \* of states: "fit"; "big" fits no publication; "bad" fails to plan
  Capacity,      \* operations one publication may acknowledge
  DiscardLimit,  \* operations one discard may acknowledge
  MaxEntities,   \* entities of one batch
  InputLimits,   \* operations the input bytes of a regular batch may allow
  Owners,        \* bound: the owners the generation may come to have
  MaxOps,        \* bound: operations enqueued
  MaxFlights,    \* bound: writes in flight at once
  Crashes,       \* bound: whether the process may restart
  MaxFaults      \* bound: failed, conflicting and uncertain commits, and restarts

ASSUME PublicationAssumption ==
  /\ IsFiniteSet(Entities) /\ None \notin [entity : Entities, kind : Kinds]
  /\ {Capacity, DiscardLimit, MaxEntities, MaxOps, MaxFlights} \subseteq Nat \ {0}
  /\ MaxFaults \in Nat /\ Crashes \in BOOLEAN
  /\ InputLimits \subseteq Nat \ {0} /\ InputLimits # {}
  /\ "Active" \in Owners /\ Owners \subseteq {"Building", "Active", "Retired"}
  /\ Families \subseteq {"vector", "text"} /\ Kinds \subseteq {"fit", "big", "bad"}

VARIABLES
  family,
  owner,      \* GenerationOwner, as the index record has it
  queue,      \* Ids -> stored operation, or None
  newest,     \* Entities -> its newest operation ever enqueued, or 0
  served,     \* Entities -> the operation whose state the index serves, or 0
  flight,     \* Entities -> the write in flight
  unsettled,  \* uncertain charges: operations, and entities whose lost write is charged
  retained,   \* the queue the last attempt retained
  schedule,   \* TargetSchedule
  attempt,    \* the running attempt
  faults

vars == <<family, owner, queue, newest, served, flight, unsettled, retained, schedule, attempt, faults>>

Ids == 1..MaxOps
Stored == {id \in Ids : queue[id] # None}
NoQueue == [ids |-> {}, current |-> FALSE]
NoAttempt == [pc |-> "idle", owner |-> None, current |-> FALSE, same |-> FALSE, awaits |-> {},
              late |-> {}, stored |-> NoQueue, batch |-> [e \in Entities |-> {}]]
Hold(kind, through, tried, width) ==
  [kind |-> kind, through |-> through, tried |-> tried, width |-> width, due |-> FALSE]
NoHold == Hold("none", 0, 0, 0)
NewSchedule == [held |-> [e \in Entities |-> NoHold], cursor |-> None, entityLimit |-> MaxEntities,
                operationLimit |-> MaxOps, failedHolds |-> 0, eligible |-> "Now"]

Init ==
  /\ family \in Families /\ owner \in Owners \ {"Retired"}
  /\ queue = [id \in Ids |-> None]
  /\ newest = [e \in Entities |-> 0] /\ served = newest
  /\ flight = [e \in Entities |-> "none"]
  /\ unsettled = {} /\ retained = NoQueue
  /\ schedule = NewSchedule /\ attempt = NoAttempt /\ faults = 0

Fault == faults < MaxFaults /\ faults' = faults + 1

(* has_charges; has_uncertain.                                                *)
Charges(stored, flights, doubts) ==
  stored # {} \/ doubts # {} \/ \E e \in Entities : flights[e] \in {"reserved", "unknown"}
Unknown == {e \in Entities : flight[e] = "unknown"}

-----------------------------------------------------------------------------
(* Writes. An entity has one in flight: of two, serializability aborts one.   *)

(* A new admission is later than every one observed.                          *)
Admit ==
  /\ retained' = [retained EXCEPT !.current = FALSE]
  /\ attempt' = [attempt EXCEPT !.current = FALSE, !.stored.current = FALSE]
  /\ schedule' = [schedule EXCEPT !.eligible = IF @ = "NewWork" THEN "Now" ELSE @]
NoAdmission == UNCHANGED <<retained, attempt, schedule>>
Flies(e, state) == flight' = [flight EXCEPT ![e] = state]
NextId == 1 + Max({newest[e] : e \in Entities})

Reserve(e) ==
  /\ flight[e] = "none" /\ owner # "Retired" /\ NextId \in Ids
  /\ Cardinality({x \in Entities : flight[x] # "none"}) < MaxFlights
  /\ Flies(e, "reserved") /\ Admit
  /\ UNCHANGED <<family, owner, queue, newest, served, unsettled, faults>>

Abort(e) ==
  /\ flight[e] = "reserved"
  /\ Flies(e, "none") /\ NoAdmission
  /\ UNCHANGED <<family, owner, queue, newest, served, unsettled, faults>>

(* The write commits; Retirement would have made it conflict.                 *)
Land(e) ==
  /\ flight[e] \in {"reserved", "unknown"} /\ owner # "Retired" /\ NextId \in Ids
  /\ \E kind \in Kinds : queue' = [queue EXCEPT ![NextId] = [entity |-> e, kind |-> kind]]
  /\ newest' = [newest EXCEPT ![e] = NextId]
  /\ IF flight[e] = "unknown"
       THEN Flies(e, "none") /\ unsettled' = unsettled \cup {NextId}
       ELSE Flies(e, "landed") /\ UNCHANGED unsettled
  /\ NoAdmission /\ UNCHANGED <<family, owner, served, faults>>

(* Variant: the return of a commit admits nothing.                            *)
ReturnUnadmitted(e) ==
  /\ flight[e] \in {"landed", "seen"}
  /\ Flies(e, "none") /\ NoAdmission
  /\ UNCHANGED <<family, owner, queue, newest, served, unsettled, faults>>

(* The commit returns: readmits, unless publication acknowledged first.       *)
Return(e) ==
  /\ flight[e] \in {"landed", "seen"}
  /\ Flies(e, "none") /\ IF flight[e] = "landed" THEN Admit ELSE NoAdmission
  /\ UNCHANGED <<family, owner, queue, newest, served, unsettled, faults>>

(* The commit returns no outcome, before or after its write landed.           *)
ReturnUncertain(e) ==
  /\ flight[e] \in {"reserved", "landed"} /\ Fault
  /\ Flies(e, IF flight[e] = "reserved" THEN "unknown" ELSE "none")
  /\ unsettled' = IF flight[e] = "landed" THEN unsettled \cup {newest[e]} ELSE unsettled
  /\ retained' = [retained EXCEPT !.current = FALSE]
  /\ attempt' = [attempt EXCEPT !.current = FALSE, !.stored.current = FALSE,
                   !.late = IF attempt.pc = "classified" THEN @ \cup {e} ELSE @]
  /\ schedule' = [schedule EXCEPT !.eligible = IF @ = "NewWork" THEN "Now" ELSE @]
  /\ UNCHANGED <<family, owner, queue, newest, served>>

(* A write of unknown outcome turns out not to have committed.                *)
Lose(e) ==
  /\ flight[e] = "unknown"
  /\ Flies(e, "none") /\ unsettled' = unsettled \cup {e}
  /\ NoAdmission /\ UNCHANGED <<family, owner, queue, newest, served, faults>>

-----------------------------------------------------------------------------
(* The index record: activation, and abort or DROP.                           *)

Activate ==
  /\ owner = "Building" /\ owner' = "Active"
  /\ UNCHANGED <<family, queue, newest, served, flight, unsettled, retained, schedule, attempt, faults>>

Retire ==
  /\ owner # "Retired" /\ owner' = "Retired" /\ "Retired" \in Owners
  /\ UNCHANGED <<family, queue, newest, served, flight, unsettled, retained, schedule, attempt, faults>>

-----------------------------------------------------------------------------
(* Selection. A batch gives each entity the operations whose newest state is  *)
(* published; none, if the entity is not selected.                            *)

(* The n members of S with the lowest keys, which are distinct.               *)
First(n, S, key) == {x \in S : Cardinality({y \in S : key[y] <= key[x]}) <= n}
Oldest(n, ids) == First(n, ids, [id \in ids |-> id])
Of(ids, e) == {id \in ids : queue[id].entity = e}
EntitiesOf(ids) == {queue[id].entity : id \in ids}

(* rotation: by oldest operation, starting after an entity and wrapping; and  *)
(* the order in which the operations of such a selection are taken.           *)
Rotation(ids, after) ==
  [e \in EntitiesOf(ids) |->
     IF after \in EntitiesOf(ids) /\ Min(Of(ids, e)) <= Min(Of(ids, after))
       THEN Min(Of(ids, e)) + MaxOps ELSE Min(Of(ids, e))]
InRotation(n, ids, rotation) ==
  First(n, ids, [id \in ids |-> rotation[queue[id].entity] * (MaxOps + 1) + id])

(* Variant: an entity drains no more at a time than one publication           *)
(* acknowledges.                                                              *)
RepairAcknowledged(hold, queued) ==
  IF hold.kind \in {"Repairing", "Draining"}
    THEN Oldest(IF hold.kind = "Repairing" THEN hold.width ELSE Capacity, queued)
  ELSE IF hold.due \/ Max(queued) # hold.through THEN queued ELSE {}

(* Variant: newer operations do not make a repair worth trying.               *)
RepairDue(hold, queued) ==
  IF hold.kind = "Repairing" THEN Oldest(hold.width, queued)
  ELSE IF hold.kind = "Draining" \/ hold.due THEN queued ELSE {}

(* repair_width, as the operations a repair takes.                            *)
Repair(hold, queued) ==
  IF hold.kind = "Repairing" THEN Oldest(hold.width, queued)
  ELSE IF hold.due \/ Max(queued) # hold.through THEN queued ELSE {}

IsHeld(e) == schedule.held[e].kind # "none"

(* The entities select_batch does not skip: those not held back, and those    *)
(* with a repair to try.                                                      *)
Visited(ids) ==
  {e \in EntitiesOf(ids) : IsHeld(e) => Repair(schedule.held[e], Of(ids, e)) # {}}

(* select_batch: the first entity's repair alone, or the prefixes of the      *)
(* entities before the next repair that the limits allow.                     *)
SelectBatch(ids, entities, input) ==
  LET rotation == Rotation(ids, schedule.cursor)
      visited == Visited(ids)
      regular == {e \in visited : \A x \in visited : rotation[x] <= rotation[e] => ~IsHeld(x)}
      chosen == UNION {Of(ids, e) : e \in First(entities, regular, rotation)}
      named == InRotation(Min({schedule.operationLimit, Capacity, input}), chosen, rotation)
  IN  [e \in Entities |->
         IF regular # {} THEN Of(named, e)
         ELSE IF e \in First(1, visited, rotation) THEN Repair(schedule.held[e], Of(ids, e))
         ELSE {}]

(* What a selected entity has acknowledged; the rest of what it takes is      *)
(* superseded. A regular batch takes no more than Capacity.                   *)
Acknowledges(taken) == Oldest(Capacity, taken)
Selected(batch) == {e \in Entities : batch[e] # {}}
Named(batch) == UNION {Acknowledges(batch[e]) : e \in Entities}

(* The first n entities of the attempt's batch, in its order.                 *)
Heads(n) == First(n, Selected(attempt.batch), Rotation(attempt.stored.ids, schedule.cursor))
Size == Cardinality(Selected(attempt.batch))

-----------------------------------------------------------------------------
(* What an attempt does to the schedule.                                      *)

(* What a repair that does not fit leaves: a narrower one, or a wait.         *)
ShrunkHold(hold, taken) ==
  LET through == IF hold.kind = "Draining" THEN Max(taken) ELSE hold.through
      tried == IF hold.kind = "Repairing" THEN hold.tried ELSE Max(taken)
      known == IF through \in taken THEN Cardinality({id \in taken : id <= through}) ELSE 0
      halved == known + (Cardinality(taken) - known) \div 2
  IN  IF halved > known THEN Hold("Repairing", through, tried, halved) ELSE Hold("Waiting", tried, 0, 0)

(* shrink; the hold decides whether the attempt was Trimmed or Blocked.       *)
Shrink(first, fitting) ==
  LET taken == attempt.batch[first]
      half == Cardinality(Named(attempt.batch)) \div 2
      hold == ShrunkHold(schedule.held[first], taken)
      wait(h) == [schedule EXCEPT !.held[first] = h, !.cursor = first]
  IN  IF Size = 1 /\ IsHeld(first)
        THEN IF hold.kind = "Repairing"
               THEN <<"Trimmed", [schedule EXCEPT !.held[first] = hold]>>
               ELSE <<"Blocked", wait(hold)>>
      ELSE IF fitting > 0 THEN <<"Trimmed", [schedule EXCEPT !.entityLimit = fitting]>>
      ELSE IF half > 0 THEN <<"Trimmed", [schedule EXCEPT !.operationLimit = half]>>
      ELSE <<"Blocked", wait(Hold("Waiting", Min(taken), 0, 0))>>

(* isolate; failedHolds saturates at 2, past what its reader tells apart.     *)
IsolateOne(e) ==
  LET old == schedule.held[e]
      through == IF old.kind = "Repairing" THEN old.tried ELSE Max(attempt.batch[e])
  IN  <<"Blocked", [schedule EXCEPT !.held[e] = Hold("Failed", through, 0, 0), !.cursor = e,
                      !.failedHolds = Min({@ + 1, 2})]>>
IsolateHalf == <<"Trimmed", [schedule EXCEPT !.entityLimit = Size \div 2]>>

AdvancePast(batch) ==
  LET place == Rotation(attempt.stored.ids, schedule.cursor)
      last == CHOOSE e \in Selected(batch) : \A x \in Selected(batch) : place[x] <= place[e]
      after(taken) == IF Acknowledges(taken) = taken THEN NoHold
                      ELSE Hold("Draining", Max(Acknowledges(taken)), 0, 0)
  IN  [schedule EXCEPT !.cursor = last,
         !.held = [e \in Entities |-> IF batch[e] = {} THEN @[e] ELSE after(batch[e])]]

Doubled(limit, most) == Min({2 * limit, most})

(* reschedule. A stalled target waits for an admission later than the one its *)
(* attempt began with, or for the earliest retry.                             *)
NextRun(outcome, s) ==
  CASE outcome \in {"Published", "Discarded", "Trimmed"} -> "Now"
    [] outcome = "Blocked" -> IF s.failedHolds > 1 THEN "After" ELSE "Now"
    [] outcome = "Stalled" -> IF attempt.current /\ \A e \in Entities : ~s.held[e].due
                              THEN "NewWork" ELSE "Now"
    [] OTHER -> "After"
Reschedule(outcome, s, charged) ==
  IF outcome \in {"Published", "Discarded", "Empty"} /\ ~charged THEN NewSchedule
  ELSE [s EXCEPT
          !.held = IF outcome = "Discarded" THEN NewSchedule.held ELSE @,
          !.failedHolds = IF outcome \in {"Published", "Discarded"} THEN 0 ELSE @,
          !.entityLimit = IF outcome = "Published" THEN Doubled(@, MaxEntities) ELSE @,
          !.operationLimit = IF outcome = "Published" THEN Doubled(@, MaxOps) ELSE @,
          !.eligible = NextRun(outcome, s)]

(* The attempt ends with what it retains; a full budget drops it.             *)
Ends(outcome, s, remaining) ==
  /\ attempt' = NoAttempt
  /\ retained' \in IF remaining.ids = {} THEN {NoQueue} ELSE {NoQueue, remaining}
  /\ \E advanced \in {s}, charged \in {Charges({id \in Ids : queue'[id] # None}, flight', unsettled')} :
       schedule' = Reschedule(outcome, advanced, charged)

-----------------------------------------------------------------------------
(* One attempt.                                                               *)

(* publish_once observes the latest admission, takes the retained queue,      *)
(* classifies the generation and issues a reconciliation ticket.              *)
Begin ==
  /\ attempt.pc = "idle" /\ schedule.eligible = "Now" /\ Charges(Stored, flight, unsettled)
  /\ attempt' = [NoAttempt EXCEPT !.pc = "classified", !.owner = owner, !.current = TRUE,
                   !.same = retained.current, !.stored = retained, !.awaits = Unknown]
  /\ retained' = NoQueue
  /\ UNCHANGED <<family, owner, queue, newest, served, flight, unsettled, schedule, faults>>

(* The filter on a retained queue; one with nothing to try is read again.     *)
Usable(stored) ==
  /\ stored.ids # {}
  /\ attempt.owner = "Active" =>
       /\ \/ attempt.same
          \/ \E e \in EntitiesOf(stored.ids) : schedule.held[e].kind \notin {"Waiting", "Failed"}
       /\ Visited(stored.ids) # {}

(* publish_vector and publish_text up to their transaction.                   *)
Choose(stored) ==
  IF Visited(stored.ids) = {} THEN Ends("Stalled", schedule, NoQueue)
  ELSE \E input \in InputLimits :
         \E batch \in {SelectBatch(stored.ids,
                          IF family = "text" THEN schedule.entityLimit ELSE MaxEntities, input)} :
           /\ attempt' = [attempt EXCEPT !.pc = "selected", !.stored = stored, !.batch = batch,
                            !.awaits = {}, !.late = {}]
           /\ UNCHANGED <<retained, schedule>>

(* The writes whose outcome the flush waits for have settled.                 *)
Flushed == attempt.pc = "classified" /\ \A e \in attempt.awaits : flight[e] # "unknown"

(* Reconciliation flushes, reads and settles the charges marked before its    *)
(* ticket; then the queue is taken or read and a batch selected from it.      *)
Settle ==
  LET fresh == [ids |-> Stored, current |-> attempt.current]
      stored == IF Usable(attempt.stored) THEN attempt.stored ELSE fresh
  IN  /\ Flushed
      /\ unsettled' = unsettled \cap attempt.late
      /\ UNCHANGED <<family, owner, queue, newest, served, flight, faults>>
      /\ \/ attempt.owner = "Building" /\ Ends("Deferred", schedule, NoQueue)
         \/ attempt.owner # "Building" /\ stored.ids = {} /\ Ends("Empty", schedule, NoQueue)
         \/ attempt.owner = "Active" /\ stored.ids # {} /\ Choose(stored)
         \/ /\ attempt.owner = "Retired" /\ stored.ids # {}
            /\ attempt' = [attempt EXCEPT !.pc = "discarding", !.stored = stored,
                             !.awaits = {}, !.late = {}]
            /\ UNCHANGED <<retained, schedule>>

(* A read, the flush or a begin fails.                                        *)
Fails ==
  /\ attempt.pc # "idle" /\ Fault
  /\ UNCHANGED <<family, owner, queue, newest, served, flight, unsettled>>
  /\ Ends("Retry", schedule, NoQueue)

KindOf(e) == queue[Max(attempt.batch[e])].kind
AllFit(entities) == \A e \in entities : KindOf(e) = "fit"
Unstored == UNCHANGED <<family, owner, queue, newest, served, flight, unsettled, faults>>
Narrowed(result) == Unstored /\ \E r \in {result} : Ends(r[1], r[2], attempt.stored)

(* The generation left Active: found before planning, or by the commit.       *)
LosesOwnership ==
  /\ attempt.pc = "selected" /\ owner # "Active" /\ Unstored
  /\ Ends("Retry", schedule, NoQueue) \/ Ends("Retry", schedule, attempt.stored)

(* The first entity does not fit; any epoch of several may cross its budget.  *)
DoesNotFit ==
  /\ attempt.pc = "selected"
  /\ \E e \in Heads(1) :
       \/ family = "vector" /\ KindOf(e) = "big" /\ Narrowed(Shrink(e, 0))
       \/ /\ family = "text" /\ (Size > 1 \/ KindOf(e) = "big")
          /\ Narrowed(Shrink(e, Size \div 2))

(* Collapsing, which precedes planning, and vector planning name the entity   *)
(* that fails; an epoch does not.                                             *)
CannotPlan ==
  /\ attempt.pc = "selected"
  /\ \E e \in Heads(Size) :
       /\ KindOf(e) = "bad"
       /\ \/ Narrowed(IsolateOne(e))
          \/ family = "text" /\ Narrowed(IF Size > 1 THEN IsolateHalf ELSE IsolateOne(e))

Conflicts ==
  /\ attempt.pc \in {"selected", "discarding"} /\ Fault
  /\ UNCHANGED <<family, owner, queue, newest, served, flight, unsettled>>
  /\ Ends("Retry", schedule, attempt.stored)

(* Acknowledged operations leave the queue, and their writes' returns find    *)
(* them known to publication.                                                 *)
Acknowledge(ids) ==
  /\ queue' = [id \in Ids |-> IF id \in ids THEN None ELSE queue[id]]
  /\ UNCHANGED <<family, owner, newest>>
See(ids) ==
  flight' = [e \in Entities |-> IF flight[e] = "landed" /\ newest[e] \in ids THEN "seen" ELSE flight[e]]
Serve(batch) ==
  served' = [e \in Entities |-> IF batch[e] = {} THEN served[e] ELSE Max(batch[e])]
Remaining(ids) == [attempt.stored EXCEPT !.ids = @ \ ids]

(* Variant: the whole selection is acknowledged although a prefix was staged. *)
AcknowledgedWhole(batch) == Named(attempt.batch)
Acknowledged(batch) == Named(batch)

(* Prefixes of the selection that may be staged: a vector batch ends where    *)
(* the budget does, an epoch is whole.                                        *)
Staged ==
  {[e \in Entities |-> IF e \in Heads(n) THEN attempt.batch[e] ELSE {}] :
     n \in {n \in 1..Size : AllFit(Heads(n)) /\ (family = "text" => n = Size)}}

Publish ==
  /\ attempt.pc = "selected" /\ owner = "Active"
  /\ \E batch \in Staged : \E ids \in {Acknowledged(batch)} :
       /\ Acknowledge(ids) /\ See(ids) /\ Serve(batch) /\ unsettled' = unsettled \ ids
       /\ Ends("Published", AdvancePast(batch), Remaining(ids))
  /\ UNCHANGED faults

(* Variant: the queue is retained although its commit may have landed.        *)
UncertainRemainderKept == attempt.stored
UncertainRemainder == NoQueue

(* A commit without an outcome: it landed or it did not.                      *)
PublishUncertain ==
  /\ attempt.pc = "selected" /\ owner = "Active" /\ Fault
  /\ \E batch \in Staged : \E ids \in {Acknowledged(batch)} :
       /\ \/ Acknowledge(ids) /\ Serve(batch)
          \/ UNCHANGED <<family, owner, newest, queue, served>>
       /\ See(ids) /\ unsettled' = unsettled \cup ids
       /\ Ends("Retry", AdvancePast(batch), UncertainRemainder)

(* discard: each entity's oldest operations, up to the limit.                 *)
Discardable == InRotation(DiscardLimit, attempt.stored.ids, Rotation(attempt.stored.ids, None))

Discard ==
  /\ attempt.pc = "discarding"
  /\ \E ids \in {Discardable} :
       /\ Acknowledge(ids) /\ See(ids) /\ unsettled' = unsettled \ ids
       /\ Ends("Discarded", schedule, Remaining(ids))
  /\ UNCHANGED <<served, faults>>

DiscardUncertain ==
  /\ attempt.pc = "discarding" /\ Fault
  /\ \E ids \in {Discardable} :
       /\ Acknowledge(ids) \/ UNCHANGED <<family, owner, newest, queue>>
       /\ See(ids) /\ unsettled' = unsettled \cup ids
       /\ Ends("Retry", schedule, UncertainRemainder)
  /\ UNCHANGED served

-----------------------------------------------------------------------------
(* Time and the process.                                                      *)

Elapse ==
  /\ schedule.eligible \in {"After", "NewWork"}
  /\ schedule' = [schedule EXCEPT !.eligible = "Now"]
  /\ UNCHANGED <<family, owner, queue, newest, served, flight, unsettled, retained, attempt, faults>>

RetryDue(e) ==
  /\ schedule.held[e].kind = "Failed" /\ ~schedule.held[e].due
  /\ schedule' = [schedule EXCEPT !.held[e].due = TRUE,
                    !.eligible = IF @ = "NewWork" THEN "Now" ELSE @]
  /\ UNCHANGED <<family, owner, queue, newest, served, flight, unsettled, retained, attempt, faults>>

(* The process stops and opens again: only the queue and the index remain.    *)
Restart ==
  /\ Crashes /\ Fault
  /\ flight' = [e \in Entities |-> "none"] /\ unsettled' = {}
  /\ retained' = NoQueue /\ schedule' = NewSchedule /\ attempt' = NoAttempt
  /\ UNCHANGED <<family, owner, queue, newest, served>>

Next ==
  \/ \E e \in Entities : \/ Reserve(e) \/ Abort(e) \/ Land(e) \/ Return(e) \/ ReturnUncertain(e)
                         \/ Lose(e) \/ RetryDue(e)
  \/ Activate \/ Retire \/ Elapse \/ Restart
  \/ Begin \/ Settle \/ Fails \/ LosesOwnership \/ DoesNotFit \/ CannotPlan \/ Conflicts
  \/ Publish \/ PublishUncertain \/ Discard \/ DiscardUncertain

(* The publisher runs eligible attempts and ends them, time passes, a commit  *)
(* returns, and a flush settles what it awaits; writers and faults need not   *)
(* act, nor does a failed entity's retry have to fall due.  Settle is enabled *)
(* exactly while Flushed holds.                                               *)
Attempts == Begin \/ LosesOwnership \/ DoesNotFit \/ CannotPlan \/ Publish \/ Discard
Fairness ==
  /\ WF_vars(Attempts) /\ WF_vars(Elapse)
  /\ []<>~Flushed \/ []<><<Settle>>_vars
  /\ \A e \in Entities : WF_vars(Return(e)) /\ WF_vars(flight[e] = "unknown" /\ (Land(e) \/ Lose(e)))

Spec == Init /\ [][Next]_vars
FairSpec == Spec /\ Fairness

-----------------------------------------------------------------------------
(* The newest operation of an entity is queued, or its state is served: no    *)
(* acknowledgement, retained queue or uncertain commit drops a write          *)
(* (publication.rs:1239 "Exactly the staged prefix is acknowledged").         *)
NewestIsQueuedOrServed ==
  owner # "Retired" => \A e \in Entities : newest[e] \in Stored \cup {served[e]}

(* RetainedQueues' contract (storage.rs:368-372): every operation a retained  *)
(* queue, or the queue an attempt works on, holds is still outstanding.       *)
RetainedIsOutstanding == retained.ids \cup attempt.stored.ids \subseteq Stored

(* A generation waits for new work only if every entity with an operation     *)
(* whose write returned is held back with nothing to try, whatever was        *)
(* admitted, landed or returned while the attempt that stalled ran.           *)
StalledHasNothingToTry ==
  schedule.eligible = "NewWork" =>
    \A e \in Entities :
      LET ids == {id \in Stored : queue[id].entity = e /\ (flight[e] = "landed" => id # newest[e])}
          hold == schedule.held[e]
      IN  ids # {} => hold.kind \in {"Waiting", "Failed"} /\ ~hold.due /\ Max(ids) <= hold.through

(* No publication moves what an entity serves to an older operation while it  *)
(* drains, waits or has failed, whatever fails, and none at all before the    *)
(* first fault: a repair takes all that is queued, or extends past what is    *)
(* known not to publish (HeldEntity, :212-218).                               *)
ServedStepsForward ==
  [][\A e \in Entities :
       faults = 0 \/ schedule.held[e].kind \in {"Draining", "Waiting", "Failed"}
         => served'[e] >= served[e]]_vars

(* Within one process no publication serves an older operation than before:   *)
(* only a restart may step back (HeldEntity, :212-226).                       *)
ServedNeverStepsBack == [][\A e \in Entities : served'[e] >= served[e]]_vars

(* The newest state of an entity of an Active generation, once stored and     *)
(* publishable, is published, whatever its older operations, the other        *)
(* entities and their retries do, unless an unpublishable one or retirement   *)
(* overtakes it (select_batch's rotation, isolate, shrink and their retries). *)
PublishableIsPublished ==
  \A e \in Entities :
    LET waits == owner = "Active" /\ newest[e] \in Stored /\ queue[newest[e]].kind = "fit"
    IN  waits ~> ~waits
=============================================================================
