--------------------------- MODULE OperationBacklog ---------------------------
(* The admission ledger of queued index operations                            *)
(* (index_lifecycle/queue/backlog.rs), with the graph transactions that       *)
(* reserve in it, the publication attempts that acknowledge and reconcile,    *)
(* and the recovery that rebuilds it. One generation of one logical index;    *)
(* the ledger does not depend on the order of the stored queue, which is a    *)
(* set of operation IDs here. Every operation is charged one unit.            *)
EXTENDS Naturals, FiniteSets, FiniteSetsExt, Functions

CONSTANTS Entities, Ids, Producers, None,
          MaxBytes,     \* max_retained_bytes, in operations
          MaxMembers,   \* max_members
          MaxClock      \* bound: reconciliations per process

ASSUME BacklogAssumption == {MaxBytes, MaxMembers, MaxClock} \subseteq Nat \ {0}
ASSUME FiniteAssumption == IsFiniteSet(Ids) /\ IsFiniteSet(Entities)

ChargeState == {"Reserved", "Durable", "Enqueue", "Acknowledgement"}

ASSUME NoneAssumption == None \notin Entities \cup ChargeState

VARIABLES
  owner,     \* state of the canonical record that names the generation
  blocker,   \* entity a blocked build names, or None
  live,      \* Entities -> BOOLEAN: the graph holds an indexed value
  queue,     \* stored operations, visible to every reader
  entity,    \* Ids -> the entity the operation with this ID is about, or None
  tx,        \* Producers -> the graph transaction in flight
  charge,    \* Ids -> charge state in the ledger, or None
  marked,    \* Ids -> reconcile_clock when the outcome became unknown
  clock,     \* reconcile_clock
  outcomes,  \* LedgerOutcomes
  attempt,   \* the publication attempt that holds the target
  life,      \* history: operations found or made durable in this process
  blamed     \* history: entities some blocker named

ledger == <<charge, marked, clock, outcomes>>
vars == <<owner, blocker, live, queue, entity, tx, charge, marked, clock, outcomes,
          attempt, life, blamed>>

Uncertain == {id \in Ids : charge[id] \in {"Enqueue", "Acknowledgement"}}
Charged == {id \in Ids : charge[id] # None}
MembersOf(ids) == {entity[id] : id \in ids}

NoTx == [phase |-> "idle", ids |-> {}, removes |-> {}, stale |-> FALSE, sawBlocker |-> FALSE]
NoAttempt == [pc |-> "idle", owner |-> None, ticket |-> 0, awaited |-> {}, ids |-> {}]

Init ==
  /\ owner \in {"Building", "Active"}
  /\ blocker = None
  /\ live \in [Entities -> BOOLEAN]
  /\ queue = {} /\ life = {} /\ blamed = {}
  /\ entity = [id \in Ids |-> None]
  /\ tx = [p \in Producers |-> NoTx]
  /\ charge = [id \in Ids |-> None]
  /\ marked = [id \in Ids |-> 0]
  /\ clock = 0
  /\ outcomes = [committed |-> 0, discovered |-> 0, acknowledged |-> 0]
  /\ attempt = NoAttempt

-----------------------------------------------------------------------------
(* Ledger operations. *)

Count(field, n) == [outcomes EXCEPT ![field] = @ + n]
SetCharges(ids, state) == [id \in Ids |-> IF id \in ids THEN state ELSE charge[id]]
ResetMarks(ids, at) == [id \in Ids |-> IF id \in ids THEN at ELSE marked[id]]

(* reserve refuses a batch no admission could ever take, and growth beyond a  *)
(* limit, unless the only operation repairs the entity a blocked build names. *)
Fits(es) ==
  LET new == es \ MembersOf(Charged)
  IN  /\ Cardinality(Charged) + Cardinality(es) <= MaxBytes
      /\ new = {} \/ Cardinality(MembersOf(Charged)) + Cardinality(new) <= MaxMembers

(* Variant: any write of the entity a blocker names is a repair.              *)
IsAnyBlockerWrite(es, removes) ==
  /\ owner = "Building"
  /\ es = {blocker}

IsBlockerRepair(es, removes) ==
  /\ owner = "Building"
  /\ es = {blocker}
  /\ blocker \in removes \/ blocker \notin MembersOf(Charged)

Admits(es, removes) ==
  /\ Cardinality(es) <= MaxBytes
  /\ Cardinality(es) <= MaxMembers
  /\ Fits(es) \/ IsBlockerRepair(es, removes)

ResolveCommitted(ids) ==
  /\ charge' = SetCharges({id \in ids : charge[id] = "Reserved"}, "Durable")
  /\ outcomes' = Count("committed", Cardinality(ids))
  /\ UNCHANGED <<marked, clock>>

ResolveAborted(ids) ==
  /\ charge' = SetCharges(ids, None)
  /\ UNCHANGED <<marked, clock, outcomes>>

(* Variant: a commit without an outcome counts nothing.                       *)
ResolveUncertainUncounted(ids) ==
  LET open == {id \in ids : charge[id] = "Reserved"}
  IN  /\ charge' = SetCharges(open, "Enqueue")
      /\ marked' = ResetMarks(open, clock)
      /\ UNCHANGED <<clock, outcomes>>

(* An operation that publication has already acknowledged, or tried to, is    *)
(* known to be durable.                                                       *)
ResolveUncertain(ids) ==
  LET open == {id \in ids : charge[id] = "Reserved"}
  IN  /\ charge' = SetCharges(open, "Enqueue")
      /\ marked' = ResetMarks(open, clock)
      /\ outcomes' = Count("discovered", Cardinality(ids \ open))
      /\ UNCHANGED clock

Acknowledge(ids) ==
  LET released == ids \cap Charged
      proven == {id \in released : charge[id] = "Enqueue"}
  IN  /\ charge' = SetCharges(released, None)
      /\ marked' = ResetMarks(released, 0)
      /\ outcomes' = [outcomes EXCEPT !.acknowledged = @ + Cardinality(released),
                                      !.discovered = @ + Cardinality(proven)]
      /\ UNCHANGED clock

MarkAcknowledgementUncertain(ids) ==
  LET retained == ids \cap Charged
      proven == {id \in retained : charge[id] = "Enqueue"}
  IN  /\ charge' = SetCharges(retained, "Acknowledgement")
      /\ marked' = ResetMarks(retained, clock)
      /\ outcomes' = Count("discovered", Cardinality(proven))
      /\ UNCHANGED clock

(* Variant: a charge marked after the ticket was drawn settles with it.       *)
MarkedUpTo(id, ticket) == marked[id] <= ticket

MarkedBefore(id, ticket) == marked[id] < ticket

(* Presence proves an enqueue whenever it was marked; everything else settles *)
(* only if it was marked before the ticket.                                   *)
FinishReconciliation(ticket, present) ==
  LET unknown == present \ Charged
      proven == {id \in present : charge[id] = "Enqueue"}
      settled == {id \in Uncertain : MarkedBefore(id, ticket)} \ proven
      again == settled \cap present
      released == settled \ present
      acked == {id \in released : charge[id] = "Acknowledgement"}
  IN  /\ charge' = [id \in Ids |->
                      IF id \in unknown \cup proven \cup again THEN "Durable"
                      ELSE IF id \in released THEN None ELSE charge[id]]
      /\ marked' = ResetMarks(proven \cup settled, 0)
      /\ outcomes' = [outcomes EXCEPT
                        !.discovered = @ + Cardinality(unknown \cup proven),
                        !.acknowledged = @ + Cardinality(acked)]
      /\ UNCHANGED clock

-----------------------------------------------------------------------------
(* Graph transactions. SlateDB commits serializably: a commit makes every     *)
(* open transaction that read what it wrote stale, and stale ones never land. *)

Overlaps(p, q) == MembersOf(tx[p].ids) \cap MembersOf(tx[q].ids) # {}

Stale(who) == [p \in Producers |-> IF p \in who /\ tx[p].phase \in {"open", "unknown"}
                                   THEN [tx[p] EXCEPT !.stale = TRUE] ELSE tx[p]]

(* finalize builds one operation per changed entity; an entity outside the    *)
(* index has nothing to remove. A saturated build's operation row is read     *)
(* through the transaction.                                                   *)
Reserve(p) ==
  /\ tx[p].phase = "idle"
  /\ owner # "Retired"
  /\ \E es \in (SUBSET Entities) \ {{}} : \E removes \in SUBSET {e \in es : live[e]} :
       /\ Admits(es, removes)
       /\ \E ids \in kSubset(Cardinality(es), {id \in Ids : entity[id] = None}) :
            \E assign \in Bijection(ids, es) :
              /\ entity' = [id \in Ids |-> IF id \in ids THEN assign[id] ELSE entity[id]]
              /\ charge' = SetCharges(ids, "Reserved")
              /\ tx' = [tx EXCEPT ![p] = [phase |-> "open", ids |-> ids, removes |-> removes,
                                          stale |-> FALSE, sawBlocker |-> ~Fits(es)]]
  /\ UNCHANGED <<owner, blocker, live, queue, marked, clock, outcomes, attempt, life, blamed>>

(* The request is dropped before its commit, or the commit meets a conflict.  *)
(* Its IDs reached nobody, so the model may draw them again.                  *)
Abort(p) ==
  /\ tx[p].phase = "open"
  /\ ResolveAborted(tx[p].ids)
  /\ tx' = [tx EXCEPT ![p] = NoTx]
  /\ entity' = [id \in Ids |-> IF id \in tx[p].ids THEN None ELSE entity[id]]
  /\ UNCHANGED <<owner, blocker, live, queue, attempt, life, blamed>>

(* The commit is applied: the enqueue and the graph change become visible.    *)
Land(p) ==
  /\ tx[p].phase \in {"open", "unknown"}
  /\ ~tx[p].stale
  /\ queue' = queue \cup tx[p].ids
  /\ life' = life \cup tx[p].ids
  /\ live' = [e \in Entities |->
                IF e \in MembersOf(tx[p].ids)
                THEN e \notin tx[p].removes
                ELSE live[e]]
  /\ tx' = [Stale({q \in Producers \ {p} : Overlaps(p, q)}) EXCEPT
              ![p] = IF @.phase = "open" THEN [@ EXCEPT !.phase = "landed"] ELSE NoTx]
  /\ UNCHANGED <<owner, blocker, entity, ledger, attempt, blamed>>

ReturnCommitted(p) ==
  /\ tx[p].phase = "landed"
  /\ ResolveCommitted(tx[p].ids)
  /\ tx' = [tx EXCEPT ![p] = NoTx]
  /\ UNCHANGED <<owner, blocker, live, queue, entity, attempt, life, blamed>>

(* The commit returns an error that proves nothing, or its task is dropped.   *)
(* A write still in flight may land until the next flush.                     *)
ReturnUncertain(p) ==
  /\ tx[p].phase \in {"open", "landed"}
  /\ ResolveUncertain(tx[p].ids)
  /\ tx' = [tx EXCEPT ![p] = IF @.phase = "landed" THEN NoTx ELSE [@ EXCEPT !.phase = "unknown"]]
  /\ UNCHANGED <<owner, blocker, live, queue, entity, attempt, life, blamed>>

Lose(p) ==
  /\ tx[p].phase = "unknown"
  /\ tx' = [tx EXCEPT ![p] = NoTx]
  /\ UNCHANGED <<owner, blocker, live, queue, entity, ledger, attempt, life, blamed>>

-----------------------------------------------------------------------------
(* Publication attempts: one at a time holds the target.                      *)

Storage == <<owner, blocker, live, entity, tx, blamed>>

BeginReconciliation ==
  /\ clock < MaxClock
  /\ clock' = clock + 1
  /\ attempt' = [attempt EXCEPT !.pc = "ticketed", !.owner = owner, !.ticket = clock + 1]

Begin ==
  /\ attempt.pc = "idle"
  /\ Charged # {}
  /\ IF Uncertain # {}
     THEN BeginReconciliation
     ELSE UNCHANGED clock /\ attempt' = [attempt EXCEPT !.pc = "classified", !.owner = owner]
  /\ UNCHANGED <<Storage, queue, charge, marked, outcomes, life>>

(* db.flush() waits for every write in flight when it was called.             *)
StartFlush ==
  /\ attempt.pc = "ticketed"
  /\ attempt' = [attempt EXCEPT !.pc = "flushing",
                                !.awaited = {p \in Producers : tx[p].phase = "unknown"}]
  /\ UNCHANGED <<Storage, queue, ledger, life>>

EndFlush ==
  /\ attempt.pc = "flushing"
  /\ \/ /\ \A p \in attempt.awaited : tx[p].phase # "unknown"
        /\ attempt' = [attempt EXCEPT !.pc = "flushed", !.awaited = {}]
     \/ attempt' = NoAttempt
  /\ UNCHANGED <<Storage, queue, ledger, life>>

ReadFlushed ==
  /\ attempt.pc = "flushed"
  /\ attempt' = [attempt EXCEPT !.pc = "read", !.ids = queue]
  /\ UNCHANGED <<Storage, queue, ledger, life>>

Reconcile ==
  /\ attempt.pc = "read"
  /\ FinishReconciliation(attempt.ticket, attempt.ids)
  /\ attempt' = [attempt EXCEPT !.pc = "classified", !.ids = {}, !.ticket = 0]
  /\ UNCHANGED <<Storage, queue, life>>

(* A hidden build defers; otherwise the queue is read and a batch selected.   *)
Select ==
  /\ attempt.pc = "classified"
  /\ \/ /\ attempt.owner = "Building" \/ queue = {}
        /\ attempt' = NoAttempt
     \/ /\ attempt.owner # "Building"
        /\ \E batch \in (SUBSET queue) \ {{}} :
             attempt' = [attempt EXCEPT !.pc = "staged", !.ids = batch]
  /\ UNCHANGED <<Storage, queue, ledger, life>>

(* The acknowledgement commits, conflicts, or returns no outcome. One that    *)
(* publishes conflicts when the generation was retired meanwhile.             *)
CommitAcknowledgement ==
  /\ attempt.pc = "staged"
  /\ \/ /\ attempt.owner = owner
        /\ queue' = queue \ attempt.ids
        /\ attempt' = [attempt EXCEPT !.pc = "acknowledged"]
        /\ UNCHANGED ledger
     \/ UNCHANGED <<queue, ledger>> /\ attempt' = NoAttempt
     \/ /\ queue' \in {queue} \cup (IF attempt.owner = owner THEN {queue \ attempt.ids} ELSE {})
        /\ MarkAcknowledgementUncertain(attempt.ids)
        /\ attempt' = NoAttempt
  /\ UNCHANGED <<Storage, life>>

ReleaseAcknowledged ==
  /\ attempt.pc = "acknowledged"
  /\ Acknowledge(attempt.ids)
  /\ attempt' = NoAttempt
  /\ UNCHANGED <<Storage, queue, life>>

-----------------------------------------------------------------------------
(* The lifecycle of the generation, and the process.                          *)

(* A blocked step, RETRY and activation rewrite the operation row.            *)
RewriteOperation(state, named) ==
  /\ owner = "Building"
  /\ owner' = state
  /\ blocker' = named
  /\ blamed' = blamed \cup ({named} \ {None})
  /\ tx' = Stale({p \in Producers : tx[p].sawBlocker})
  /\ UNCHANGED <<live, queue, entity, ledger, attempt, life>>

Block(e) == blocker = None /\ RewriteOperation("Building", e)
Retry == blocker # None /\ RewriteOperation("Building", None)
Activate == blocker = None /\ RewriteOperation("Active", None)

Retire ==
  /\ owner # "Retired"
  /\ owner' = "Retired"
  /\ blocker' = None
  /\ tx' = Stale(Producers)
  /\ UNCHANGED <<live, queue, entity, ledger, attempt, life, blamed>>

(* load_backlog charges every stored queue before writes are accepted.  A     *)
(* crash that loses commits not yet uploaded loses what followed them too: it *)
(* is this step, taken before them.                                           *)
Restart ==
  /\ tx' = [p \in Producers |-> NoTx]
  /\ charge' = [id \in Ids |-> IF id \in queue THEN "Durable" ELSE None]
  /\ marked' = [id \in Ids |-> 0]
  /\ clock' = 0
  /\ outcomes' = [committed |-> 0, discovered |-> Cardinality(queue), acknowledged |-> 0]
  /\ attempt' = NoAttempt
  /\ life' = queue
  /\ entity' = [id \in Ids |-> IF id \in queue THEN entity[id] ELSE None]
  /\ UNCHANGED <<owner, blocker, live, queue, blamed>>

Producing(p) == \/ Reserve(p) \/ Abort(p) \/ Land(p) \/ ReturnCommitted(p)
                \/ ReturnUncertain(p) \/ Lose(p)

Publishing == \/ Begin \/ StartFlush \/ EndFlush \/ ReadFlushed \/ Reconcile
              \/ Select \/ CommitAcknowledgement \/ ReleaseAcknowledged

Next ==
  \/ \E p \in Producers : Producing(p)
  \/ Publishing
  \/ \E e \in Entities : Block(e)
  \/ Retry \/ Activate \/ Retire \/ Restart

Spec == Init /\ [][Next]_vars

-----------------------------------------------------------------------------
(* Properties. *)

(* Every stored operation is charged: a write that lands late, an uncertain   *)
(* commit or acknowledgement and a reconciliation that races them never free  *)
(* capacity that storage still uses. Conversely a charge is durable only      *)
(* while its operation is stored or its acknowledgement is being released.    *)
StoredWorkIsCharged ==
  /\ queue \subseteq Charged
  /\ \A id \in Charged :
       charge[id] = "Durable" => id \in queue \/ (id \in attempt.ids /\ attempt.pc = "acknowledged")

InFlight == UNION {tx[p].ids : p \in {q \in Producers : tx[q].phase \in {"open", "landed"}}}

(* Every durable operation is counted once, as committed or as discovered,    *)
(* unless its producer or a reconciliation has yet to learn of it, and every  *)
(* durable acknowledgement once, whichever path proves it.                    *)
OutcomesAreExact ==
  /\ outcomes.committed + outcomes.discovered =
       Cardinality({id \in life : id \notin InFlight /\ charge[id] # "Enqueue"})
  /\ outcomes.acknowledged = Cardinality((life \ queue) \ Charged)

(* What is stored exceeds the limits only by blocker repairs: each entity a   *)
(* build has blocked on adds at most one member and one operation beyond      *)
(* them, and one more once it is removed from the index.                      *)
LimitsHold ==
  /\ Cardinality(queue) <= MaxBytes + Cardinality(blamed) + Cardinality({e \in blamed : ~live[e]})
  /\ Cardinality(MembersOf(queue)) <= MaxMembers + Cardinality(blamed)
=============================================================================
