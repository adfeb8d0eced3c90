------------------------ MODULE OperationBacklogProofs ------------------------
(* Proofs about OperationBacklog, for every set of entities, operation IDs    *)
(* and producers and every limit: stored work stays charged.                  *)
(* OperationBacklogCounts builds on ChargeInv.                                *)
EXTENDS OperationBacklog, FiniteSetTheorems, TLAPS

-----------------------------------------------------------------------------
(* The inductive invariant. *)

Flag == BOOLEAN
OwnerState == {"Building", "Active", "Retired"}
TxRecord == [phase : {"idle", "open", "landed", "unknown"}, ids : SUBSET Ids,
             removes : SUBSET Entities, stale : Flag, sawBlocker : Flag]
PcState ==
  {"idle", "ticketed", "flushing", "flushed", "read", "classified", "staged", "acknowledged"}
AttemptRecord ==
  [pc : PcState, owner : OwnerState \cup {None}, ticket : Nat, awaited : SUBSET Producers, ids : SUBSET Ids]

StorageType ==
  /\ owner \in OwnerState
  /\ blocker \in Entities \cup {None}
  /\ live \in [Entities -> Flag]
  /\ queue \in SUBSET Ids
  /\ life \in SUBSET Ids
  /\ blamed \in SUBSET Entities
  /\ entity \in [Ids -> Entities \cup {None}]

TxType == tx \in [Producers -> TxRecord]

LedgerType ==
  /\ charge \in [Ids -> ChargeState \cup {None}]
  /\ marked \in [Ids -> Nat]
  /\ clock \in Nat
  /\ outcomes \in [committed : Nat, discovered : Nat, acknowledged : Nat]

AttemptType == attempt \in AttemptRecord

(* Type correctness of the whole state.                                       *)
TypeOK == StorageType /\ TxType /\ LedgerType /\ AttemptType

(* An ID without an entity has not been drawn: nothing knows it.              *)
Fresh ==
  \A id \in Ids : entity[id] = None =>
    charge[id] = None /\ id \notin life /\ \A p \in Producers : id \notin tx[p].ids

(* What a transaction in flight knows of its operations, by phase.            *)
Held ==
  /\ \A p, q \in Producers : p # q => tx[p].ids \cap tx[q].ids = {}
  /\ \A p \in Producers : \A id \in tx[p].ids :
       /\ tx[p].phase # "idle"
       /\ tx[p].phase = "open" => charge[id] = "Reserved" /\ id \notin life
       /\ tx[p].phase = "unknown" => charge[id] = "Enqueue" /\ id \notin life
       /\ tx[p].phase = "landed" => charge[id] # "Enqueue" /\ id \in life

Released(id) == id \in attempt.ids /\ attempt.pc = "acknowledged"

(* Stored work is charged. Of the work that became durable, only a charge     *)
(* with an uncertain acknowledgement may outlive its stored operation.        *)
Backed ==
  /\ queue \subseteq life /\ attempt.ids \subseteq life
  /\ \A id \in queue : charge[id] # None
  /\ \A id \in Ids : charge[id] \in {"Durable", "Acknowledgement"} => id \in life
  /\ \A id \in life : charge[id] \in {"Reserved", "Durable", "Enqueue"} => id \in queue \/ Released(id)

(* What the attempt's operations are to the stored queue.                     *)
Target ==
  /\ attempt.pc \in {"read", "staged"} => attempt.ids \subseteq queue
  /\ attempt.pc = "acknowledged" => attempt.ids \cap queue = {}

(* A reconciliation that has flushed knows every write marked before its      *)
(* ticket: what may still land, or landed after the read, is marked later.    *)
Ticketed ==
  /\ attempt.pc \in {"ticketed", "flushing", "flushed", "read"} => attempt.ticket = clock
  /\ \A p \in Producers :
       tx[p].phase = "unknown"
       /\ (attempt.pc \in {"flushed", "read"} \/ (attempt.pc = "flushing" /\ p \notin attempt.awaited))
       => \A id \in tx[p].ids : marked[id] >= attempt.ticket
  /\ attempt.pc = "read" =>
       \A id \in queue \ attempt.ids : charge[id] \in {"Enqueue", "Acknowledgement"} => marked[id] >= attempt.ticket

ChargeInv == Fresh /\ Held /\ Backed /\ Target /\ Ticketed

-----------------------------------------------------------------------------
(* Types. *)

LEMMA FlagType == TRUE \in Flag /\ FALSE \in Flag
  BY Zenon DEF Flag

LEMMA NoTxType == NoTx \in TxRecord
  BY FlagType, Zenon DEF NoTx, TxRecord

LEMMA NoAttemptType == NoAttempt \in AttemptRecord
  BY Zenon DEF NoAttempt, AttemptRecord, PcState

(* A transaction's record changes at one producer only.                       *)
LEMMA TxAt ==
  ASSUME TxType, NEW p \in Producers, NEW r \in TxRecord, tx' = [tx EXCEPT ![p] = r]
  PROVE  /\ TxType'
         /\ \A q \in Producers : tx'[q] = IF q = p THEN r ELSE tx[q]
  BY Zenon DEF TxType

LEMMA PhaseType ==
  ASSUME NEW r \in TxRecord, NEW ph \in {"idle", "open", "landed", "unknown"},
         NEW s, s = [r EXCEPT !.phase = ph]
  PROVE  /\ s \in TxRecord
         /\ s.phase = ph /\ s.ids = r.ids /\ s.removes = r.removes
         /\ s.stale = r.stale /\ s.sawBlocker = r.sawBlocker
  BY Zenon DEF TxRecord

LEMMA StaleType ==
  ASSUME NEW r \in TxRecord, NEW s, s = [r EXCEPT !.stale = TRUE]
  PROVE  /\ s \in TxRecord
         /\ s.phase = r.phase /\ s.ids = r.ids /\ s.removes = r.removes
         /\ s.sawBlocker = r.sawBlocker
  BY FlagType, Zenon DEF TxRecord

LEMMA StaleTruth ==
  ASSUME NEW r \in TxRecord, NEW s, s = [r EXCEPT !.stale = TRUE]
  PROVE  s.stale
  BY Zenon DEF TxRecord

(* Staling changes nothing but the flag, and sets it only.                    *)
LEMMA StaleFacts ==
  ASSUME TxType, NEW who, NEW f, f = Stale(who)
  PROVE  /\ f \in [Producers -> TxRecord]
         /\ \A p \in Producers :
              /\ f[p].phase = tx[p].phase /\ f[p].ids = tx[p].ids
              /\ f[p].removes = tx[p].removes /\ f[p].sawBlocker = tx[p].sawBlocker
              /\ p \in who /\ tx[p].phase \in {"open", "unknown"} => f[p].stale
              /\ ~f[p].stale => ~tx[p].stale
<1>1. \A p \in Producers : tx[p] \in TxRecord
  BY Zenon DEF TxType
<1>2. ASSUME NEW p \in Producers
      PROVE  /\ f[p] \in TxRecord
             /\ f[p].phase = tx[p].phase /\ f[p].ids = tx[p].ids
             /\ f[p].removes = tx[p].removes /\ f[p].sawBlocker = tx[p].sawBlocker
             /\ p \in who /\ tx[p].phase \in {"open", "unknown"} => f[p].stale
             /\ ~f[p].stale => ~tx[p].stale
  <2>1. CASE p \in who /\ tx[p].phase \in {"open", "unknown"}
    <3>1. f[p] = [tx[p] EXCEPT !.stale = TRUE]
      BY <2>1, Zenon DEF Stale
    <3>2. f[p].stale
      BY <1>1, <3>1, StaleTruth, Zenon
    <3>3. QED
      BY <1>1, <3>1, <3>2, StaleType
  <2>2. CASE ~(p \in who /\ tx[p].phase \in {"open", "unknown"})
    <3>1. f[p] = tx[p]
      BY <2>2, Zenon DEF Stale
    <3>2. QED
      BY <1>1, <2>2, <3>1, Zenon
  <2>3. QED
    BY <2>1, <2>2, Zenon
<1>3. f \in [Producers -> TxRecord]
  BY <1>2, Zenon DEF Stale
<1>4. QED
  BY <1>2, <1>3, Zenon

(* What the ledger operations do to their variables, with their types.        *)
LEMMA CardNat ==
  ASSUME NEW S \in SUBSET Ids
  PROVE  IsFiniteSet(S) /\ Cardinality(S) \in Nat
  BY FiniteAssumption, FS_Subset, FS_CardinalityType, Zenon

LEMMA CardJoin ==
  ASSUME NEW A \in SUBSET Ids, NEW B \in SUBSET Ids, A \cap B = {}
  PROVE  Cardinality(A \cup B) = Cardinality(A) + Cardinality(B)
<1>1. IsFiniteSet(A) /\ IsFiniteSet(B) /\ Cardinality(A) \in Nat /\ Cardinality(B) \in Nat
  BY CardNat, Zenon
<1>2. Cardinality(A \cup B) = Cardinality(A) + Cardinality(B) - Cardinality(A \cap B)
  BY <1>1, FS_Union, Zenon
<1>3. Cardinality(A \cap B) = 0
  BY FS_EmptySet, Zenon
<1>4. QED
  BY <1>1, <1>2, <1>3

LEMMA CountFacts ==
  ASSUME LedgerType, NEW n \in Nat, NEW field \in {"committed", "discovered", "acknowledged"},
         outcomes' = Count(field, n)
  PROVE  /\ outcomes' \in [committed : Nat, discovered : Nat, acknowledged : Nat]
         /\ outcomes'.committed = outcomes.committed + (IF field = "committed" THEN n ELSE 0)
         /\ outcomes'.discovered = outcomes.discovered + (IF field = "discovered" THEN n ELSE 0)
         /\ outcomes'.acknowledged = outcomes.acknowledged + (IF field = "acknowledged" THEN n ELSE 0)
  BY DEF LedgerType, Count

LEMMA SetFacts ==
  ASSUME LedgerType, NEW ids, NEW state \in ChargeState \cup {None}, NEW n \in Nat
  PROVE  /\ SetCharges(ids, state) \in [Ids -> ChargeState \cup {None}]
         /\ ResetMarks(ids, n) \in [Ids -> Nat]
  BY Zenon DEF LedgerType, SetCharges, ResetMarks

LEMMA CommittedType ==
  ASSUME LedgerType, NEW ids \in SUBSET Ids, ResolveCommitted(ids)
  PROVE  LedgerType'
<1>1. charge' \in [Ids -> ChargeState \cup {None}]
  BY SetFacts, Zenon DEF ResolveCommitted, ChargeState
<1>2. outcomes' \in [committed : Nat, discovered : Nat, acknowledged : Nat]
  BY CardNat, CountFacts, Zenon DEF ResolveCommitted
<1>3. QED
  BY <1>1, <1>2, Zenon DEF ResolveCommitted, LedgerType

LEMMA UncertainType ==
  ASSUME LedgerType, NEW ids \in SUBSET Ids, ResolveUncertain(ids)
  PROVE  LedgerType'
<1> DEFINE open == {id \in ids : charge[id] = "Reserved"}
<1>1. charge' = SetCharges(open, "Enqueue") /\ marked' = ResetMarks(open, clock)
      /\ outcomes' = Count("discovered", Cardinality(ids \ open)) /\ clock' = clock
  BY Zenon DEF ResolveUncertain
<1>2. ids \ open \in SUBSET Ids
  BY Zenon
<1> HIDE DEF open
<1>3. outcomes' \in [committed : Nat, discovered : Nat, acknowledged : Nat]
  BY <1>1, <1>2, CardNat, CountFacts, Zenon
<1>4. charge' \in [Ids -> ChargeState \cup {None}] /\ marked' \in [Ids -> Nat]
  BY <1>1, SetFacts, Zenon DEF LedgerType, ChargeState
<1>5. QED
  BY <1>1, <1>3, <1>4, Zenon DEF LedgerType

LEMMA AbortedType ==
  ASSUME LedgerType, NEW ids \in SUBSET Ids, ResolveAborted(ids)
  PROVE  LedgerType'
  BY SetFacts, Zenon DEF ResolveAborted, LedgerType

(* Both counters of an acknowledgement and of a reconciliation.               *)
LEMMA CountBoth ==
  ASSUME LedgerType, NEW m \in Nat, NEW n \in Nat,
         outcomes' = [outcomes EXCEPT !.acknowledged = @ + m, !.discovered = @ + n]
  PROVE  /\ outcomes' \in [committed : Nat, discovered : Nat, acknowledged : Nat]
         /\ outcomes'.committed = outcomes.committed
         /\ outcomes'.discovered = outcomes.discovered + n
         /\ outcomes'.acknowledged = outcomes.acknowledged + m
<1> DEFINE T == [committed : Nat, discovered : Nat, acknowledged : Nat]
           a == [outcomes EXCEPT !.acknowledged = outcomes.acknowledged + m]
           b == [a EXCEPT !.discovered = a.discovered + n]
<1>1. outcomes \in T
  BY Zenon DEF LedgerType
<1>2. a \in T /\ a.acknowledged = outcomes.acknowledged + m /\ a.discovered = outcomes.discovered
      /\ a.committed = outcomes.committed
  BY <1>1
<1>3. outcomes' = b
  BY Zenon
<1> HIDE DEF a
<1>4. b \in T /\ b.discovered = a.discovered + n /\ b.acknowledged = a.acknowledged
      /\ b.committed = a.committed
  BY <1>2
<1> HIDE DEF b
<1>5. QED
  BY <1>2, <1>3, <1>4, Zenon

LEMMA CountBothSwapped ==
  ASSUME LedgerType, NEW m \in Nat, NEW n \in Nat,
         outcomes' = [outcomes EXCEPT !.discovered = @ + n, !.acknowledged = @ + m]
  PROVE  /\ outcomes' \in [committed : Nat, discovered : Nat, acknowledged : Nat]
         /\ outcomes'.committed = outcomes.committed
         /\ outcomes'.discovered = outcomes.discovered + n
         /\ outcomes'.acknowledged = outcomes.acknowledged + m
<1> DEFINE T == [committed : Nat, discovered : Nat, acknowledged : Nat]
           a == [outcomes EXCEPT !.discovered = outcomes.discovered + n]
           b == [a EXCEPT !.acknowledged = a.acknowledged + m]
<1>1. outcomes \in T
  BY Zenon DEF LedgerType
<1>2. a \in T /\ a.discovered = outcomes.discovered + n /\ a.acknowledged = outcomes.acknowledged
      /\ a.committed = outcomes.committed
  BY <1>1
<1>3. outcomes' = b
  BY Zenon
<1> HIDE DEF a
<1>4. b \in T /\ b.acknowledged = a.acknowledged + m /\ b.discovered = a.discovered
      /\ b.committed = a.committed
  BY <1>2
<1> HIDE DEF b
<1>5. QED
  BY <1>2, <1>3, <1>4, Zenon

LEMMA AcknowledgeType ==
  ASSUME LedgerType, NEW ids \in SUBSET Ids, Acknowledge(ids)
  PROVE  LedgerType'
<1> DEFINE released == ids \cap Charged
           proven == {id \in released : charge[id] = "Enqueue"}
<1>1. /\ charge' = SetCharges(released, None) /\ marked' = ResetMarks(released, 0)
      /\ outcomes' = [outcomes EXCEPT !.acknowledged = @ + Cardinality(released),
                                      !.discovered = @ + Cardinality(proven)]
      /\ clock' = clock
  BY Zenon DEF Acknowledge
<1>2. released \in SUBSET Ids /\ proven \in SUBSET Ids
  BY Zenon
<1> HIDE DEF released, proven
<1>3. outcomes' \in [committed : Nat, discovered : Nat, acknowledged : Nat]
  BY <1>1, <1>2, CardNat, CountBoth, Zenon
<1>4. charge' \in [Ids -> ChargeState \cup {None}] /\ marked' \in [Ids -> Nat]
  BY <1>1, SetFacts, Zenon DEF LedgerType
<1>5. QED
  BY <1>1, <1>3, <1>4, Zenon DEF LedgerType

LEMMA MarkType ==
  ASSUME LedgerType, NEW ids \in SUBSET Ids, MarkAcknowledgementUncertain(ids)
  PROVE  LedgerType'
<1> DEFINE retained == ids \cap Charged
           proven == {id \in retained : charge[id] = "Enqueue"}
<1>1. /\ charge' = SetCharges(retained, "Acknowledgement") /\ marked' = ResetMarks(retained, clock)
      /\ outcomes' = Count("discovered", Cardinality(proven)) /\ clock' = clock
  BY Zenon DEF MarkAcknowledgementUncertain
<1>2. proven \in SUBSET Ids
  BY Zenon
<1> HIDE DEF retained, proven
<1>3. outcomes' \in [committed : Nat, discovered : Nat, acknowledged : Nat]
  BY <1>1, <1>2, CardNat, CountFacts, Zenon
<1>4. charge' \in [Ids -> ChargeState \cup {None}] /\ marked' \in [Ids -> Nat]
  BY <1>1, SetFacts, Zenon DEF LedgerType, ChargeState
<1>5. QED
  BY <1>1, <1>3, <1>4, Zenon DEF LedgerType

LEMMA ReconcileType ==
  ASSUME LedgerType, NEW ids \in SUBSET Ids, NEW ticket, FinishReconciliation(ticket, ids)
  PROVE  LedgerType'
<1> DEFINE unknown == ids \ Charged
           proven == {id \in ids : charge[id] = "Enqueue"}
           settled == {id \in Uncertain : MarkedBefore(id, ticket)} \ proven
           again == settled \cap ids
           released == settled \ ids
           acked == {id \in released : charge[id] = "Acknowledgement"}
<1>1. /\ charge' = [id \in Ids |->
                      IF id \in unknown \cup proven \cup again THEN "Durable"
                      ELSE IF id \in released THEN None ELSE charge[id]]
      /\ marked' = ResetMarks(proven \cup settled, 0)
      /\ outcomes' = [outcomes EXCEPT
                        !.discovered = @ + Cardinality(unknown \cup proven),
                        !.acknowledged = @ + Cardinality(acked)]
      /\ clock' = clock
  BY Zenon DEF FinishReconciliation
<1>2. (unknown \cup proven) \in SUBSET Ids /\ acked \in SUBSET Ids
  BY Zenon DEF Uncertain
<1> HIDE DEF unknown, proven, settled, again, released, acked
<1>3. outcomes' \in [committed : Nat, discovered : Nat, acknowledged : Nat]
  BY <1>1, <1>2, CardNat, CountBothSwapped, Zenon
<1>4. charge' \in [Ids -> ChargeState \cup {None}]
  BY <1>1, Zenon DEF LedgerType, ChargeState
<1>5. marked' \in [Ids -> Nat]
  BY <1>1, SetFacts, Zenon DEF LedgerType
<1>6. QED
  BY <1>1, <1>3, <1>4, <1>5, Zenon DEF LedgerType

(* An attempt's record after a step, field by field.                          *)
LEMMA AttemptPc ==
  ASSUME AttemptType, NEW c \in PcState,
         attempt' = [attempt EXCEPT !.pc = c]
  PROVE  /\ AttemptType'
         /\ attempt'.pc = c
         /\ attempt'.owner = attempt.owner /\ attempt'.ticket = attempt.ticket /\ attempt'.awaited = attempt.awaited /\ attempt'.ids = attempt.ids
  BY Zenon DEF AttemptType, AttemptRecord

LEMMA AttemptOwner ==
  ASSUME AttemptType, NEW c \in PcState, NEW o \in OwnerState \cup {None},
         attempt' = [attempt EXCEPT !.pc = c, !.owner = o]
  PROVE  /\ AttemptType'
         /\ attempt'.pc = c /\ attempt'.owner = o
         /\ attempt'.ticket = attempt.ticket /\ attempt'.awaited = attempt.awaited /\ attempt'.ids = attempt.ids
<1> DEFINE a == [attempt EXCEPT !.pc = c]
           b == [a EXCEPT !.owner = o]
<1>1. attempt \in AttemptRecord /\ attempt' = b
  BY Zenon DEF AttemptType
<1>2. /\ a \in AttemptRecord /\ a.pc = c
      /\ a.owner = attempt.owner /\ a.ticket = attempt.ticket /\ a.awaited = attempt.awaited /\ a.ids = attempt.ids
  BY <1>1, Zenon DEF AttemptRecord
<1> HIDE DEF a
<1>3. /\ b \in AttemptRecord /\ b.owner = o
      /\ b.pc = a.pc /\ b.ticket = a.ticket /\ b.awaited = a.awaited /\ b.ids = a.ids
  BY <1>2, Zenon DEF AttemptRecord
<1> HIDE DEF b
<1>4. QED
  BY <1>1, <1>2, <1>3, Zenon DEF AttemptType

LEMMA AttemptTicket ==
  ASSUME AttemptType, NEW c \in PcState, NEW o \in OwnerState \cup {None}, NEW t \in Nat,
         attempt' = [attempt EXCEPT !.pc = c, !.owner = o, !.ticket = t]
  PROVE  /\ AttemptType'
         /\ attempt'.pc = c /\ attempt'.owner = o /\ attempt'.ticket = t
         /\ attempt'.awaited = attempt.awaited /\ attempt'.ids = attempt.ids
<1> DEFINE a == [attempt EXCEPT !.pc = c]
           b == [a EXCEPT !.owner = o]
           d == [b EXCEPT !.ticket = t]
<1>1. attempt \in AttemptRecord /\ attempt' = d
  BY Zenon DEF AttemptType
<1>2. /\ a \in AttemptRecord /\ a.pc = c
      /\ a.owner = attempt.owner /\ a.ticket = attempt.ticket /\ a.awaited = attempt.awaited /\ a.ids = attempt.ids
  BY <1>1, Zenon DEF AttemptRecord
<1> HIDE DEF a
<1>3. /\ b \in AttemptRecord /\ b.owner = o
      /\ b.pc = a.pc /\ b.ticket = a.ticket /\ b.awaited = a.awaited /\ b.ids = a.ids
  BY <1>2, Zenon DEF AttemptRecord
<1> HIDE DEF b
<1>4. /\ d \in AttemptRecord /\ d.ticket = t
      /\ d.pc = b.pc /\ d.owner = b.owner /\ d.awaited = b.awaited /\ d.ids = b.ids
  BY <1>3, Zenon DEF AttemptRecord
<1> HIDE DEF d
<1>5. QED
  BY <1>1, <1>2, <1>3, <1>4, Zenon DEF AttemptType

LEMMA AttemptAwaited ==
  ASSUME AttemptType, NEW c \in PcState, NEW w \in SUBSET Producers,
         attempt' = [attempt EXCEPT !.pc = c, !.awaited = w]
  PROVE  /\ AttemptType'
         /\ attempt'.pc = c /\ attempt'.awaited = w
         /\ attempt'.owner = attempt.owner /\ attempt'.ticket = attempt.ticket /\ attempt'.ids = attempt.ids
<1> DEFINE a == [attempt EXCEPT !.pc = c]
           b == [a EXCEPT !.awaited = w]
<1>1. attempt \in AttemptRecord /\ attempt' = b
  BY Zenon DEF AttemptType
<1>2. /\ a \in AttemptRecord /\ a.pc = c
      /\ a.owner = attempt.owner /\ a.ticket = attempt.ticket /\ a.awaited = attempt.awaited /\ a.ids = attempt.ids
  BY <1>1, Zenon DEF AttemptRecord
<1> HIDE DEF a
<1>3. /\ b \in AttemptRecord /\ b.awaited = w
      /\ b.pc = a.pc /\ b.owner = a.owner /\ b.ticket = a.ticket /\ b.ids = a.ids
  BY <1>2, Zenon DEF AttemptRecord
<1> HIDE DEF b
<1>4. QED
  BY <1>1, <1>2, <1>3, Zenon DEF AttemptType

LEMMA AttemptIds ==
  ASSUME AttemptType, NEW c \in PcState, NEW s \in SUBSET Ids,
         attempt' = [attempt EXCEPT !.pc = c, !.ids = s]
  PROVE  /\ AttemptType'
         /\ attempt'.pc = c /\ attempt'.ids = s
         /\ attempt'.owner = attempt.owner /\ attempt'.ticket = attempt.ticket /\ attempt'.awaited = attempt.awaited
<1> DEFINE a == [attempt EXCEPT !.pc = c]
           b == [a EXCEPT !.ids = s]
<1>1. attempt \in AttemptRecord /\ attempt' = b
  BY Zenon DEF AttemptType
<1>2. /\ a \in AttemptRecord /\ a.pc = c
      /\ a.owner = attempt.owner /\ a.ticket = attempt.ticket /\ a.awaited = attempt.awaited /\ a.ids = attempt.ids
  BY <1>1, Zenon DEF AttemptRecord
<1> HIDE DEF a
<1>3. /\ b \in AttemptRecord /\ b.ids = s
      /\ b.pc = a.pc /\ b.owner = a.owner /\ b.ticket = a.ticket /\ b.awaited = a.awaited
  BY <1>2, Zenon DEF AttemptRecord
<1> HIDE DEF b
<1>4. QED
  BY <1>1, <1>2, <1>3, Zenon DEF AttemptType

LEMMA AttemptSettled ==
  ASSUME AttemptType, NEW c \in PcState, NEW s \in SUBSET Ids, NEW t \in Nat,
         attempt' = [attempt EXCEPT !.pc = c, !.ids = s, !.ticket = t]
  PROVE  /\ AttemptType'
         /\ attempt'.pc = c /\ attempt'.ids = s /\ attempt'.ticket = t
         /\ attempt'.owner = attempt.owner /\ attempt'.awaited = attempt.awaited
<1> DEFINE a == [attempt EXCEPT !.pc = c]
           b == [a EXCEPT !.ids = s]
           d == [b EXCEPT !.ticket = t]
<1>1. attempt \in AttemptRecord /\ attempt' = d
  BY Zenon DEF AttemptType
<1>2. /\ a \in AttemptRecord /\ a.pc = c
      /\ a.owner = attempt.owner /\ a.ticket = attempt.ticket /\ a.awaited = attempt.awaited /\ a.ids = attempt.ids
  BY <1>1, Zenon DEF AttemptRecord
<1> HIDE DEF a
<1>3. /\ b \in AttemptRecord /\ b.ids = s
      /\ b.pc = a.pc /\ b.owner = a.owner /\ b.ticket = a.ticket /\ b.awaited = a.awaited
  BY <1>2, Zenon DEF AttemptRecord
<1> HIDE DEF b
<1>4. /\ d \in AttemptRecord /\ d.ticket = t
      /\ d.pc = b.pc /\ d.owner = b.owner /\ d.awaited = b.awaited /\ d.ids = b.ids
  BY <1>3, Zenon DEF AttemptRecord
<1> HIDE DEF d
<1>5. QED
  BY <1>1, <1>2, <1>3, <1>4, Zenon DEF AttemptType

-----------------------------------------------------------------------------
(* Charges: every action keeps TypeOK and ChargeInv. *)

(* What an admitted reservation does, with the entities, the removals and the *)
(* fresh IDs named.                                                           *)
Admitted(p, es, removes, ids) ==
  /\ es \in SUBSET Entities /\ es # {} /\ removes \in SUBSET es
  /\ \A e \in removes : live[e]
  /\ Admits(es, removes)
  /\ ids \in SUBSET Ids /\ Cardinality(ids) = Cardinality(es)
  /\ \A id \in ids : entity[id] = None /\ entity'[id] \in es
  /\ \A i, j \in ids : entity'[i] = entity'[j] => i = j
  /\ \A e \in es : \E id \in ids : entity'[id] = e
  /\ \A id \in Ids : charge'[id] = IF id \in ids THEN "Reserved" ELSE charge[id]
  /\ \A id \in Ids \ ids : entity'[id] = entity[id]
  /\ tx'[p].phase = "open" /\ tx'[p].ids = ids /\ tx'[p].removes = removes
  /\ \A q \in Producers \ {p} : tx'[q] = tx[q]

LEMMA ReserveFacts ==
  ASSUME TypeOK, NEW p \in Producers, Reserve(p)
  PROVE  TypeOK' /\ \E es, removes, ids : Admitted(p, es, removes, ids)
<1>1. PICK es \in (SUBSET Entities) \ {{}} : \E removes \in SUBSET {e \in es : live[e]} :
        /\ Admits(es, removes)
        /\ \E ids \in kSubset(Cardinality(es), {id \in Ids : entity[id] = None}) :
             \E assign \in Bijection(ids, es) :
               /\ entity' = [id \in Ids |-> IF id \in ids THEN assign[id] ELSE entity[id]]
               /\ charge' = SetCharges(ids, "Reserved")
               /\ tx' = [tx EXCEPT ![p] = [phase |-> "open", ids |-> ids, removes |-> removes,
                                           stale |-> FALSE, sawBlocker |-> ~Fits(es)]]
  BY Zenon DEF Reserve
<1>2. PICK removes \in SUBSET {e \in es : live[e]} :
        /\ Admits(es, removes)
        /\ \E ids \in kSubset(Cardinality(es), {id \in Ids : entity[id] = None}) :
             \E assign \in Bijection(ids, es) :
               /\ entity' = [id \in Ids |-> IF id \in ids THEN assign[id] ELSE entity[id]]
               /\ charge' = SetCharges(ids, "Reserved")
               /\ tx' = [tx EXCEPT ![p] = [phase |-> "open", ids |-> ids, removes |-> removes,
                                           stale |-> FALSE, sawBlocker |-> ~Fits(es)]]
  BY <1>1, Zenon
<1>3. PICK ids \in kSubset(Cardinality(es), {id \in Ids : entity[id] = None}) :
             \E assign \in Bijection(ids, es) :
               /\ entity' = [id \in Ids |-> IF id \in ids THEN assign[id] ELSE entity[id]]
               /\ charge' = SetCharges(ids, "Reserved")
               /\ tx' = [tx EXCEPT ![p] = [phase |-> "open", ids |-> ids, removes |-> removes,
                                           stale |-> FALSE, sawBlocker |-> ~Fits(es)]]
  BY <1>2, Zenon
<1>4. PICK assign \in Bijection(ids, es) :
               /\ entity' = [id \in Ids |-> IF id \in ids THEN assign[id] ELSE entity[id]]
               /\ charge' = SetCharges(ids, "Reserved")
               /\ tx' = [tx EXCEPT ![p] = [phase |-> "open", ids |-> ids, removes |-> removes,
                                           stale |-> FALSE, sawBlocker |-> ~Fits(es)]]
  BY <1>3, Zenon
<1>5. ids \in SUBSET Ids /\ Cardinality(ids) = Cardinality(es) /\ \A id \in ids : entity[id] = None
  BY Zenon DEF kSubset
<1>6. /\ assign \in [ids -> es]
      /\ \A i, j \in ids : assign[i] = assign[j] => i = j
      /\ \A e \in es : \E id \in ids : assign[id] = e
  BY Zenon DEF Bijection, Injection, Surjection, IsInjective
<1> DEFINE flag == ~Fits(es)
<1>7. flag \in Flag
  BY Zenon DEF Flag
<1> HIDE DEF flag
<1> PICK r : r = [phase |-> "open", ids |-> ids, removes |-> removes, stale |-> FALSE, sawBlocker |-> flag]
  BY Zenon
<1>8. r \in TxRecord /\ r.phase = "open" /\ r.ids = ids /\ r.removes = removes
  BY <1>5, <1>7, FlagType, Zenon DEF TxRecord
<1>9. tx' = [tx EXCEPT ![p] = r]
  BY <1>4, Zenon DEF flag
<1>10. TxType' /\ tx'[p] = r /\ \A q \in Producers \ {p} : tx'[q] = tx[q]
  <2>1. TxType /\ r \in TxRecord
    BY <1>8, Zenon DEF TypeOK
  <2>2. QED
    BY <1>9, <2>1, Zenon DEF TxType
<1>11. entity' \in [Ids -> Entities \cup {None}]
  BY <1>4, <1>6, Zenon DEF TypeOK, StorageType
<1>12. charge' \in [Ids -> ChargeState \cup {None}]
  BY <1>4, SetFacts, Zenon DEF TypeOK, ChargeState
<1>13. UNCHANGED <<owner, blocker, live, queue, marked, clock, outcomes, attempt, life, blamed>>
  BY Zenon DEF Reserve
<1>14. TypeOK'
  BY <1>10, <1>11, <1>12, <1>13, Zenon DEF TypeOK, StorageType, LedgerType, AttemptType
<1>15. \A id \in Ids : charge'[id] = IF id \in ids THEN "Reserved" ELSE charge[id]
  BY <1>4, Zenon DEF SetCharges
<1>16. \A id \in Ids : entity'[id] = IF id \in ids THEN assign[id] ELSE entity[id]
  BY <1>4, Zenon
<1>17. Admitted(p, es, removes, ids)
  <2>1. /\ \A id \in ids : entity'[id] \in es
        /\ \A i, j \in ids : entity'[i] = entity'[j] => i = j
        /\ \A e \in es : \E id \in ids : entity'[id] = e
    BY <1>5, <1>6, <1>16
  <2>2. /\ es \in SUBSET Entities /\ es # {} /\ removes \in SUBSET es
        /\ \A e \in removes : live[e]
    BY Zenon
  <2>3. QED
    BY <2>1, <2>2, <1>2, <1>5, <1>8, <1>10, <1>15, <1>16, Zenon DEF Admitted
<1>18. QED
  BY <1>14, <1>17, Zenon

LEMMA ReserveCharge ==
  ASSUME TypeOK, ChargeInv, NEW p \in Producers, Reserve(p)
  PROVE  ChargeInv'
<1>1. TypeOK'
  BY ReserveFacts, Zenon
<1>2. PICK es, removes, ids : Admitted(p, es, removes, ids)
  BY ReserveFacts, Zenon
<1>3. UNCHANGED <<owner, blocker, live, queue, marked, clock, outcomes, attempt, life, blamed>>
  BY Zenon DEF Reserve
<1>4. /\ ids \in SUBSET Ids
      /\ \A id \in ids : entity[id] = None /\ entity'[id] # None
      /\ \A id \in Ids : charge'[id] = IF id \in ids THEN "Reserved" ELSE charge[id]
      /\ \A id \in Ids \ ids : entity'[id] = entity[id]
      /\ tx'[p].phase = "open" /\ tx'[p].ids = ids
      /\ \A q \in Producers \ {p} : tx'[q] = tx[q]
  BY <1>2, NoneAssumption DEF Admitted
<1>5. \A id \in ids : charge[id] = None /\ id \notin life /\ \A q \in Producers : id \notin tx[q].ids
  BY <1>4, Zenon DEF ChargeInv, Fresh
<1>6. queue \subseteq life /\ life \subseteq Ids /\ attempt.ids \subseteq life
  BY Zenon DEF ChargeInv, Backed, TypeOK, StorageType
<1>7. Fresh'
  BY <1>3, <1>4, <1>5, Zenon DEF ChargeInv, Fresh
<1>8. Held'
  BY <1>3, <1>4, <1>5 DEF ChargeInv, Held, TypeOK, TxType, TxRecord
<1>9. Backed'
  BY <1>3, <1>4, <1>5, <1>6, Zenon DEF ChargeInv, Backed, Released
<1>10. Target'
  BY <1>3, Zenon DEF ChargeInv, Target
<1>11. Ticketed'
  BY <1>3, <1>4, <1>5, <1>6, Zenon DEF ChargeInv, Ticketed
<1>12. QED
  BY <1>7, <1>8, <1>9, <1>10, <1>11, Zenon DEF ChargeInv

(* A producer's step that ends its transaction or moves it to another phase.  *)
LEMMA TxStep ==
  ASSUME TypeOK, NEW p \in Producers, NEW r \in TxRecord, tx' = [tx EXCEPT ![p] = r]
  PROVE  /\ TxType' /\ tx'[p] = r
         /\ \A q \in Producers \ {p} : tx'[q] = tx[q]
  BY Zenon DEF TypeOK, TxType

LEMMA NoTxFields == NoTx.phase = "idle" /\ NoTx.ids = {} /\ NoTx.removes = {}
  BY Zenon DEF NoTx

LEMMA TxFields ==
  ASSUME TypeOK, NEW p \in Producers
  PROVE  tx[p] \in TxRecord /\ tx[p].ids \in SUBSET Ids /\ tx[p].removes \in SUBSET Entities
         /\ tx[p].phase \in {"idle", "open", "landed", "unknown"}
  BY Zenon DEF TypeOK, TxType, TxRecord

LEMMA AbortFacts ==
  ASSUME TypeOK, NEW p \in Producers, Abort(p)
  PROVE  /\ TypeOK'
         /\ tx'[p] = NoTx /\ \A q \in Producers \ {p} : tx'[q] = tx[q]
         /\ \A id \in Ids : charge'[id] = IF id \in tx[p].ids THEN None ELSE charge[id]
         /\ \A id \in Ids : entity'[id] = IF id \in tx[p].ids THEN None ELSE entity[id]
<1>1. LedgerType'
  BY TxFields, AbortedType, Zenon DEF Abort, TypeOK
<1>2. TxType' /\ tx'[p] = NoTx /\ \A q \in Producers \ {p} : tx'[q] = tx[q]
  BY NoTxType, TxStep, Zenon DEF Abort
<1>3. StorageType'
  BY Zenon DEF Abort, TypeOK, StorageType
<1>4. AttemptType'
  BY Zenon DEF Abort, TypeOK, AttemptType
<1>5. QED
  BY <1>1, <1>2, <1>3, <1>4, Zenon DEF TypeOK, Abort, ResolveAborted, SetCharges

LEMMA AbortCharge ==
  ASSUME TypeOK, ChargeInv, NEW p \in Producers, Abort(p)
  PROVE  ChargeInv'
<1>1. /\ tx[p].phase = "open"
      /\ UNCHANGED <<queue, attempt, life, marked, clock>>
  BY Zenon DEF Abort, ResolveAborted
<1>2. /\ tx'[p].phase = "idle" /\ tx'[p].ids = {}
      /\ \A q \in Producers \ {p} : tx'[q] = tx[q]
      /\ \A id \in Ids : charge'[id] = IF id \in tx[p].ids THEN None ELSE charge[id]
      /\ \A id \in Ids : entity'[id] = IF id \in tx[p].ids THEN None ELSE entity[id]
  BY AbortFacts, NoTxFields, Zenon
<1>3. \A id \in tx[p].ids : id \in Ids /\ id \notin life /\ \A q \in Producers \ {p} : id \notin tx[q].ids
  BY <1>1, TxFields, Zenon DEF ChargeInv, Held
<1>4. queue \subseteq life /\ life \subseteq Ids /\ attempt.ids \subseteq life
  BY Zenon DEF ChargeInv, Backed, TypeOK, StorageType
<1>5. Fresh'
  BY <1>1, <1>2, <1>3 DEF ChargeInv, Fresh
<1>6. Held'
  BY <1>1, <1>2, <1>3, TxFields DEF ChargeInv, Held
<1>7. Backed'
  BY <1>1, <1>2, <1>3, <1>4, NoneAssumption, Zenon DEF ChargeInv, Backed, Released, ChargeState
<1>8. Target'
  BY <1>1, Zenon DEF ChargeInv, Target
<1>9. Ticketed'
  BY <1>1, <1>2, <1>3, <1>4, Zenon DEF ChargeInv, Ticketed
<1>10. QED
  BY <1>5, <1>6, <1>7, <1>8, <1>9, Zenon DEF ChargeInv

LEMMA CommittedFacts ==
  ASSUME TypeOK, NEW p \in Producers, ReturnCommitted(p)
  PROVE  /\ TypeOK'
         /\ tx'[p] = NoTx /\ \A q \in Producers \ {p} : tx'[q] = tx[q]
         /\ \A id \in Ids : charge'[id] = IF id \in tx[p].ids /\ charge[id] = "Reserved"
                                          THEN "Durable" ELSE charge[id]
<1>1. LedgerType'
  BY TxFields, CommittedType, Zenon DEF ReturnCommitted, TypeOK
<1>2. TxType' /\ tx'[p] = NoTx /\ \A q \in Producers \ {p} : tx'[q] = tx[q]
  BY NoTxType, TxStep, Zenon DEF ReturnCommitted
<1>3. StorageType' /\ AttemptType'
  BY Zenon DEF ReturnCommitted, TypeOK, StorageType, AttemptType
<1>4. QED
  BY <1>1, <1>2, <1>3, Zenon DEF TypeOK, ReturnCommitted, ResolveCommitted, SetCharges

LEMMA CommittedCharge ==
  ASSUME TypeOK, ChargeInv, NEW p \in Producers, ReturnCommitted(p)
  PROVE  ChargeInv'
<1>1. /\ tx[p].phase = "landed"
      /\ UNCHANGED <<queue, attempt, life, marked, clock, entity>>
  BY Zenon DEF ReturnCommitted, ResolveCommitted
<1>2. /\ tx'[p].phase = "idle" /\ tx'[p].ids = {}
      /\ \A q \in Producers \ {p} : tx'[q] = tx[q]
      /\ \A id \in Ids : charge'[id] = IF id \in tx[p].ids /\ charge[id] = "Reserved"
                                       THEN "Durable" ELSE charge[id]
  BY CommittedFacts, NoTxFields, Zenon
<1>3. \A id \in tx[p].ids : id \in Ids /\ id \in life /\ \A q \in Producers \ {p} : id \notin tx[q].ids
  BY <1>1, TxFields, Zenon DEF ChargeInv, Held
<1>4. queue \subseteq life /\ life \subseteq Ids /\ attempt.ids \subseteq life
  BY Zenon DEF ChargeInv, Backed, TypeOK, StorageType
<1>5. Fresh'
  BY <1>1, <1>2, <1>3, Zenon DEF ChargeInv, Fresh
<1>6. Held'
  BY <1>1, <1>2, <1>3, TxFields DEF ChargeInv, Held
<1>7. Backed'
  BY <1>1, <1>2, <1>3, <1>4, NoneAssumption, Zenon DEF ChargeInv, Backed, Released, ChargeState
<1>8. Target'
  BY <1>1, Zenon DEF ChargeInv, Target
<1>9. Ticketed'
  BY <1>1, <1>2, <1>3, <1>4, Zenon DEF ChargeInv, Ticketed
<1>10. QED
  BY <1>5, <1>6, <1>7, <1>8, <1>9, Zenon DEF ChargeInv

LEMMA UncertainFacts ==
  ASSUME TypeOK, NEW p \in Producers, ReturnUncertain(p)
  PROVE  /\ TypeOK'
         /\ tx[p].phase = "landed" => tx'[p] = NoTx
         /\ tx[p].phase = "open" => /\ tx'[p].phase = "unknown" /\ tx'[p].ids = tx[p].ids
                                    /\ tx'[p].removes = tx[p].removes /\ tx'[p].stale = tx[p].stale
         /\ \A q \in Producers \ {p} : tx'[q] = tx[q]
         /\ \A id \in Ids : /\ charge'[id] = IF id \in tx[p].ids /\ charge[id] = "Reserved"
                                             THEN "Enqueue" ELSE charge[id]
                            /\ marked'[id] = IF id \in tx[p].ids /\ charge[id] = "Reserved"
                                             THEN clock ELSE marked[id]
<1>1. LedgerType'
  BY TxFields, UncertainType, Zenon DEF ReturnUncertain, TypeOK
<1>2. PICK r : r = IF tx[p].phase = "landed" THEN NoTx ELSE [tx[p] EXCEPT !.phase = "unknown"]
  BY Zenon
<1>3. /\ r \in TxRecord
      /\ tx[p].phase = "landed" => r = NoTx
      /\ tx[p].phase = "open" => /\ r.phase = "unknown" /\ r.ids = tx[p].ids
                                 /\ r.removes = tx[p].removes /\ r.stale = tx[p].stale
  BY <1>2, TxFields, PhaseType, NoTxType
<1>4. tx' = [tx EXCEPT ![p] = r]
  BY <1>2, Zenon DEF ReturnUncertain
<1>5. TxType' /\ tx'[p] = r /\ \A q \in Producers \ {p} : tx'[q] = tx[q]
  BY <1>3, <1>4, TxStep, ZenonT(60)
<1>6. StorageType' /\ AttemptType'
  BY Zenon DEF ReturnUncertain, TypeOK, StorageType, AttemptType
<1>7. QED
  BY <1>1, <1>3, <1>5, <1>6, Zenon DEF TypeOK, ReturnUncertain, ResolveUncertain, SetCharges, ResetMarks

LEMMA UncertainCharge ==
  ASSUME TypeOK, ChargeInv, NEW p \in Producers, ReturnUncertain(p)
  PROVE  ChargeInv'
<1>1. /\ tx[p].phase \in {"open", "landed"}
      /\ UNCHANGED <<queue, attempt, life, clock, entity>>
  BY Zenon DEF ReturnUncertain, ResolveUncertain
<1>2. /\ tx[p].phase = "landed" => tx'[p].phase = "idle" /\ tx'[p].ids = {}
      /\ tx[p].phase = "open" => tx'[p].phase = "unknown" /\ tx'[p].ids = tx[p].ids
      /\ \A q \in Producers \ {p} : tx'[q] = tx[q]
      /\ \A id \in Ids : /\ charge'[id] = IF id \in tx[p].ids /\ charge[id] = "Reserved"
                                          THEN "Enqueue" ELSE charge[id]
                         /\ marked'[id] = IF id \in tx[p].ids /\ charge[id] = "Reserved"
                                          THEN clock ELSE marked[id]
  BY UncertainFacts, NoTxFields, Zenon
<1>3. \A id \in tx[p].ids : /\ id \in Ids /\ \A q \in Producers \ {p} : id \notin tx[q].ids
                            /\ tx[p].phase = "open" => charge[id] = "Reserved" /\ id \notin life
                            /\ tx[p].phase = "landed" => id \in life
  BY <1>1, TxFields, Zenon DEF ChargeInv, Held
<1>4. queue \subseteq life /\ life \subseteq Ids /\ attempt.ids \subseteq life
  BY Zenon DEF ChargeInv, Backed, TypeOK, StorageType
<1>5. Fresh'
  BY <1>1, <1>2, <1>3, Zenon DEF ChargeInv, Fresh
<1>6. Held'
  BY <1>1, <1>2, <1>3, TxFields DEF ChargeInv, Held
<1>7. Backed'
  BY <1>1, <1>2, <1>3, <1>4, NoneAssumption, Zenon DEF ChargeInv, Backed, Released, ChargeState
<1>8. Target'
  BY <1>1, Zenon DEF ChargeInv, Target
<1>9. Ticketed'
  <2>1. /\ attempt.pc \in {"ticketed", "flushing", "flushed", "read"} => attempt.ticket = clock
        /\ clock \in Nat
    BY Zenon DEF ChargeInv, Ticketed, TypeOK, LedgerType
  <2>2. \A q \in Producers : \A id \in tx[q].ids : id \in Ids
    BY TxFields, Zenon
  <2>3. QED
    BY <1>1, <1>2, <1>3, <1>4, <2>1, <2>2 DEF ChargeInv, Ticketed
<1>10. QED
  BY <1>5, <1>6, <1>7, <1>8, <1>9, Zenon DEF ChargeInv

LEMMA LoseFacts ==
  ASSUME TypeOK, NEW p \in Producers, Lose(p)
  PROVE  TypeOK' /\ tx'[p] = NoTx /\ \A q \in Producers \ {p} : tx'[q] = tx[q]
<1>1. TxType' /\ tx'[p] = NoTx /\ \A q \in Producers \ {p} : tx'[q] = tx[q]
  BY NoTxType, TxStep, Zenon DEF Lose
<1>2. StorageType' /\ AttemptType' /\ LedgerType'
  BY Zenon DEF Lose, TypeOK, StorageType, AttemptType, LedgerType, ledger
<1>3. QED
  BY <1>1, <1>2, Zenon DEF TypeOK

LEMMA LoseCharge ==
  ASSUME TypeOK, ChargeInv, NEW p \in Producers, Lose(p)
  PROVE  ChargeInv'
<1>1. UNCHANGED <<queue, attempt, life, charge, marked, clock, entity>>
  BY Zenon DEF Lose, ledger
<1>2. /\ tx'[p].phase = "idle" /\ tx'[p].ids = {}
      /\ \A q \in Producers \ {p} : tx'[q] = tx[q]
  BY LoseFacts, NoTxFields, Zenon
<1>3. Fresh'
  BY <1>1, <1>2, Zenon DEF ChargeInv, Fresh
<1>4. Held'
  BY <1>1, <1>2 DEF ChargeInv, Held
<1>5. Backed' /\ Target'
  BY <1>1, Zenon DEF ChargeInv, Backed, Released, Target
<1>6. Ticketed'
  BY <1>1, <1>2, Zenon DEF ChargeInv, Ticketed
<1>7. QED
  BY <1>3, <1>4, <1>5, <1>6, Zenon DEF ChargeInv

(* Landing moves the operations to storage and stales what overlaps.          *)
LEMMA LandFacts ==
  ASSUME TypeOK, NEW p \in Producers, Land(p)
  PROVE  /\ TypeOK'
         /\ tx[p].phase = "unknown" => tx'[p] = NoTx
         /\ tx[p].phase = "open" => tx'[p].phase = "landed" /\ tx'[p].ids = tx[p].ids
         /\ \A q \in Producers \ {p} :
              /\ tx'[q].phase = tx[q].phase /\ tx'[q].ids = tx[q].ids /\ tx'[q].removes = tx[q].removes
              /\ ~tx'[q].stale => ~tx[q].stale
              /\ Overlaps(p, q) /\ tx[q].phase \in {"open", "unknown"} => tx'[q].stale
<1>1. PICK f : f = Stale({q \in Producers \ {p} : Overlaps(p, q)})
  BY Zenon
<1>2. /\ f \in [Producers -> TxRecord]
      /\ \A q \in Producers :
           /\ f[q].phase = tx[q].phase /\ f[q].ids = tx[q].ids
           /\ f[q].removes = tx[q].removes
           /\ q # p /\ Overlaps(p, q) /\ tx[q].phase \in {"open", "unknown"} => f[q].stale
           /\ ~f[q].stale => ~tx[q].stale
  <2>1. TxType
    BY Zenon DEF TypeOK
  <2>2. QED
    BY <1>1, <2>1, StaleFacts
<1>3. PICK r : r = IF f[p].phase = "open" THEN [f[p] EXCEPT !.phase = "landed"] ELSE NoTx
  BY Zenon
<1>4. /\ r \in TxRecord
      /\ tx[p].phase = "unknown" => r = NoTx
      /\ tx[p].phase = "open" => r.phase = "landed" /\ r.ids = tx[p].ids
  BY <1>2, <1>3, PhaseType, NoTxType
<1>5. tx' = [f EXCEPT ![p] = r]
  BY <1>1, <1>3, Zenon DEF Land
<1>6. TxType' /\ tx'[p] = r /\ \A q \in Producers \ {p} : tx'[q] = f[q]
  BY <1>2, <1>4, <1>5, Zenon DEF TxType
<1>7. live' \in [Entities -> Flag]
  BY Zenon DEF Land, Flag, TypeOK, StorageType
<1>8. StorageType' /\ AttemptType' /\ LedgerType'
  BY <1>7, TxFields, Zenon DEF Land, TypeOK, StorageType, AttemptType, LedgerType, ledger
<1>9. QED
  BY <1>2, <1>4, <1>6, <1>8, Zenon DEF TypeOK

LEMMA LandCharge ==
  ASSUME TypeOK, ChargeInv, NEW p \in Producers, Land(p)
  PROVE  ChargeInv'
<1>1. /\ tx[p].phase \in {"open", "unknown"}
      /\ queue' = queue \cup tx[p].ids
      /\ life' = life \cup tx[p].ids
      /\ UNCHANGED <<attempt, charge, marked, clock, entity>>
  BY Zenon DEF Land, ledger
<1>2. /\ tx[p].phase = "unknown" => tx'[p].phase = "idle" /\ tx'[p].ids = {}
      /\ tx[p].phase = "open" => tx'[p].phase = "landed" /\ tx'[p].ids = tx[p].ids
      /\ \A q \in Producers \ {p} : tx'[q].phase = tx[q].phase /\ tx'[q].ids = tx[q].ids
  BY LandFacts, NoTxFields, Zenon
<1>3. \A id \in tx[p].ids : /\ id \in Ids /\ id \notin life
                            /\ \A q \in Producers \ {p} : id \notin tx[q].ids
                            /\ tx[p].phase = "open" => charge[id] = "Reserved"
                            /\ tx[p].phase = "unknown" => charge[id] = "Enqueue"
  BY <1>1, TxFields, Zenon DEF ChargeInv, Held
<1>4. queue \subseteq life /\ life \subseteq Ids /\ attempt.ids \subseteq life
  BY Zenon DEF ChargeInv, Backed, TypeOK, StorageType
<1>5. Fresh'
  BY <1>1, <1>2, <1>3, Zenon DEF ChargeInv, Fresh
<1>6. Held'
  BY <1>1, <1>2, <1>3, TxFields DEF ChargeInv, Held
<1>7. Backed'
  BY <1>1, <1>2, <1>3, <1>4, NoneAssumption, Zenon DEF ChargeInv, Backed, Released, ChargeState
<1>8. Target'
  BY <1>1, <1>3, <1>4, Zenon DEF ChargeInv, Target
<1>9. Ticketed'
  BY <1>1, <1>2, <1>3, <1>4, Zenon DEF ChargeInv, Ticketed
<1>10. QED
  BY <1>5, <1>6, <1>7, <1>8, <1>9, Zenon DEF ChargeInv

(* The attempt's steps up to its selection change nothing but the attempt and *)
(* the clock.                                                                 *)
LEMMA NoAttemptFields ==
  NoAttempt.pc = "idle" /\ NoAttempt.ticket = 0 /\ NoAttempt.awaited = {} /\ NoAttempt.ids = {}
  BY Zenon DEF NoAttempt

LEMMA BeginKeeps ==
  ASSUME TypeOK, ChargeInv, Begin
  PROVE  TypeOK' /\ ChargeInv' /\ UNCHANGED <<Storage, queue, charge, outcomes, life>>
<1>1. attempt.pc = "idle" /\ UNCHANGED <<Storage, queue, charge, marked, outcomes, life>>
  BY Zenon DEF Begin
<1>2. /\ AttemptType' /\ clock' \in Nat
      /\ attempt'.pc \in {"ticketed", "classified"} /\ attempt'.ids = attempt.ids
      /\ attempt'.pc = "ticketed" => attempt'.ticket = clock'
  <2>1. CASE Uncertain # {}
    <3>1. /\ clock' = clock + 1
          /\ attempt' = [attempt EXCEPT !.pc = "ticketed", !.owner = owner, !.ticket = clock + 1]
      BY <2>1, Zenon DEF Begin, BeginReconciliation
    <3>2. PICK t, o : t = clock + 1 /\ o = owner
      BY Zenon
    <3>3. t \in Nat /\ o \in OwnerState \cup {None} /\ AttemptType /\ clock' = t
      BY <3>1, <3>2 DEF TypeOK, LedgerType, StorageType
    <3>4. attempt' = [attempt EXCEPT !.pc = "ticketed", !.owner = o, !.ticket = t]
      BY <3>1, <3>2, Zenon
    <3>5. "ticketed" \in PcState
      BY Zenon DEF PcState
    <3>6. /\ AttemptType' /\ attempt'.pc = "ticketed" /\ attempt'.ticket = t
          /\ attempt'.ids = attempt.ids
      BY <3>3, <3>4, <3>5, AttemptTicket, Zenon
    <3>7. QED
      BY <3>3, <3>6, Zenon
  <2>2. CASE Uncertain = {}
    <3>1. /\ clock' = clock
          /\ attempt' = [attempt EXCEPT !.pc = "classified", !.owner = owner]
      BY <2>2, Zenon DEF Begin
    <3>2. PICK o : o = owner
      BY Zenon
    <3>3. o \in OwnerState \cup {None} /\ AttemptType /\ clock' \in Nat
      BY <3>1, <3>2, Zenon DEF TypeOK, LedgerType, StorageType
    <3>4. "classified" \in PcState
      BY Zenon DEF PcState
    <3>5. AttemptType' /\ attempt'.pc = "classified" /\ attempt'.ids = attempt.ids
      BY <3>1, <3>2, <3>3, <3>4, AttemptOwner, ZenonT(60)
    <3>6. QED
      BY <3>3, <3>5, Zenon
  <2>3. QED
    BY <2>1, <2>2, Zenon
<1>3. StorageType' /\ LedgerType' /\ TxType'
  BY <1>1, <1>2, Zenon DEF TypeOK, StorageType, LedgerType, TxType, Storage
<1>4. TypeOK'
  BY <1>2, <1>3, Zenon DEF TypeOK
<1>5. Fresh' /\ Held'
  BY <1>1, Zenon DEF ChargeInv, Fresh, Held, Storage
<1>6. Backed' /\ Target'
  BY <1>1, <1>2, Zenon DEF ChargeInv, Backed, Target, Released, Storage
<1>7. Ticketed'
  BY <1>1, <1>2, Zenon DEF ChargeInv, Ticketed, Storage
<1>8. QED
  BY <1>1, <1>4, <1>5, <1>6, <1>7, Zenon DEF ChargeInv

(* With the ledger and the storage unchanged, an attempt's step has to keep   *)
(* what the invariant says of the attempt.                                    *)
LEMMA AttemptKeeps ==
  ASSUME TypeOK, ChargeInv, UNCHANGED <<Storage, queue, ledger, life>>, AttemptType',
         attempt'.ids \subseteq life, attempt.pc # "acknowledged", Target', Ticketed'
  PROVE  TypeOK' /\ ChargeInv'
<1>1. TypeOK'
  BY Zenon DEF TypeOK, StorageType, LedgerType, TxType, Storage, ledger
<1>2. Fresh' /\ Held'
  BY Zenon DEF ChargeInv, Fresh, Held, Storage, ledger
<1>3. Backed'
  BY Zenon DEF ChargeInv, Backed, Released, Storage, ledger
<1>4. QED
  BY <1>1, <1>2, <1>3, Zenon DEF ChargeInv

LEMMA StartFlushKeeps ==
  ASSUME TypeOK, ChargeInv, StartFlush
  PROVE  TypeOK' /\ ChargeInv'
<1>1. attempt.pc = "ticketed" /\ UNCHANGED <<Storage, queue, ledger, life>>
  BY Zenon DEF StartFlush
<1>2. PICK w : w = {p \in Producers : tx[p].phase = "unknown"}
  BY Zenon
<1>3. /\ AttemptType' /\ attempt'.pc = "flushing" /\ attempt'.awaited = w
      /\ attempt'.ticket = attempt.ticket /\ attempt'.ids = attempt.ids
  <2>1. attempt' = [attempt EXCEPT !.pc = "flushing", !.awaited = w] /\ w \in SUBSET Producers
    BY <1>2, Zenon DEF StartFlush
  <2>2. "flushing" \in PcState /\ AttemptType
    BY Zenon DEF PcState, TypeOK
  <2>3. QED
    BY <2>1, <2>2, AttemptAwaited, Zenon
<1>4. Target'
  BY <1>3, Zenon DEF Target
<1>5. Ticketed'
  BY <1>1, <1>2, <1>3, Zenon DEF ChargeInv, Ticketed, Storage, ledger
<1>6. attempt'.ids \subseteq life
  BY <1>3, Zenon DEF ChargeInv, Backed
<1>7. QED
  BY <1>1, <1>3, <1>4, <1>5, <1>6, AttemptKeeps, Zenon

LEMMA EndFlushKeeps ==
  ASSUME TypeOK, ChargeInv, EndFlush
  PROVE  TypeOK' /\ ChargeInv'
<1>1. attempt.pc = "flushing" /\ UNCHANGED <<Storage, queue, ledger, life>>
  BY Zenon DEF EndFlush
<1>2. CASE /\ \A p \in attempt.awaited : tx[p].phase # "unknown"
           /\ attempt' = [attempt EXCEPT !.pc = "flushed", !.awaited = {}]
  <2>1. /\ AttemptType' /\ attempt'.pc = "flushed" /\ attempt'.awaited = {}
        /\ attempt'.ticket = attempt.ticket /\ attempt'.ids = attempt.ids
    <3>1. "flushed" \in PcState /\ AttemptType /\ {} \in SUBSET Producers
      BY Zenon DEF PcState, TypeOK
    <3>2. QED
      BY <1>2, <3>1, AttemptAwaited, Zenon
  <2>2. Target'
    BY <2>1, Zenon DEF Target
  <2>3. Ticketed'
    BY <1>1, <1>2, <2>1, Zenon DEF ChargeInv, Ticketed, Storage, ledger
  <2>4. attempt'.ids \subseteq life
    BY <2>1, Zenon DEF ChargeInv, Backed
  <2>5. QED
    BY <1>1, <2>1, <2>2, <2>3, <2>4, AttemptKeeps, Zenon
<1>3. CASE attempt' = NoAttempt
  <2>1. AttemptType' /\ attempt'.ids \subseteq life /\ Target' /\ Ticketed'
    BY <1>3, NoAttemptFields, NoAttemptType, Zenon DEF AttemptType, Target, Ticketed
  <2>2. QED
    BY <1>1, <2>1, AttemptKeeps, Zenon
<1>4. QED
  BY <1>2, <1>3, Zenon DEF EndFlush

LEMMA ReadFlushedKeeps ==
  ASSUME TypeOK, ChargeInv, ReadFlushed
  PROVE  TypeOK' /\ ChargeInv'
<1>1. attempt.pc = "flushed" /\ UNCHANGED <<Storage, queue, ledger, life>>
  BY Zenon DEF ReadFlushed
<1>2. PICK s : s = queue
  BY Zenon
<1>3. /\ AttemptType' /\ attempt'.pc = "read" /\ attempt'.ids = s
      /\ attempt'.ticket = attempt.ticket
  <2>1. attempt' = [attempt EXCEPT !.pc = "read", !.ids = s] /\ s \in SUBSET Ids
    BY <1>2, Zenon DEF ReadFlushed, TypeOK, StorageType
  <2>2. "read" \in PcState /\ AttemptType
    BY Zenon DEF PcState, TypeOK
  <2>3. QED
    BY <2>1, <2>2, AttemptIds, Zenon
<1>4. Target' /\ attempt'.ids \subseteq life
  BY <1>1, <1>2, <1>3, Zenon DEF Target, ChargeInv, Backed
<1>5. Ticketed'
  BY <1>1, <1>2, <1>3, Zenon DEF ChargeInv, Ticketed, Storage, ledger
<1>6. QED
  BY <1>1, <1>3, <1>4, <1>5, AttemptKeeps, Zenon

LEMMA SelectKeeps ==
  ASSUME TypeOK, ChargeInv, Select
  PROVE  TypeOK' /\ ChargeInv'
<1>1. attempt.pc = "classified" /\ UNCHANGED <<Storage, queue, ledger, life>>
  BY Zenon DEF Select
<1>2. CASE attempt' = NoAttempt
  <2>1. AttemptType' /\ attempt'.ids \subseteq life /\ Target' /\ Ticketed'
    BY <1>2, NoAttemptFields, NoAttemptType, Zenon DEF AttemptType, Target, Ticketed
  <2>2. QED
    BY <1>1, <2>1, AttemptKeeps, Zenon
<1>3. CASE \E batch \in (SUBSET queue) \ {{}} : attempt' = [attempt EXCEPT !.pc = "staged", !.ids = batch]
  <2>1. PICK batch \in SUBSET queue : attempt' = [attempt EXCEPT !.pc = "staged", !.ids = batch]
    BY <1>3, Zenon
  <2>2. "staged" \in PcState /\ AttemptType /\ batch \in SUBSET Ids
    BY Zenon DEF PcState, TypeOK, StorageType
  <2>3. AttemptType' /\ attempt'.pc = "staged" /\ attempt'.ids = batch
    BY <2>1, <2>2, AttemptIds, Zenon
  <2>4. attempt'.ids \subseteq life /\ Target' /\ Ticketed'
    BY <1>1, <2>1, <2>3, Zenon DEF ChargeInv, Backed, Target, Ticketed
  <2>5. QED
    BY <1>1, <2>3, <2>4, AttemptKeeps, Zenon
<1>4. QED
  BY <1>2, <1>3, ZenonT(60) DEF Select

(* A reconciliation that has read the queue: the charges its ticket settles,  *)
(* and the enqueues that presence proves.                                     *)
Settles == {id \in Uncertain : marked[id] < attempt.ticket}
Proves == {id \in attempt.ids : charge[id] = "Enqueue"}

LEMMA ReconcileFacts ==
  ASSUME TypeOK, ChargeInv, Reconcile
  PROVE  /\ TypeOK'
         /\ attempt'.pc = "classified" /\ attempt'.ids = {}
         /\ attempt.ids \subseteq Charged
         /\ \A id \in Ids : charge'[id] =
              IF id \in Proves \cup (Settles \cap attempt.ids) THEN "Durable"
              ELSE IF id \in Settles \ attempt.ids THEN None ELSE charge[id]
         /\ outcomes'.committed = outcomes.committed
         /\ outcomes'.discovered = outcomes.discovered + Cardinality(Proves)
         /\ outcomes'.acknowledged = outcomes.acknowledged
              + Cardinality({id \in Settles \ attempt.ids : charge[id] = "Acknowledgement"})
<1>1. /\ attempt.pc = "read" /\ FinishReconciliation(attempt.ticket, attempt.ids)
      /\ UNCHANGED <<Storage, queue, life>>
  BY Zenon DEF Reconcile
<1>2. attempt.ids \in SUBSET Ids
  BY Zenon DEF TypeOK, AttemptType, AttemptRecord
<1>3. attempt.ids \subseteq Charged
  BY <1>1, <1>2, Zenon DEF ChargeInv, Backed, Target, Charged
<1>4. LedgerType'
  <2>1. PICK s, t : s = attempt.ids /\ t = attempt.ticket
    BY Zenon
  <2>2. QED
    BY <1>1, <1>2, <2>1, ReconcileType, Zenon DEF TypeOK
<1>5. AttemptType' /\ attempt'.pc = "classified" /\ attempt'.ids = {}
  <2>1. "classified" \in PcState /\ {} \in SUBSET Ids /\ 0 \in Nat /\ AttemptType
    BY Zenon DEF PcState, TypeOK
  <2>2. attempt' = [attempt EXCEPT !.pc = "classified", !.ids = {}, !.ticket = 0]
    BY Zenon DEF Reconcile
  <2>3. QED
    BY <2>1, <2>2, AttemptSettled, Zenon
<1>6. TypeOK'
  BY <1>1, <1>4, <1>5, Zenon DEF TypeOK, StorageType, TxType, Storage
<1> DEFINE unknown == attempt.ids \ Charged
           proven == {id \in attempt.ids : charge[id] = "Enqueue"}
           settled == {id \in Uncertain : MarkedBefore(id, attempt.ticket)} \ proven
           again == settled \cap attempt.ids
           released == settled \ attempt.ids
           acked == {id \in released : charge[id] = "Acknowledgement"}
<1>7. /\ charge' = [id \in Ids |->
                      IF id \in unknown \cup proven \cup again THEN "Durable"
                      ELSE IF id \in released THEN None ELSE charge[id]]
      /\ outcomes' = [outcomes EXCEPT
                        !.discovered = @ + Cardinality(unknown \cup proven),
                        !.acknowledged = @ + Cardinality(acked)]
  BY <1>1, Zenon DEF FinishReconciliation
<1>8. unknown = {} /\ proven = Proves
  BY <1>3, Zenon DEF Proves
<1>9. /\ unknown \cup proven = Proves
      /\ unknown \cup proven \cup again = Proves \cup (Settles \cap attempt.ids)
      /\ released = Settles \ attempt.ids
      /\ acked = {id \in Settles \ attempt.ids : charge[id] = "Acknowledgement"}
  BY <1>8, Zenon DEF Settles, MarkedBefore
<1>10. Proves \in SUBSET Ids /\ acked \in SUBSET Ids
  BY <1>2, Zenon DEF Proves, Uncertain
<1> HIDE DEF unknown, proven, settled, again, released, acked
<1>11. \A id \in Ids : charge'[id] =
              IF id \in Proves \cup (Settles \cap attempt.ids) THEN "Durable"
              ELSE IF id \in Settles \ attempt.ids THEN None ELSE charge[id]
  BY <1>7, <1>9, Zenon
<1>12. /\ outcomes'.committed = outcomes.committed
       /\ outcomes'.discovered = outcomes.discovered + Cardinality(Proves)
       /\ outcomes'.acknowledged = outcomes.acknowledged + Cardinality(acked)
  <2>1. PICK m, n : m = Cardinality(acked) /\ n = Cardinality(unknown \cup proven)
    BY Zenon
  <2>2. m \in Nat /\ n \in Nat /\ LedgerType
    BY <1>9, <1>10, <2>1, CardNat, Zenon DEF TypeOK
  <2>3. QED
    BY <1>7, <1>9, <2>1, <2>2, CountBothSwapped, ZenonT(60)
<1>13. QED
  BY <1>3, <1>5, <1>6, <1>9, <1>11, <1>12, Zenon

LEMMA ReconcileCharge ==
  ASSUME TypeOK, ChargeInv, Reconcile
  PROVE  ChargeInv'
<1>1. attempt.pc = "read" /\ UNCHANGED <<queue, life, tx, entity>>
  BY Zenon DEF Reconcile, Storage
<1>2. /\ attempt'.pc = "classified" /\ attempt'.ids = {}
      /\ \A id \in Ids : charge'[id] =
           IF id \in Proves \cup (Settles \cap attempt.ids) THEN "Durable"
           ELSE IF id \in Settles \ attempt.ids THEN None ELSE charge[id]
  BY ReconcileFacts, Zenon
<1>3. queue \subseteq life /\ life \subseteq Ids /\ attempt.ids \subseteq queue
  BY <1>1, Zenon DEF ChargeInv, Backed, Target, TypeOK, StorageType
<1>4. /\ \A id \in Settles : charge[id] \in {"Enqueue", "Acknowledgement"} /\ ~(marked[id] >= attempt.ticket)
      /\ \A id \in Proves : charge[id] = "Enqueue" /\ id \in attempt.ids
      /\ Settles \subseteq Ids
  BY DEF Settles, Proves, Uncertain, TypeOK, LedgerType, AttemptType, AttemptRecord
<1>5. Settles \cap queue \subseteq attempt.ids
  BY <1>1, <1>4, Zenon DEF ChargeInv, Ticketed
<1>6. \A p \in Producers : tx[p].phase = "unknown" => tx[p].ids \cap Settles = {}
  BY <1>1, <1>4, Zenon DEF ChargeInv, Ticketed
<1>7. Fresh'
  BY <1>1, <1>2, <1>3, <1>4, Zenon DEF ChargeInv, Fresh
<1>8. Held'
  <2>1. ASSUME NEW p \in Producers, NEW id \in tx[p].ids
        PROVE  /\ tx[p].phase # "idle"
               /\ tx[p].phase = "open" => charge'[id] = "Reserved" /\ id \notin life
               /\ tx[p].phase = "unknown" => charge'[id] = "Enqueue" /\ id \notin life
               /\ tx[p].phase = "landed" => charge'[id] # "Enqueue" /\ id \in life
    <3>1. /\ id \in Ids /\ tx[p].phase # "idle"
          /\ tx[p].phase = "open" => charge[id] = "Reserved" /\ id \notin life
          /\ tx[p].phase = "unknown" => charge[id] = "Enqueue" /\ id \notin life
          /\ tx[p].phase = "landed" => charge[id] # "Enqueue" /\ id \in life
      BY TxFields, Zenon DEF ChargeInv, Held
    <3>2. QED
      BY <3>1, <1>2, <1>3, <1>4, <1>6, NoneAssumption, Zenon DEF ChargeState
  <2>2. QED
    BY <1>1, <2>1, Zenon DEF ChargeInv, Held
<1>9. Backed'
  BY <1>1, <1>2, <1>3, <1>4, <1>5, NoneAssumption, Zenon DEF ChargeInv, Backed, Released, ChargeState
<1>10. Target' /\ Ticketed'
  BY <1>2, Zenon DEF Target, Ticketed
<1>11. QED
  BY <1>7, <1>8, <1>9, <1>10, Zenon DEF ChargeInv

(* The three outcomes of an acknowledgement's commit.                         *)
LEMMA CommitDurable ==
  ASSUME TypeOK, ChargeInv, attempt.pc = "staged", queue' = queue \ attempt.ids,
         attempt' = [attempt EXCEPT !.pc = "acknowledged"], UNCHANGED ledger,
         UNCHANGED <<Storage, life>>
  PROVE  /\ TypeOK' /\ ChargeInv'
         /\ attempt'.pc = "acknowledged" /\ attempt'.ids = attempt.ids
<1>1. AttemptType' /\ attempt'.pc = "acknowledged" /\ attempt'.ids = attempt.ids
  <2>1. "acknowledged" \in PcState /\ AttemptType
    BY Zenon DEF PcState, TypeOK
  <2>2. QED
    BY <2>1, AttemptPc, Zenon
<1>2. TypeOK'
  BY <1>1, Zenon DEF TypeOK, StorageType, LedgerType, TxType, Storage, ledger
<1>3. Fresh' /\ Held'
  BY Zenon DEF ChargeInv, Fresh, Held, Storage, ledger
<1>4. Backed' /\ Target' /\ Ticketed'
  BY <1>1, Zenon DEF ChargeInv, Backed, Target, Ticketed, Released, ledger
<1>5. QED
  BY <1>1, <1>2, <1>3, <1>4, Zenon DEF ChargeInv

LEMMA CommitConflict ==
  ASSUME TypeOK, ChargeInv, attempt.pc = "staged", attempt' = NoAttempt,
         UNCHANGED <<queue, ledger>>, UNCHANGED <<Storage, life>>
  PROVE  TypeOK' /\ ChargeInv'
<1>1. AttemptType' /\ attempt'.ids \subseteq life /\ Target' /\ Ticketed'
  BY NoAttemptFields, NoAttemptType, Zenon DEF AttemptType, Target, Ticketed
<1>2. QED
  BY <1>1, AttemptKeeps, Zenon

LEMMA MarkFacts ==
  ASSUME TypeOK, NEW ids \in SUBSET Ids, MarkAcknowledgementUncertain(ids)
  PROVE  /\ \A id \in Ids : charge'[id] = IF id \in ids /\ charge[id] # None
                                          THEN "Acknowledgement" ELSE charge[id]
         /\ outcomes'.committed = outcomes.committed
         /\ outcomes'.acknowledged = outcomes.acknowledged
         /\ outcomes'.discovered = outcomes.discovered
              + Cardinality({id \in ids : charge[id] = "Enqueue"})
<1>1. \A id \in Ids : charge'[id] = IF id \in ids /\ charge[id] # None
                                    THEN "Acknowledgement" ELSE charge[id]
  BY Zenon DEF MarkAcknowledgementUncertain, SetCharges, Charged
<1>2. {id \in ids \cap Charged : charge[id] = "Enqueue"} = {id \in ids : charge[id] = "Enqueue"}
  BY NoneAssumption, Zenon DEF Charged, ChargeState
<1>3. PICK n : n = Cardinality({id \in ids : charge[id] = "Enqueue"})
  BY Zenon
<1>4. n \in Nat /\ LedgerType
  BY <1>3, CardNat, Zenon DEF TypeOK
<1>5. outcomes' = Count("discovered", n)
  BY <1>2, <1>3, Zenon DEF MarkAcknowledgementUncertain
<1>6. outcomes.committed \in Nat /\ outcomes.acknowledged \in Nat
  BY Zenon DEF TypeOK, LedgerType
<1>7. /\ outcomes'.committed = outcomes.committed + 0
      /\ outcomes'.acknowledged = outcomes.acknowledged + 0
      /\ outcomes'.discovered = outcomes.discovered + n
  BY <1>4, <1>5, CountFacts, Zenon
<1>8. QED
  BY <1>1, <1>3, <1>6, <1>7

LEMMA CommitUncertain ==
  ASSUME TypeOK, ChargeInv, attempt.pc = "staged", queue' \in {queue, queue \ attempt.ids},
         MarkAcknowledgementUncertain(attempt.ids), attempt' = NoAttempt,
         UNCHANGED <<Storage, life>>
  PROVE  TypeOK' /\ ChargeInv'
<1>1. attempt.ids \in SUBSET Ids
  BY Zenon DEF TypeOK, AttemptType, AttemptRecord
<1>2. PICK s : s = attempt.ids
  BY Zenon
<1>3. LedgerType' /\ \A id \in Ids : charge'[id] = IF id \in attempt.ids /\ charge[id] # None
                                                   THEN "Acknowledgement" ELSE charge[id]
  BY <1>1, <1>2, MarkType, MarkFacts, ZenonT(60) DEF TypeOK
<1>4. AttemptType' /\ attempt'.pc = "idle" /\ attempt'.ids = {}
  BY NoAttemptFields, NoAttemptType, Zenon DEF AttemptType
<1>5. TypeOK'
  BY <1>3, <1>4, Zenon DEF TypeOK, StorageType, TxType, Storage
<1>6. queue \subseteq life /\ life \subseteq Ids /\ attempt.ids \subseteq queue
  BY Zenon DEF ChargeInv, Backed, Target, TypeOK, StorageType
<1>7. Fresh'
  BY <1>3, <1>6, Zenon DEF ChargeInv, Fresh, Storage
<1>8. Held'
  <2>1. tx' = tx /\ life' = life
    BY Zenon DEF Storage
  <2>2. \A p \in Producers : \A id \in tx[p].ids : id \in Ids
    BY TxFields, Zenon
  <2>3. QED
    BY <1>3, <1>6, <2>1, <2>2 DEF ChargeInv, Held
<1>9. Backed'
  <2>1. life' = life
    BY Zenon
  <2>2. QED
    BY <1>3, <1>4, <1>6, <2>1, NoneAssumption, Zenon DEF ChargeInv, Backed, Released, ChargeState
<1>10. Target' /\ Ticketed'
  BY <1>4, Zenon DEF Target, Ticketed
<1>11. QED
  BY <1>5, <1>7, <1>8, <1>9, <1>10, Zenon DEF ChargeInv

LEMMA CommitKeeps ==
  ASSUME TypeOK, ChargeInv, CommitAcknowledgement
  PROVE  TypeOK' /\ ChargeInv'
<1>1. attempt.pc = "staged" /\ UNCHANGED <<Storage, life>>
  BY Zenon DEF CommitAcknowledgement
<1>2. CASE /\ queue' = queue \ attempt.ids /\ UNCHANGED ledger
           /\ attempt' = [attempt EXCEPT !.pc = "acknowledged"]
  BY <1>1, <1>2, CommitDurable, Zenon
<1>3. CASE UNCHANGED <<queue, ledger>> /\ attempt' = NoAttempt
  BY <1>1, <1>3, CommitConflict, Zenon
<1>4. CASE /\ queue' \in {queue} \cup (IF attempt.owner = owner THEN {queue \ attempt.ids} ELSE {})
           /\ MarkAcknowledgementUncertain(attempt.ids) /\ attempt' = NoAttempt
  <2>1. queue' \in {queue, queue \ attempt.ids}
    BY <1>4, Zenon
  <2>2. QED
    BY <1>1, <1>4, <2>1, CommitUncertain, Zenon
<1>5. QED
  BY <1>2, <1>3, <1>4, Zenon DEF CommitAcknowledgement

LEMMA AcknowledgeFacts ==
  ASSUME TypeOK, NEW ids \in SUBSET Ids, Acknowledge(ids)
  PROVE  /\ \A id \in Ids : charge'[id] = IF id \in ids THEN None ELSE charge[id]
         /\ outcomes'.committed = outcomes.committed
         /\ outcomes'.acknowledged = outcomes.acknowledged + Cardinality(ids \cap Charged)
         /\ outcomes'.discovered = outcomes.discovered
              + Cardinality({id \in ids : charge[id] = "Enqueue"})
<1>1. \A id \in Ids : charge'[id] = IF id \in ids THEN None ELSE charge[id]
  BY Zenon DEF Acknowledge, SetCharges, Charged
<1>2. {id \in ids \cap Charged : charge[id] = "Enqueue"} = {id \in ids : charge[id] = "Enqueue"}
  BY NoneAssumption, Zenon DEF Charged, ChargeState
<1>3. PICK m, n : m = Cardinality(ids \cap Charged)
                  /\ n = Cardinality({id \in ids : charge[id] = "Enqueue"})
  BY Zenon
<1>4. m \in Nat /\ n \in Nat /\ LedgerType
  BY <1>3, CardNat, Zenon DEF TypeOK
<1>5. outcomes' = [outcomes EXCEPT !.acknowledged = @ + m, !.discovered = @ + n]
  BY <1>2, <1>3, Zenon DEF Acknowledge
<1>6. QED
  BY <1>1, <1>3, <1>4, <1>5, CountBoth, Zenon

LEMMA ReleaseKeeps ==
  ASSUME TypeOK, ChargeInv, ReleaseAcknowledged
  PROVE  TypeOK' /\ ChargeInv'
<1>1. /\ attempt.pc = "acknowledged" /\ Acknowledge(attempt.ids) /\ attempt' = NoAttempt
      /\ UNCHANGED <<Storage, queue, life>>
  BY Zenon DEF ReleaseAcknowledged
<1>2. attempt.ids \in SUBSET Ids
  BY Zenon DEF TypeOK, AttemptType, AttemptRecord
<1>3. LedgerType' /\ \A id \in Ids : charge'[id] = IF id \in attempt.ids THEN None ELSE charge[id]
  BY <1>1, <1>2, AcknowledgeType, AcknowledgeFacts, ZenonT(60) DEF TypeOK
<1>4. AttemptType' /\ attempt'.pc = "idle" /\ attempt'.ids = {}
  BY <1>1, NoAttemptFields, NoAttemptType, Zenon DEF AttemptType
<1>5. TypeOK'
  BY <1>1, <1>3, <1>4, Zenon DEF TypeOK, StorageType, TxType, Storage
<1>6. queue \subseteq life /\ life \subseteq Ids /\ attempt.ids \subseteq life /\ attempt.ids \cap queue = {}
  BY <1>1, Zenon DEF ChargeInv, Backed, Target, TypeOK, StorageType
<1>7. Fresh'
  BY <1>1, <1>3, <1>6, Zenon DEF ChargeInv, Fresh, Storage
<1>8. Held'
  <2>1. tx' = tx /\ life' = life
    BY <1>1, Zenon DEF Storage
  <2>2. \A p \in Producers : \A id \in tx[p].ids : id \in Ids
    BY TxFields, Zenon
  <2>3. QED
    BY <1>3, <1>6, <2>1, <2>2, NoneAssumption DEF ChargeInv, Held, ChargeState
<1>9. Backed'
  BY <1>1, <1>3, <1>4, <1>6, NoneAssumption, Zenon DEF ChargeInv, Backed, Released, ChargeState
<1>10. Target' /\ Ticketed'
  BY <1>4, Zenon DEF Target, Ticketed
<1>11. QED
  BY <1>5, <1>7, <1>8, <1>9, <1>10, Zenon DEF ChargeInv

(* The lifecycle's steps only stale transactions.                             *)
LEMMA StaleKeeps ==
  ASSUME TypeOK, ChargeInv, NEW who, tx' = Stale(who),
         owner' \in OwnerState, blocker' \in Entities \cup {None}, blamed' \in SUBSET Entities,
         UNCHANGED <<live, queue, entity, ledger, attempt, life>>
  PROVE  /\ TypeOK' /\ ChargeInv'
         /\ \A p \in Producers :
              /\ tx'[p].phase = tx[p].phase /\ tx'[p].ids = tx[p].ids
              /\ tx'[p].removes = tx[p].removes /\ (~tx'[p].stale => ~tx[p].stale)
<1>1. /\ TxType'
      /\ \A p \in Producers :
           /\ tx'[p].phase = tx[p].phase /\ tx'[p].ids = tx[p].ids
           /\ tx'[p].removes = tx[p].removes /\ (~tx'[p].stale => ~tx[p].stale)
  <2>1. TxType
    BY Zenon DEF TypeOK
  <2>2. PICK f : f = Stale(who)
    BY Zenon
  <2>3. QED
    BY <2>1, <2>2, StaleFacts DEF TxType
<1>2. TypeOK'
  BY <1>1, Zenon DEF TypeOK, StorageType, LedgerType, AttemptType, ledger
<1>3. \A p \in Producers : tx'[p].phase = tx[p].phase /\ tx'[p].ids = tx[p].ids
  BY <1>1, Zenon
<1>4. Fresh' /\ Held'
  BY <1>3 DEF ChargeInv, Fresh, Held, ledger
<1>5. Backed' /\ Target'
  BY Zenon DEF ChargeInv, Backed, Target, Released, ledger
<1>6. Ticketed'
  BY <1>3, Zenon DEF ChargeInv, Ticketed, ledger
<1>7. QED
  BY <1>1, <1>2, <1>4, <1>5, <1>6, Zenon DEF ChargeInv

LEMMA RewriteKeeps ==
  ASSUME TypeOK, ChargeInv, NEW state \in OwnerState, NEW named \in Entities \cup {None},
         RewriteOperation(state, named)
  PROVE  TypeOK' /\ ChargeInv'
<1>1. /\ owner' \in OwnerState /\ blocker' \in Entities \cup {None} /\ blamed' \in SUBSET Entities
      /\ tx' = Stale({p \in Producers : tx[p].sawBlocker})
      /\ UNCHANGED <<live, queue, entity, ledger, attempt, life>>
  BY Zenon DEF RewriteOperation, TypeOK, StorageType
<1>2. QED
  BY <1>1, StaleKeeps, Zenon

LEMMA RetireKeeps ==
  ASSUME TypeOK, ChargeInv, Retire
  PROVE  TypeOK' /\ ChargeInv'
<1>1. /\ owner' \in OwnerState /\ blocker' \in Entities \cup {None} /\ blamed' \in SUBSET Entities
      /\ tx' = Stale(Producers)
      /\ UNCHANGED <<live, queue, entity, ledger, attempt, life>>
  BY Zenon DEF Retire, TypeOK, StorageType, OwnerState
<1>2. QED
  BY <1>1, StaleKeeps, Zenon

(* Recovery charges what is stored, and nothing else is known.                *)
LEMMA RestartKeeps ==
  ASSUME TypeOK, ChargeInv, Restart
  PROVE  TypeOK' /\ ChargeInv'
<1>1. /\ tx' = [p \in Producers |-> NoTx] /\ attempt' = NoAttempt /\ life' = queue
      /\ charge' = [id \in Ids |-> IF id \in queue THEN "Durable" ELSE None]
      /\ marked' = [id \in Ids |-> 0] /\ clock' = 0
      /\ entity' = [id \in Ids |-> IF id \in queue THEN entity[id] ELSE None]
      /\ UNCHANGED <<owner, blocker, live, queue, blamed>>
  BY Zenon DEF Restart
<1>2. queue \in SUBSET Ids /\ queue \subseteq life
  BY Zenon DEF TypeOK, StorageType, ChargeInv, Backed
<1>3. PICK n : n = Cardinality(queue)
  BY Zenon
<1>4. n \in Nat /\ outcomes' = [committed |-> 0, discovered |-> n, acknowledged |-> 0]
  BY <1>2, <1>3, CardNat, Zenon DEF Restart
<1>5. LedgerType'
  BY <1>1, <1>4, Zenon DEF LedgerType, ChargeState
<1>6. StorageType'
  BY <1>1, <1>2, Zenon DEF TypeOK, StorageType
<1>7. TxType' /\ AttemptType'
  BY <1>1, NoTxType, NoAttemptType, Zenon DEF TxType, AttemptType
<1>8. TypeOK'
  BY <1>5, <1>6, <1>7, Zenon DEF TypeOK
<1>9. /\ \A p \in Producers : tx'[p].ids = {} /\ tx'[p].phase = "idle"
      /\ attempt'.pc = "idle" /\ attempt'.ids = {}
  BY <1>1, NoTxFields, NoAttemptFields, Zenon
<1>10. Fresh'
  BY <1>1, <1>2, <1>9, Zenon DEF ChargeInv, Fresh
<1>11. Held' /\ Target' /\ Ticketed'
  BY <1>9, Zenon DEF Held, Target, Ticketed
<1>12. Backed'
  BY <1>1, <1>2, <1>9, NoneAssumption, Zenon DEF Backed, Released, ChargeState
<1>13. QED
  BY <1>8, <1>10, <1>11, <1>12, Zenon DEF ChargeInv

LEMMA ChargeInit == Init => TypeOK /\ ChargeInv
<1> SUFFICES ASSUME Init PROVE TypeOK /\ ChargeInv
  BY Zenon
<1>1. StorageType
  <2>1. live \in [Entities -> Flag]
    BY Zenon DEF Init, Flag
  <2>2. QED
    BY <2>1, Zenon DEF Init, StorageType, OwnerState
<1>2. TxType /\ AttemptType
  BY NoTxType, NoAttemptType, Zenon DEF Init, TxType, AttemptType
<1>3. LedgerType
  BY Zenon DEF Init, LedgerType
<1>4. /\ \A p \in Producers : tx[p].ids = {} /\ tx[p].phase = "idle"
      /\ attempt.pc = "idle" /\ attempt.ids = {}
      /\ queue = {} /\ life = {} /\ \A id \in Ids : charge[id] = None
  BY NoTxFields, NoAttemptFields, Zenon DEF Init
<1>5. Fresh /\ Held /\ Backed /\ Target /\ Ticketed
  BY <1>4, NoneAssumption, Zenon DEF Fresh, Held, Backed, Target, Ticketed, ChargeState
<1>6. QED
  BY <1>1, <1>2, <1>3, <1>5, Zenon DEF TypeOK, ChargeInv

LEMMA ChargeStep == TypeOK /\ ChargeInv /\ [Next]_vars => TypeOK' /\ ChargeInv'
<1> SUFFICES ASSUME TypeOK, ChargeInv, [Next]_vars PROVE TypeOK' /\ ChargeInv'
  BY Zenon
<1>1. ASSUME NEW p \in Producers, Producing(p) PROVE TypeOK' /\ ChargeInv'
  <2>1. CASE Reserve(p)
    BY <2>1, ReserveFacts, ReserveCharge, Zenon
  <2>2. CASE Abort(p)
    BY <2>2, AbortFacts, AbortCharge, Zenon
  <2>3. CASE Land(p)
    BY <2>3, LandFacts, LandCharge, Zenon
  <2>4. CASE ReturnCommitted(p)
    BY <2>4, CommittedFacts, CommittedCharge, Zenon
  <2>5. CASE ReturnUncertain(p)
    BY <2>5, UncertainFacts, UncertainCharge, Zenon
  <2>6. CASE Lose(p)
    BY <2>6, LoseFacts, LoseCharge, Zenon
  <2>7. QED
    BY <1>1, <2>1, <2>2, <2>3, <2>4, <2>5, <2>6, Zenon DEF Producing
<1>2. CASE Publishing
  BY Zenon, <1>2, BeginKeeps, StartFlushKeeps, EndFlushKeeps, ReadFlushedKeeps, ReconcileFacts,
     ReconcileCharge, SelectKeeps, CommitKeeps, ReleaseKeeps DEF Publishing
<1>3. CASE (\E e \in Entities : Block(e)) \/ Retry \/ Activate
  BY <1>3, RewriteKeeps, Zenon DEF Block, Retry, Activate, OwnerState
<1>4. CASE Retire
  BY <1>4, RetireKeeps, Zenon
<1>5. CASE Restart
  BY <1>5, RestartKeeps, Zenon
<1>6. CASE UNCHANGED vars
  <2>1. TypeOK'
    BY <1>6, Zenon DEF vars, TypeOK, StorageType, LedgerType, TxType, AttemptType
  <2>2. ChargeInv'
    BY <1>6, ZenonT(60) DEF vars, ChargeInv, Fresh, Held, Backed, Target, Ticketed, Released
  <2>3. QED
    BY <2>1, <2>2, Zenon
<1>7. QED
  BY <1>1, <1>2, <1>3, <1>4, <1>5, <1>6, Zenon DEF Next

-----------------------------------------------------------------------------
(* Theorems. *)

(* The inductive invariant holds in every reachable state.                    *)
THEOREM Invariance == Spec => [](TypeOK /\ ChargeInv)
<1>1. Init => TypeOK /\ ChargeInv
  BY ChargeInit, Zenon
<1>2. TypeOK /\ ChargeInv /\ [Next]_vars => TypeOK' /\ ChargeInv'
  BY ChargeStep, Zenon
<1>3. QED
  BY <1>1, <1>2, PTL DEF Spec

(* Every variable keeps its type: the ledger's charges, marks and counters,   *)
(* the stored queue, the transactions and the attempt.                        *)
THEOREM TypeCorrect == Spec => []TypeOK
  BY Invariance, PTL

(* reserve, resolve, acknowledge and reconcile never free a charge whose      *)
(* operation is stored, and settle no charge as durable without one.          *)
THEOREM StoredIsCharged == Spec => []StoredWorkIsCharged
<1>1. TypeOK /\ ChargeInv => StoredWorkIsCharged
  <2> SUFFICES ASSUME TypeOK, ChargeInv PROVE StoredWorkIsCharged
    BY Zenon
  <2>1. queue \subseteq Charged
    BY Zenon DEF ChargeInv, Backed, Charged, TypeOK, StorageType
  <2>2. \A id \in Charged : charge[id] = "Durable" =>
          id \in queue \/ (id \in attempt.ids /\ attempt.pc = "acknowledged")
    BY Zenon DEF ChargeInv, Backed, Released, Charged
  <2>3. QED
    BY <2>1, <2>2, Zenon DEF StoredWorkIsCharged
<1>2. QED
  BY <1>1, Invariance, PTL
=============================================================================
