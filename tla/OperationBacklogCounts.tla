------------------------ MODULE OperationBacklogCounts ------------------------
(* What OperationBacklog counts: OutcomesAreExact, of LedgerOutcomes, and     *)
(* LimitsHold, of max_retained_bytes and max_members.                         *)
EXTENDS OperationBacklogProofs

-----------------------------------------------------------------------------
(* Outcomes: the counters are the sizes of two sets of operations, and every  *)
(* step that adds to one of the sets counts what it adds.                     *)

(* Durable operations whose producer or reconciliation has reported them.     *)
Known == {id \in life : id \notin InFlight /\ charge[id] # "Enqueue"}
(* Durable operations whose acknowledgement has been proved.                  *)
Acked == (life \ queue) \ Charged

LEMMA KnownMember ==
  ASSUME NEW id
  PROVE  /\ id \in Known <=> /\ id \in life /\ charge[id] # "Enqueue"
                             /\ \A p \in Producers : tx[p].phase \in {"open", "landed"} => id \notin tx[p].ids
         /\ id \in Known' <=> /\ id \in life' /\ charge'[id] # "Enqueue"
                              /\ \A p \in Producers : tx'[p].phase \in {"open", "landed"} => id \notin tx'[p].ids
  BY Zenon DEF Known, InFlight

LEMMA AckedMember ==
  ASSUME NEW id \in Ids
  PROVE  /\ id \in Acked <=> id \in life /\ id \notin queue /\ charge[id] = None
         /\ id \in Acked' <=> id \in life' /\ id \notin queue' /\ charge'[id] = None
  BY Zenon DEF Acked, Charged

LEMMA KnownType ==
  ASSUME TypeOK
  PROVE  Known \in SUBSET Ids /\ Acked \in SUBSET Ids
  BY Zenon DEF Known, Acked, TypeOK, StorageType

(* A step that reports K and acknowledges A counts them.                      *)
LEMMA Counted ==
  ASSUME TypeOK, OutcomesAreExact, NEW K \in SUBSET Ids, NEW A \in SUBSET Ids,
         \A id \in Ids : id \in Known' <=> id \in Known \/ id \in K,
         \A id \in Ids : id \in Acked' <=> id \in Acked \/ id \in A,
         Known \cap K = {}, Acked \cap A = {}, TypeOK',
         outcomes'.committed + outcomes'.discovered
           = outcomes.committed + outcomes.discovered + Cardinality(K),
         outcomes'.acknowledged = outcomes.acknowledged + Cardinality(A)
  PROVE  OutcomesAreExact'
<1>1. Known \in SUBSET Ids /\ Acked \in SUBSET Ids
  BY KnownType, Zenon
<1>2. Known' \in SUBSET Ids /\ Acked' \in SUBSET Ids
  BY ZenonT(60) DEF Known, Acked, TypeOK, StorageType
<1>3. Known' = Known \cup K /\ Acked' = Acked \cup A
  BY <1>1, <1>2, Zenon
<1>4. /\ Cardinality(Known') = Cardinality(Known) + Cardinality(K)
      /\ Cardinality(Acked') = Cardinality(Acked) + Cardinality(A)
  BY <1>1, <1>3, CardJoin, Zenon
<1>5. /\ outcomes.committed + outcomes.discovered = Cardinality(Known)
      /\ outcomes.acknowledged = Cardinality(Acked)
  BY ZenonT(60) DEF OutcomesAreExact, Known, Acked
<1>6. /\ outcomes'.committed + outcomes'.discovered = Cardinality(Known')
      /\ outcomes'.acknowledged = Cardinality(Acked')
  BY <1>4, <1>5, Zenon
<1>7. QED
  BY <1>6, Zenon DEF OutcomesAreExact, Known, Acked

LEMMA NotCounted ==
  ASSUME TypeOK, OutcomesAreExact, TypeOK', outcomes' = outcomes,
         \A id \in Ids : id \in Known' <=> id \in Known,
         \A id \in Ids : id \in Acked' <=> id \in Acked
  PROVE  OutcomesAreExact'
<1>1. {} \in SUBSET Ids /\ Cardinality({}) = 0
  BY FS_EmptySet, Zenon
<1>2. outcomes.committed \in Nat /\ outcomes.discovered \in Nat /\ outcomes.acknowledged \in Nat
  BY Zenon DEF TypeOK, LedgerType
<1>3. QED
  BY <1>1, <1>2, Counted

LEMMA ReserveOutcomes ==
  ASSUME TypeOK, ChargeInv, OutcomesAreExact, NEW p \in Producers, Reserve(p)
  PROVE  OutcomesAreExact'
<1>1. TypeOK' /\ UNCHANGED <<queue, outcomes, life>>
  BY ReserveFacts, Zenon DEF Reserve
<1>2. PICK es, removes, ids : Admitted(p, es, removes, ids)
  BY ReserveFacts, Zenon
<1>3. /\ ids \in SUBSET Ids /\ tx'[p].ids = ids
      /\ \A id \in Ids : charge'[id] = IF id \in ids THEN "Reserved" ELSE charge[id]
      /\ \A q \in Producers \ {p} : tx'[q] = tx[q]
      /\ \A id \in ids : charge[id] = None /\ id \notin life
  BY <1>2, ZenonT(60) DEF Admitted, ChargeInv, Fresh
<1>4. tx[p].phase = "idle"
  BY ZenonT(60) DEF Reserve
<1>5. \A id \in Ids : id \in Known' <=> id \in Known
  BY <1>1, <1>3, <1>4, KnownMember, Zenon
<1>6. \A id \in Ids : id \in Acked' <=> id \in Acked
  BY <1>1, <1>3, AckedMember, Zenon
<1>7. QED
  BY <1>1, <1>5, <1>6, NotCounted, Zenon

LEMMA AbortOutcomes ==
  ASSUME TypeOK, ChargeInv, OutcomesAreExact, NEW p \in Producers, Abort(p)
  PROVE  OutcomesAreExact'
<1>1. TypeOK' /\ UNCHANGED <<queue, outcomes, life>> /\ tx[p].phase = "open"
  BY AbortFacts, ZenonT(60) DEF Abort, ResolveAborted
<1>2. /\ tx'[p].phase = "idle" /\ tx'[p].ids = {}
      /\ \A q \in Producers \ {p} : tx'[q] = tx[q]
      /\ \A id \in Ids : charge'[id] = IF id \in tx[p].ids THEN None ELSE charge[id]
  BY AbortFacts, NoTxFields, Zenon
<1>3. \A id \in tx[p].ids : id \notin life
  BY <1>1, Zenon DEF ChargeInv, Held
<1>4. \A id \in Ids : id \in Known' <=> id \in Known
  BY <1>1, <1>2, <1>3, KnownMember, Zenon
<1>5. \A id \in Ids : id \in Acked' <=> id \in Acked
  BY <1>1, <1>2, <1>3, AckedMember, Zenon
<1>6. QED
  BY <1>1, <1>4, <1>5, NotCounted, Zenon

LEMMA LandOutcomes ==
  ASSUME TypeOK, ChargeInv, OutcomesAreExact, NEW p \in Producers, Land(p)
  PROVE  OutcomesAreExact'
<1>1. /\ TypeOK' /\ tx[p].phase \in {"open", "unknown"}
      /\ queue' = queue \cup tx[p].ids /\ life' = life \cup tx[p].ids
      /\ UNCHANGED <<charge, outcomes>>
  BY LandFacts, ZenonT(60) DEF Land, ledger
<1>2. /\ tx[p].phase = "unknown" => tx'[p].phase = "idle" /\ tx'[p].ids = {}
      /\ tx[p].phase = "open" => tx'[p].phase = "landed" /\ tx'[p].ids = tx[p].ids
      /\ \A q \in Producers \ {p} : tx'[q].phase = tx[q].phase /\ tx'[q].ids = tx[q].ids
  BY LandFacts, NoTxFields, Zenon
<1>3. \A id \in tx[p].ids : /\ id \notin life
                            /\ tx[p].phase = "unknown" => charge[id] = "Enqueue"
  BY <1>1, Zenon DEF ChargeInv, Held
<1>4. ASSUME NEW id \in Ids PROVE id \in Known' <=> id \in Known
  BY <1>1, <1>2, <1>3, KnownMember, Zenon
<1>5. \A id \in Ids : id \in Acked' <=> id \in Acked
  BY <1>1, <1>3, AckedMember, Zenon
<1>6. QED
  BY <1>1, <1>4, <1>5, NotCounted, Zenon

LEMMA LoseOutcomes ==
  ASSUME TypeOK, ChargeInv, OutcomesAreExact, NEW p \in Producers, Lose(p)
  PROVE  OutcomesAreExact'
<1>1. /\ TypeOK' /\ tx[p].phase = "unknown" /\ UNCHANGED <<queue, life, charge, outcomes>>
      /\ tx'[p].phase = "idle" /\ tx'[p].ids = {} /\ \A q \in Producers \ {p} : tx'[q] = tx[q]
  BY LoseFacts, NoTxFields, ZenonT(60) DEF Lose, ledger
<1>2. \A id \in Ids : id \in Known' <=> id \in Known
  BY <1>1, KnownMember, Zenon
<1>3. \A id \in Ids : id \in Acked' <=> id \in Acked
  BY <1>1, AckedMember, Zenon
<1>4. QED
  BY <1>1, <1>2, <1>3, NotCounted, Zenon

(* A commit that returns reports all its operations.                          *)
LEMMA CommittedOutcomes ==
  ASSUME TypeOK, ChargeInv, OutcomesAreExact, NEW p \in Producers, ReturnCommitted(p)
  PROVE  OutcomesAreExact'
<1>1. TypeOK' /\ tx[p].phase = "landed" /\ UNCHANGED <<queue, life>>
  BY CommittedFacts, ZenonT(60) DEF ReturnCommitted
<1>2. /\ tx'[p].phase = "idle" /\ tx'[p].ids = {}
      /\ \A q \in Producers \ {p} : tx'[q] = tx[q]
      /\ \A id \in Ids : charge'[id] = IF id \in tx[p].ids /\ charge[id] = "Reserved"
                                       THEN "Durable" ELSE charge[id]
  BY CommittedFacts, NoTxFields, Zenon
<1>3. PICK K : K = tx[p].ids
  BY Zenon
<1>4. \A id \in K : /\ id \in life /\ charge[id] # "Enqueue"
                    /\ \A q \in Producers \ {p} : id \notin tx[q].ids
  BY <1>1, <1>3, Zenon DEF ChargeInv, Held
<1>5. K \in SUBSET Ids
  BY <1>3, TxFields, Zenon
<1>6. ASSUME NEW id \in Ids
      PROVE  (id \in Known' <=> id \in Known \/ id \in K) /\ ~(id \in Known /\ id \in K)
  BY <1>1, <1>2, <1>3, <1>4, KnownMember
<1>7. \A id \in Ids : id \in Acked' <=> id \in Acked
  BY <1>1, <1>2, NoneAssumption, AckedMember, Zenon DEF ChargeState
<1>8. /\ outcomes'.committed = outcomes.committed + Cardinality(K)
      /\ outcomes'.discovered = outcomes.discovered
      /\ outcomes'.acknowledged = outcomes.acknowledged
  <2>1. PICK n : n = Cardinality(K)
    BY Zenon
  <2>2. n \in Nat /\ LedgerType /\ outcomes.discovered \in Nat /\ outcomes.acknowledged \in Nat
    BY <1>5, <2>1, CardNat, Zenon DEF TypeOK, LedgerType
  <2>3. outcomes' = Count("committed", n)
    BY <1>3, <2>1, Zenon DEF ReturnCommitted, ResolveCommitted
  <2>4. /\ outcomes'.committed = outcomes.committed + n
        /\ outcomes'.discovered = outcomes.discovered + 0
        /\ outcomes'.acknowledged = outcomes.acknowledged + 0
    BY <2>2, <2>3, CountFacts, Zenon
  <2>5. QED
    BY <2>1, <2>2, <2>4
<1>9. {} \in SUBSET Ids /\ Cardinality({}) = 0 /\ Cardinality(K) \in Nat
      /\ outcomes.committed \in Nat /\ outcomes.discovered \in Nat /\ outcomes.acknowledged \in Nat
  BY <1>5, CardNat, FS_EmptySet, Zenon DEF TypeOK, LedgerType
<1>10. Known \cap K = {}
  BY <1>5, <1>6, Zenon
<1>11. outcomes'.committed + outcomes'.discovered
           = outcomes.committed + outcomes.discovered + Cardinality(K)
       /\ outcomes'.acknowledged = outcomes.acknowledged + Cardinality({})
  BY <1>8, <1>9
<1>12. QED
  BY <1>1, <1>5, <1>6, <1>7, <1>9, <1>10, <1>11, Counted, Zenon

(* A commit without an outcome reports what publication has acknowledged, or  *)
(* tried to, meanwhile.                                                       *)
LEMMA UncertainOutcomes ==
  ASSUME TypeOK, ChargeInv, OutcomesAreExact, NEW p \in Producers, ReturnUncertain(p)
  PROVE  OutcomesAreExact'
<1>1. TypeOK' /\ tx[p].phase \in {"open", "landed"} /\ UNCHANGED <<queue, life>>
  BY UncertainFacts, Zenon DEF ReturnUncertain
<1>2. /\ tx[p].phase = "landed" => tx'[p].phase = "idle" /\ tx'[p].ids = {}
      /\ tx[p].phase = "open" => tx'[p].phase = "unknown" /\ tx'[p].ids = tx[p].ids
      /\ \A q \in Producers \ {p} : tx'[q] = tx[q]
      /\ \A id \in Ids : charge'[id] = IF id \in tx[p].ids /\ charge[id] = "Reserved"
                                       THEN "Enqueue" ELSE charge[id]
  BY UncertainFacts, NoTxFields, ZenonT(60)
<1>3. PICK K : K = tx[p].ids \ {id \in tx[p].ids : charge[id] = "Reserved"}
  BY ZenonT(60)
<1>4. \A id \in tx[p].ids :
         /\ tx[p].phase = "open" => charge[id] = "Reserved" /\ id \notin life
         /\ tx[p].phase = "landed" => charge[id] # "Enqueue" /\ id \in life
         /\ \A q \in Producers \ {p} : id \notin tx[q].ids
  BY <1>1, Zenon DEF ChargeInv, Held
<1>5. K \in SUBSET Ids
  BY <1>3, TxFields, ZenonT(60)
<1>6. \A id \in Ids : id \in K <=> id \in tx[p].ids /\ charge[id] # "Reserved"
  BY <1>3, Zenon
<1>7. ASSUME NEW id \in Ids
      PROVE  (id \in Known' <=> id \in Known \/ id \in K) /\ ~(id \in Known /\ id \in K)
  <2>1. CASE id \in tx[p].ids /\ tx[p].phase = "open"
    BY <1>1, <1>2, <1>4, <1>6, <2>1, KnownMember, ZenonT(60)
  <2>2. CASE id \in tx[p].ids /\ tx[p].phase = "landed"
    BY <1>1, <1>2, <1>4, <1>6, <2>2, KnownMember
  <2>3. CASE id \notin tx[p].ids
    BY <1>1, <1>2, <1>6, <2>3, KnownMember, Zenon
  <2>4. QED
    BY <1>1, <2>1, <2>2, <2>3, Zenon
<1>8. \A id \in Ids : id \in Acked' <=> id \in Acked
  BY <1>1, <1>2, NoneAssumption, AckedMember, Zenon DEF ChargeState
<1>9. PICK n : n = Cardinality(K)
  BY Zenon
<1>10. n \in Nat /\ LedgerType /\ {} \in SUBSET Ids /\ Cardinality({}) = 0
       /\ outcomes.committed \in Nat /\ outcomes.discovered \in Nat /\ outcomes.acknowledged \in Nat
  BY <1>5, <1>9, CardNat, FS_EmptySet, Zenon DEF TypeOK, LedgerType
<1>11. outcomes' = Count("discovered", n)
  BY <1>3, <1>9, Zenon DEF ReturnUncertain, ResolveUncertain
<1>12. /\ outcomes'.committed = outcomes.committed + 0
       /\ outcomes'.discovered = outcomes.discovered + n
       /\ outcomes'.acknowledged = outcomes.acknowledged + 0
  BY <1>10, <1>11, CountFacts, Zenon
<1>13. Known \cap K = {}
  BY <1>5, <1>7, Zenon
<1>14. outcomes'.committed + outcomes'.discovered
           = outcomes.committed + outcomes.discovered + Cardinality(K)
       /\ outcomes'.acknowledged = outcomes.acknowledged + Cardinality({})
  BY <1>9, <1>10, <1>12
<1>15. QED
  BY <1>1, <1>5, <1>7, <1>8, <1>10, <1>13, <1>14, Counted, Zenon

(* What presence proves is reported; an acknowledgement is proved by the      *)
(* absence of its operation.                                                  *)
LEMMA ReconcileOutcomes ==
  ASSUME TypeOK, ChargeInv, OutcomesAreExact, Reconcile
  PROVE  OutcomesAreExact'
<1>1. TypeOK' /\ attempt.pc = "read" /\ UNCHANGED <<queue, life, tx>>
  BY ReconcileFacts, Zenon DEF Reconcile, Storage
<1>2. \A id \in Ids : charge'[id] =
           IF id \in Proves \cup (Settles \cap attempt.ids) THEN "Durable"
           ELSE IF id \in Settles \ attempt.ids THEN None ELSE charge[id]
  BY ReconcileFacts, Zenon
<1>3. queue \subseteq life /\ life \subseteq Ids /\ attempt.ids \subseteq queue
  BY <1>1, Zenon DEF ChargeInv, Backed, Target, TypeOK, StorageType
<1>4. /\ \A id \in Settles : charge[id] \in {"Enqueue", "Acknowledgement"} /\ ~(marked[id] >= attempt.ticket)
      /\ Settles \subseteq Ids
  BY DEF Settles, Uncertain, TypeOK, LedgerType, AttemptType, AttemptRecord
<1>5. Settles \cap queue \subseteq attempt.ids
  BY <1>1, <1>4, Zenon DEF ChargeInv, Ticketed
<1>6. \A id \in life : charge[id] = "Enqueue" => id \in queue
  BY <1>1, Zenon DEF ChargeInv, Backed, Released
<1>7. \A id \in Settles : charge[id] = "Acknowledgement" => id \in life
  BY <1>4, Zenon DEF ChargeInv, Backed
<1>8. PICK K, A : K = Proves /\ A = {id \in Settles \ attempt.ids : charge[id] = "Acknowledgement"}
  BY Zenon
<1>9. /\ K \in SUBSET Ids /\ A \in SUBSET Ids
      /\ \A id \in Ids : id \in K <=> id \in attempt.ids /\ charge[id] = "Enqueue"
  BY <1>3, <1>4, <1>8, Zenon DEF Proves
<1>10. \A id \in K : \A p \in Producers : tx[p].phase \in {"open", "landed"} => id \notin tx[p].ids
  BY <1>9, Zenon DEF ChargeInv, Held
<1>11. ASSUME NEW id \in Ids
       PROVE  (id \in Known' <=> id \in Known \/ id \in K) /\ ~(id \in Known /\ id \in K)
  <2>1. CASE id \in K
    BY <1>1, <1>2, <1>3, <1>8, <1>9, <1>10, <2>1, KnownMember, ZenonT(60)
  <2>2. CASE id \notin K
    <3>1. id \in life => (charge'[id] = "Enqueue" <=> charge[id] = "Enqueue")
      BY <1>2, <1>3, <1>4, <1>5, <1>6, <1>8, <1>9, <2>2, NoneAssumption, Zenon DEF ChargeState
    <3>2. QED
      BY <1>1, <2>2, <3>1, KnownMember, ZenonT(60)
  <2>3. QED
    BY <2>1, <2>2, Zenon
<1>12. ASSUME NEW id \in Ids
       PROVE  (id \in Acked' <=> id \in Acked \/ id \in A) /\ ~(id \in Acked /\ id \in A)
  <2>1. id \in A => id \in life /\ id \notin queue /\ charge[id] # None /\ charge'[id] = None
    BY <1>2, <1>4, <1>5, <1>7, <1>8, <1>9, NoneAssumption, Zenon DEF ChargeState
  <2>2. id \notin A /\ id \in life /\ id \notin queue => (charge'[id] = None <=> charge[id] = None)
    BY <1>2, <1>3, <1>4, <1>6, <1>8, <1>9, NoneAssumption, Zenon DEF ChargeState
  <2>3. QED
    BY <1>1, <2>1, <2>2, AckedMember, Zenon
<1>13. /\ outcomes'.committed = outcomes.committed
       /\ outcomes'.discovered = outcomes.discovered + Cardinality(K)
       /\ outcomes'.acknowledged = outcomes.acknowledged + Cardinality(A)
  BY <1>8, ReconcileFacts, Zenon
<1>14. Cardinality(K) \in Nat /\ outcomes.committed \in Nat /\ outcomes.discovered \in Nat
  BY <1>9, CardNat, Zenon DEF TypeOK, LedgerType
<1>15. outcomes'.committed + outcomes'.discovered
           = outcomes.committed + outcomes.discovered + Cardinality(K)
  BY <1>13, <1>14
<1>16. Known \cap K = {} /\ Acked \cap A = {}
  BY <1>9, <1>11, <1>12, ZenonT(60)
<1>17. QED
  BY <1>1, <1>9, <1>11, <1>12, <1>13, <1>15, <1>16, Counted, Zenon

(* Acknowledging, or trying to, reports an enqueue that had no outcome.       *)
LEMMA ReleaseOutcomes ==
  ASSUME TypeOK, ChargeInv, OutcomesAreExact, ReleaseAcknowledged
  PROVE  OutcomesAreExact'
<1>1. /\ TypeOK' /\ attempt.pc = "acknowledged" /\ Acknowledge(attempt.ids)
      /\ UNCHANGED <<queue, life, tx>>
  BY ReleaseKeeps, Zenon DEF ReleaseAcknowledged, Storage
<1>2. attempt.ids \in SUBSET Ids /\ attempt.ids \subseteq life /\ attempt.ids \cap queue = {}
  BY <1>1, Zenon DEF TypeOK, AttemptType, AttemptRecord, ChargeInv, Backed, Target
<1>3. PICK K, A : K = {id \in attempt.ids : charge[id] = "Enqueue"} /\ A = attempt.ids \cap Charged
  BY Zenon
<1>4. /\ \A id \in Ids : charge'[id] = IF id \in attempt.ids THEN None ELSE charge[id]
      /\ outcomes'.committed = outcomes.committed
      /\ outcomes'.acknowledged = outcomes.acknowledged + Cardinality(A)
      /\ outcomes'.discovered = outcomes.discovered + Cardinality(K)
  BY <1>1, <1>2, <1>3, AcknowledgeFacts, ZenonT(60)
<1>5. /\ K \in SUBSET Ids /\ A \in SUBSET Ids
      /\ \A id \in Ids : id \in K <=> id \in attempt.ids /\ charge[id] = "Enqueue"
      /\ \A id \in Ids : id \in A <=> id \in attempt.ids /\ charge[id] # None
  BY <1>2, <1>3, Zenon DEF Charged
<1>6. \A id \in K : \A p \in Producers : tx[p].phase \in {"open", "landed"} => id \notin tx[p].ids
  BY <1>5, Zenon DEF ChargeInv, Held
<1>7. ASSUME NEW id \in Ids
      PROVE  (id \in Known' <=> id \in Known \/ id \in K) /\ ~(id \in Known /\ id \in K)
  <2>1. CASE id \in K
    BY <1>1, <1>2, <1>4, <1>5, <1>6, <2>1, NoneAssumption, KnownMember, Zenon DEF ChargeState
  <2>2. CASE id \notin K
    <3>1. charge'[id] = "Enqueue" <=> charge[id] = "Enqueue"
      BY <1>4, <1>5, <2>2, NoneAssumption, Zenon DEF ChargeState
    <3>2. QED
      BY <1>1, <2>2, <3>1, KnownMember, Zenon
  <2>3. QED
    BY <2>1, <2>2, Zenon
<1>8. ASSUME NEW id \in Ids
      PROVE  (id \in Acked' <=> id \in Acked \/ id \in A) /\ ~(id \in Acked /\ id \in A)
  BY <1>1, <1>2, <1>4, <1>5, AckedMember, Zenon
<1>9. Cardinality(K) \in Nat /\ outcomes.committed \in Nat /\ outcomes.discovered \in Nat
  BY <1>5, CardNat, Zenon DEF TypeOK, LedgerType
<1>10. outcomes'.committed + outcomes'.discovered
           = outcomes.committed + outcomes.discovered + Cardinality(K)
  BY <1>4, <1>9
<1>11. Known \cap K = {} /\ Acked \cap A = {}
  BY <1>5, <1>7, <1>8, Zenon
<1>12. QED
  BY <1>1, <1>4, <1>5, <1>7, <1>8, <1>10, <1>11, Counted, ZenonT(60)

LEMMA MarkOutcomes ==
  ASSUME TypeOK, ChargeInv, OutcomesAreExact, TypeOK', attempt.pc = "staged",
         queue' \in {queue, queue \ attempt.ids}, MarkAcknowledgementUncertain(attempt.ids),
         UNCHANGED <<life, tx>>
  PROVE  OutcomesAreExact'
<1>1. attempt.ids \in SUBSET Ids /\ attempt.ids \subseteq queue /\ queue \subseteq life
  BY Zenon DEF TypeOK, AttemptType, AttemptRecord, ChargeInv, Backed, Target
<1>2. \A id \in queue : charge[id] # None
  BY Zenon DEF ChargeInv, Backed
<1>3. PICK K : K = {id \in attempt.ids : charge[id] = "Enqueue"}
  BY ZenonT(60)
<1>4. /\ \A id \in Ids : charge'[id] = IF id \in attempt.ids /\ charge[id] # None
                                       THEN "Acknowledgement" ELSE charge[id]
      /\ outcomes'.committed = outcomes.committed
      /\ outcomes'.acknowledged = outcomes.acknowledged
      /\ outcomes'.discovered = outcomes.discovered + Cardinality(K)
  BY <1>1, <1>3, MarkFacts, Zenon
<1>5. /\ K \in SUBSET Ids
      /\ \A id \in Ids : id \in K <=> id \in attempt.ids /\ charge[id] = "Enqueue"
  BY <1>1, <1>3, ZenonT(60)
<1>6. \A id \in K : \A p \in Producers : tx[p].phase \in {"open", "landed"} => id \notin tx[p].ids
  BY <1>5, Zenon DEF ChargeInv, Held
<1>7. ASSUME NEW id \in Ids
      PROVE  (id \in Known' <=> id \in Known \/ id \in K) /\ ~(id \in Known /\ id \in K)
  <2>1. CASE id \in K
    BY <1>1, <1>2, <1>4, <1>5, <1>6, <2>1, KnownMember, ZenonT(60)
  <2>2. CASE id \notin K
    <3>1. charge'[id] = "Enqueue" <=> charge[id] = "Enqueue"
      BY <1>1, <1>2, <1>4, <1>5, <2>2, Zenon
    <3>2. QED
      BY <2>2, <3>1, KnownMember, ZenonT(60)
  <2>3. QED
    BY <2>1, <2>2, Zenon
<1>8. ASSUME NEW id \in Ids PROVE id \in Acked' <=> id \in Acked
  BY <1>1, <1>2, <1>4, NoneAssumption, AckedMember, Zenon DEF ChargeState
<1>9. Cardinality(K) \in Nat /\ {} \in SUBSET Ids /\ Cardinality({}) = 0
      /\ outcomes.committed \in Nat /\ outcomes.discovered \in Nat /\ outcomes.acknowledged \in Nat
  BY <1>5, CardNat, FS_EmptySet, Zenon DEF TypeOK, LedgerType
<1>10. /\ outcomes'.committed + outcomes'.discovered
           = outcomes.committed + outcomes.discovered + Cardinality(K)
       /\ outcomes'.acknowledged = outcomes.acknowledged + Cardinality({})
  BY <1>4, <1>9
<1>11. Known \cap K = {}
  BY <1>5, <1>7, Zenon
<1>12. QED
  BY <1>5, <1>7, <1>8, <1>9, <1>10, <1>11, Counted

LEMMA CommitOutcomes ==
  ASSUME TypeOK, ChargeInv, OutcomesAreExact, CommitAcknowledgement
  PROVE  OutcomesAreExact'
<1>1. TypeOK' /\ attempt.pc = "staged" /\ UNCHANGED <<life, tx>>
  BY CommitKeeps, Zenon DEF CommitAcknowledgement, Storage
<1>2. CASE queue' = queue \ attempt.ids /\ UNCHANGED ledger
  <2>1. attempt.ids \subseteq queue /\ \A id \in queue : charge[id] # None
    BY <1>1, Zenon DEF ChargeInv, Target, Backed
  <2>2. charge' = charge /\ outcomes' = outcomes
    BY <1>2, Zenon DEF ledger
  <2>3. \A id \in Ids : id \in Known' <=> id \in Known
    BY <1>1, <2>2, KnownMember, Zenon
  <2>4. \A id \in Ids : id \in Acked' <=> id \in Acked
    BY <1>1, <1>2, <2>1, <2>2, AckedMember, Zenon
  <2>5. QED
    BY <1>1, <2>2, <2>3, <2>4, NotCounted, Zenon
<1>3. CASE UNCHANGED <<queue, ledger>>
  <2>1. \A id \in Ids : id \in Known' <=> id \in Known
    BY <1>1, <1>3, KnownMember, Zenon DEF ledger
  <2>2. \A id \in Ids : id \in Acked' <=> id \in Acked
    BY <1>1, <1>3, AckedMember, Zenon DEF ledger
  <2>3. outcomes' = outcomes
    BY <1>3, Zenon DEF ledger
  <2>4. QED
    BY <1>1, <2>1, <2>2, <2>3, NotCounted, Zenon
<1>4. CASE /\ queue' \in {queue} \cup (IF attempt.owner = owner THEN {queue \ attempt.ids} ELSE {})
           /\ MarkAcknowledgementUncertain(attempt.ids)
  <2>1. queue' \in {queue, queue \ attempt.ids}
    BY <1>4, Zenon
  <2>2. QED
    BY <1>1, <1>4, <2>1, MarkOutcomes, Zenon
<1>5. QED
  BY <1>2, <1>3, <1>4, Zenon DEF CommitAcknowledgement

(* A step that leaves storage, charges and the transactions' IDs and phases.  *)
LEMMA QuietOutcomes ==
  ASSUME TypeOK, TypeOK', OutcomesAreExact, UNCHANGED <<queue, life, charge, outcomes>>,
         \A p \in Producers : tx'[p].phase = tx[p].phase /\ tx'[p].ids = tx[p].ids
  PROVE  OutcomesAreExact'
<1>1. \A id \in Ids : id \in Known' <=> id \in Known
  BY KnownMember, Zenon
<1>2. \A id \in Ids : id \in Acked' <=> id \in Acked
  BY AckedMember, Zenon
<1>3. QED
  BY <1>1, <1>2, NotCounted, Zenon

LEMMA RestartOutcomes ==
  ASSUME TypeOK, ChargeInv, Restart
  PROVE  OutcomesAreExact'
<1>1. /\ tx' = [p \in Producers |-> NoTx] /\ life' = queue /\ queue' = queue
      /\ charge' = [id \in Ids |-> IF id \in queue THEN "Durable" ELSE None]
      /\ outcomes' = [committed |-> 0, discovered |-> Cardinality(queue), acknowledged |-> 0]
  BY Zenon DEF Restart
<1>2. queue \in SUBSET Ids /\ TypeOK'
  BY RestartKeeps, Zenon DEF TypeOK, StorageType
<1>3. \A p \in Producers : tx'[p].ids = {}
  BY <1>1, NoTxFields, Zenon
<1>4. Known' = queue
  <2>1. Known' \in SUBSET Ids
    BY <1>2, Zenon DEF Known, TypeOK, StorageType
  <2>2. \A id \in Ids : id \in Known' <=> id \in queue
    BY <1>1, <1>2, <1>3, KnownMember, ZenonT(60)
  <2>3. QED
    BY <1>2, <2>1, <2>2, Zenon
<1>5. Acked' = {}
  BY <1>1, Zenon DEF Acked
<1>6. Cardinality(queue) \in Nat /\ Cardinality({}) = 0
  BY <1>2, CardNat, FS_EmptySet, Zenon
<1>7. PICK n : n = Cardinality(queue)
  BY Zenon
<1>8. outcomes' = [committed |-> 0, discovered |-> n, acknowledged |-> 0]
  BY <1>1, <1>7, Zenon
<1>9. outcomes'.committed + outcomes'.discovered = n /\ outcomes'.acknowledged = 0
  BY <1>6, <1>7, <1>8
<1>10. Cardinality(Known') = n /\ Cardinality(Acked') = 0
  BY <1>4, <1>5, <1>6, <1>7, Zenon
<1>11. QED
  BY <1>9, <1>10, Zenon DEF OutcomesAreExact, Known, Acked

LEMMA OutcomeInit == Init => OutcomesAreExact
<1> SUFFICES ASSUME Init PROVE OutcomesAreExact
  BY Zenon
<1>1. life = {} /\ Known = {} /\ Acked = {}
  BY Zenon DEF Init, Known, Acked
<1>2. Cardinality({}) = 0
  BY FS_EmptySet, Zenon
<1>3. outcomes.committed + outcomes.discovered = 0 /\ outcomes.acknowledged = 0
  BY DEF Init
<1>4. QED
  BY <1>1, <1>2, <1>3, Zenon DEF OutcomesAreExact, Known, Acked

LEMMA OutcomeStep ==
  TypeOK /\ ChargeInv /\ OutcomesAreExact /\ [Next]_vars => OutcomesAreExact'
<1> SUFFICES ASSUME TypeOK, ChargeInv, OutcomesAreExact, [Next]_vars PROVE OutcomesAreExact'
  BY Zenon
<1>1. TypeOK'
  BY ChargeStep, Zenon
<1>2. ASSUME NEW p \in Producers, Producing(p) PROVE OutcomesAreExact'
  BY Zenon, <1>2, ReserveOutcomes, AbortOutcomes, LandOutcomes, CommittedOutcomes, UncertainOutcomes,
     LoseOutcomes DEF Producing
<1>3. CASE Reconcile \/ CommitAcknowledgement \/ ReleaseAcknowledged
  BY <1>3, ReconcileOutcomes, CommitOutcomes, ReleaseOutcomes, Zenon
<1>4. CASE Begin \/ StartFlush \/ EndFlush \/ ReadFlushed \/ Select
  <2>1. UNCHANGED <<queue, life, charge, outcomes, tx>>
    BY <1>4, ZenonT(60) DEF Begin, StartFlush, EndFlush, ReadFlushed, Select, ledger, Storage
  <2>2. QED
    BY <1>1, <2>1, QuietOutcomes, Zenon
<1>5. CASE (\E e \in Entities : Block(e)) \/ Retry \/ Activate \/ Retire
  <2>1. UNCHANGED <<queue, life, charge, outcomes>> /\ \E who : tx' = Stale(who)
    BY <1>5, Zenon DEF Block, Retry, Activate, Retire, RewriteOperation, ledger
  <2>2. \A p \in Producers : tx'[p].phase = tx[p].phase /\ tx'[p].ids = tx[p].ids
    <3>1. TxType
      BY Zenon DEF TypeOK
    <3>2. PICK who : tx' = Stale(who)
      BY <2>1, Zenon
    <3>3. PICK f : f = Stale(who)
      BY Zenon
    <3>4. QED
      BY <3>1, <3>2, <3>3, StaleFacts
  <2>3. QED
    BY <1>1, <2>1, <2>2, QuietOutcomes, Zenon
<1>6. CASE Restart
  BY <1>6, RestartOutcomes, Zenon
<1>7. CASE UNCHANGED vars
  BY <1>1, <1>7, QuietOutcomes, Zenon DEF vars
<1>8. QED
  BY <1>2, <1>3, <1>4, <1>5, <1>6, <1>7, Zenon DEF Next, Publishing

-----------------------------------------------------------------------------
(* LedgerOutcomes counts every durable operation and every proved             *)
(* acknowledgement exactly once, whichever path reports it.                   *)
THEOREM ExactOutcomes == Spec => []OutcomesAreExact
<1>1. Init => OutcomesAreExact
  BY ChargeInit, OutcomeInit, Zenon
<1>2. (TypeOK /\ ChargeInv) /\ OutcomesAreExact /\ [Next]_vars => OutcomesAreExact'
  BY OutcomeStep, Zenon
<1>3. QED
  BY <1>1, <1>2, Invariance, PTL DEF Spec

-----------------------------------------------------------------------------
(* Limits: what exceeds them are repairs of entities a blocked build named.   *)
(* LimitInv says that such a set of repairs exists; no step needs to know     *)
(* which it is.                                                               *)

(* A transaction changes an entity once, and never lands on an entity that    *)
(* another one has written since: a removal that may land finds the entity    *)
(* indexed.                                                                   *)
MayLand(p) == tx[p].phase \in {"open", "unknown"} /\ ~tx[p].stale

Distinct ==
  /\ \A p \in Producers : \A i, j \in tx[p].ids : entity[i] = entity[j] => i = j
  /\ \A p \in Producers : MayLand(p) =>
       \A id \in tx[p].ids : entity[id] \in tx[p].removes => live[entity[id]]

(* Repairs charged since the last admission that fitted: all else is within   *)
(* the limit. An indexed entity has at most one stored repair and another at  *)
(* most two, and a write that may land without removing its entity none.      *)
Excess(over) ==
  /\ over \subseteq Charged
  /\ Cardinality(Charged \ over) <= MaxBytes
  /\ \A id \in over : entity[id] \in blamed
  /\ \A i, j \in over \cap queue : entity[i] = entity[j] /\ live[entity[i]] => i = j
  /\ \A i, j, k \in over \cap queue :
       entity[i] = entity[j] /\ entity[j] = entity[k] => i = j \/ j = k \/ i = k
  /\ \A p \in Producers : MayLand(p) =>
       \A id \in tx[p].ids : \A i \in over \cap queue :
         entity[i] = entity[id] => entity[id] \in tx[p].removes

ExcessMembers(over) ==
  /\ over \subseteq blamed
  /\ Cardinality(MembersOf(Charged) \ over) <= MaxMembers

LimitInv ==
  /\ blocker \in blamed \cup {None}
  /\ Distinct
  /\ \E over \in SUBSET Ids : Excess(over)
  /\ \E over \in SUBSET Entities : ExcessMembers(over)

-----------------------------------------------------------------------------
(* Limits: what exceeds them are repairs of blamed entities. *)

LEMMA EntityCard ==
  ASSUME NEW S \in SUBSET Entities
  PROVE  IsFiniteSet(S) /\ Cardinality(S) \in Nat
  BY FiniteAssumption, FS_Subset, FS_CardinalityType, Zenon

LEMMA CardMonotone ==
  ASSUME NEW S, NEW T \in SUBSET S, IsFiniteSet(S)
  PROVE  Cardinality(T) <= Cardinality(S) /\ Cardinality(T) \in Nat /\ Cardinality(S) \in Nat
  BY FS_Subset, FS_CardinalityType, Zenon

LEMMA MembersFinite ==
  ASSUME TypeOK, NEW S \in SUBSET Ids
  PROVE  IsFiniteSet(MembersOf(S))
<1>1. MembersOf(S) \in SUBSET (Entities \cup {None})
  BY Zenon DEF MembersOf, TypeOK, StorageType
<1>2. IsFiniteSet(Entities \cup {None})
  BY FiniteAssumption, FS_AddElement, Zenon
<1>3. QED
  BY <1>1, <1>2, FS_Subset, Zenon

(* A transaction after the step is one from before it, or has no operations.  *)
TxShrinks(p) ==
  /\ tx'[p].ids \subseteq tx[p].ids
  /\ \A id \in tx'[p].ids : entity'[id] = entity[id]
  /\ MayLand(p)' => MayLand(p) /\ tx'[p].removes = tx[p].removes

(* Steps that charge and store nothing new keep the limits.                   *)
LEMMA ShrinkKeeps ==
  ASSUME TypeOK, TypeOK', ChargeInv', LimitInv,
         Charged' \subseteq Charged, queue' \subseteq queue, live' = live, blamed \subseteq blamed',
         blocker' \in blamed' \cup {None}, \A id \in Charged' : entity'[id] = entity[id],
         \A p \in Producers : TxShrinks(p)
  PROVE  LimitInv'
<1>1. queue' \subseteq Charged' /\ Charged \in SUBSET Ids /\ Charged' \in SUBSET Ids
  BY ZenonT(60) DEF ChargeInv, Backed, Charged, TypeOK, StorageType
<1>2. Distinct'
  BY DEF LimitInv, Distinct, TxShrinks
<1>3. PICK over \in SUBSET Ids : Excess(over)
  BY Zenon DEF LimitInv
<1>4. PICK o : o = over \cap Charged'
  BY ZenonT(60)
<1>5. Excess(o)'
  <2>1. o \in SUBSET Ids /\ o \subseteq Charged' /\ o \subseteq over /\ \A id \in o : entity'[id] = entity[id]
    BY <1>4, ZenonT(60)
  <2>2. Cardinality(Charged' \ o) <= MaxBytes
    <3>1. Charged' \ o \in SUBSET (Charged \ over) /\ IsFiniteSet(Charged \ over)
      BY <1>1, <1>4, CardNat, Zenon
    <3>2. Cardinality(Charged' \ o) <= Cardinality(Charged \ over)
          /\ Cardinality(Charged' \ o) \in Nat /\ Cardinality(Charged \ over) \in Nat
      BY <3>1, CardMonotone, Zenon
    <3>3. Cardinality(Charged \ over) <= MaxBytes /\ MaxBytes \in Nat
      BY <1>3, BacklogAssumption, Zenon DEF Excess
    <3>4. QED
      BY <3>2, <3>3
  <2>3. \A id \in o : entity'[id] \in blamed'
    BY <1>3, <2>1, Zenon DEF Excess
  <2>4. \A i, j \in o \cap queue' : entity'[i] = entity'[j] /\ live'[entity'[i]] => i = j
    BY <1>3, <2>1, Zenon DEF Excess
  <2>5. \A i, j, k \in o \cap queue' :
          entity'[i] = entity'[j] /\ entity'[j] = entity'[k] => i = j \/ j = k \/ i = k
    BY <1>3, <2>1, Zenon DEF Excess
  <2>6. ASSUME NEW p \in Producers, MayLand(p)', NEW id \in tx'[p].ids, NEW i \in o \cap queue',
               entity'[i] = entity'[id]
        PROVE  entity'[id] \in tx'[p].removes
    BY <1>3, <2>1, <2>6, ZenonT(60) DEF Excess, TxShrinks
  <2>7. QED
    BY <2>1, <2>2, <2>3, <2>4, <2>5, <2>6, Zenon DEF Excess
<1>6. PICK em \in SUBSET Entities : ExcessMembers(em)
  BY ZenonT(60) DEF LimitInv
<1>7. ExcessMembers(em)'
  <2>1. MembersOf(Charged)' \subseteq MembersOf(Charged)
    BY Zenon DEF MembersOf
  <2>2. PICK S, T : S = MembersOf(Charged) \ em /\ T = MembersOf(Charged)' \ em
    BY ZenonT(60)
  <2>3. T \in SUBSET S /\ IsFiniteSet(S)
    <3>1. IsFiniteSet(MembersOf(Charged))
      BY <1>1, MembersFinite, Zenon
    <3>2. QED
      BY <2>1, <2>2, <3>1, FS_Subset, Zenon
  <2>4. Cardinality(T) <= Cardinality(S) /\ Cardinality(T) \in Nat /\ Cardinality(S) \in Nat
    BY <2>3, CardMonotone, Zenon
  <2>5. Cardinality(S) <= MaxMembers /\ MaxMembers \in Nat
    BY <1>6, <2>2, BacklogAssumption, Zenon DEF ExcessMembers
  <2>6. Cardinality(T) <= MaxMembers
    BY <2>4, <2>5
  <2>7. QED
    BY <1>6, <2>2, <2>6, Zenon DEF ExcessMembers
<1>8. o \in SUBSET Ids
  BY <1>4, Zenon
<1>9. QED
  BY <1>2, <1>5, <1>7, <1>8, ZenonT(60) DEF LimitInv

(* An admission that fits starts a new account; a repair is added to it.      *)
LEMMA ReserveLimits ==
  ASSUME TypeOK, ChargeInv, LimitInv, NEW p \in Producers, Reserve(p)
  PROVE  LimitInv'
<1>1. PICK es, removes, ids : Admitted(p, es, removes, ids)
  BY ReserveFacts, Zenon
<1>2. UNCHANGED <<owner, blocker, live, queue, life, blamed>> /\ TypeOK'
  BY ReserveFacts, ZenonT(60) DEF Reserve
<1>3. /\ es \in SUBSET Entities /\ removes \in SUBSET es /\ \A e \in removes : live[e]
      /\ Admits(es, removes)
      /\ ids \in SUBSET Ids /\ Cardinality(ids) = Cardinality(es)
      /\ \A id \in ids : entity[id] = None /\ entity'[id] \in es
      /\ \A i, j \in ids : entity'[i] = entity'[j] => i = j
      /\ \A e \in es : \E id \in ids : entity'[id] = e
      /\ \A id \in Ids \ ids : entity'[id] = entity[id]
      /\ tx'[p].ids = ids /\ tx'[p].removes = removes
      /\ \A q \in Producers \ {p} : tx'[q] = tx[q]
  BY <1>1, ZenonT(60) DEF Admitted
<1>4. \A id \in ids : charge[id] = None /\ id \notin life /\ \A q \in Producers : id \notin tx[q].ids
  BY <1>3, ZenonT(60) DEF ChargeInv, Fresh
<1>5. Charged' = Charged \cup ids /\ Charged \cap ids = {} /\ Charged \in SUBSET Ids
  BY <1>1, <1>3, <1>4, NoneAssumption DEF Admitted, Charged, ChargeState
<1>6. /\ queue \subseteq Charged /\ queue \cap ids = {}
      /\ \A id \in Charged : entity'[id] = entity[id]
      /\ \A q \in Producers \ {p} : \A id \in tx[q].ids : entity'[id] = entity[id]
  BY <1>3, <1>4, <1>5, TxFields, Zenon DEF ChargeInv, Backed, Charged, TypeOK, StorageType
<1>7. MembersOf(Charged)' = MembersOf(Charged) \cup es
  <2>1. MembersOf(Charged)' = {entity'[id] : id \in Charged \cup ids}
    BY <1>5, Zenon DEF MembersOf
  <2>2. QED
    BY <1>3, <1>6, <2>1 DEF MembersOf
<1>8. \A q \in Producers \ {p} : MayLand(q)' <=> MayLand(q)
  BY <1>3, Zenon DEF MayLand
<1>9. Distinct'
  <2>1. \A q \in Producers : \A i, j \in tx'[q].ids : entity'[i] = entity'[j] => i = j
    BY <1>3, <1>6 DEF LimitInv, Distinct
  <2>2. \A q \in Producers \ {p} : MayLand(q)' =>
          \A id \in tx'[q].ids : entity'[id] \in tx'[q].removes => live'[entity'[id]]
    BY <1>2, <1>3, <1>6, <1>8 DEF LimitInv, Distinct
  <2>3. \A id \in tx'[p].ids : entity'[id] \in tx'[p].removes => live'[entity'[id]]
    BY <1>2, <1>3, ZenonT(60)
  <2>4. QED
    BY <2>1, <2>2, <2>3, Zenon DEF Distinct
<1>10. PICK over \in SUBSET Ids : Excess(over)
  BY Zenon DEF LimitInv
<1>11. PICK em \in SUBSET Entities : ExcessMembers(em)
  BY Zenon DEF LimitInv
<1>12. CASE Fits(es)
  <2>1. Cardinality(Charged') <= MaxBytes
    BY <1>3, <1>5, <1>12, CardJoin DEF Fits
  <2>2. Excess({})'
    BY <2>1, Zenon DEF Excess
  <2>3. \E over2 \in SUBSET Entities : ExcessMembers(over2)'
    <3>1. CASE es \ MembersOf(Charged) = {}
      <4>1. MembersOf(Charged)' = MembersOf(Charged)
        BY <1>7, <3>1, Zenon
      <4>2. ExcessMembers(em)'
        BY <1>2, <1>11, <4>1, Zenon DEF ExcessMembers
      <4>3. QED
        BY <4>2, Zenon
    <3>2. CASE es \ MembersOf(Charged) # {}
      <4>1. PICK M, N : M = MembersOf(Charged) /\ N = es \ MembersOf(Charged)
        BY ZenonT(60)
      <4>2. Cardinality(M) + Cardinality(N) <= MaxMembers
        BY <1>12, <3>2, <4>1, Zenon DEF Fits
      <4>3. IsFiniteSet(M) /\ IsFiniteSet(N) /\ Cardinality(M) \in Nat /\ Cardinality(N) \in Nat
        BY <1>3, <1>5, <4>1, MembersFinite, EntityCard, FS_CardinalityType, Zenon
      <4>4. M \cap N = {} /\ M \cup N = MembersOf(Charged)'
        BY <1>7, <4>1, Zenon
      <4>5. Cardinality(M \cup N) = Cardinality(M) + Cardinality(N)
        <5>1. Cardinality(M \cup N) = Cardinality(M) + Cardinality(N) - Cardinality(M \cap N)
          BY <4>3, FS_Union, Zenon
        <5>2. Cardinality(M \cap N) = 0
          BY <4>4, FS_EmptySet, Zenon
        <5>3. QED
          BY <4>3, <5>1, <5>2
      <4>6. Cardinality(MembersOf(Charged)' \ {}) <= MaxMembers
        BY <4>2, <4>4, <4>5, Zenon
      <4>7. ExcessMembers({})'
        BY <4>6, Zenon DEF ExcessMembers
      <4>8. QED
        BY <4>7, Zenon
    <3>3. QED
      BY <3>1, <3>2, Zenon
  <2>4. QED
    BY <1>2, <1>9, <2>2, <2>3, Zenon DEF LimitInv
<1>13. CASE IsBlockerRepair(es, removes)
  <2>1. es = {blocker} /\ (blocker \in removes \/ blocker \notin MembersOf(Charged))
    BY <1>13, Zenon DEF IsBlockerRepair
  <2>2. blocker \in blamed /\ blocker \in Entities /\ \A id \in ids : entity'[id] = blocker
    BY <1>3, <2>1, NoneAssumption, ZenonT(60) DEF LimitInv
  <2>3. PICK o : o = over \cup ids
    BY ZenonT(60)
  <2>4. Excess(o)'
    <3>1. o \subseteq Charged' /\ over \subseteq Charged
      BY <1>5, <1>10, <2>3, ZenonT(60) DEF Excess
    <3>2. Charged' \ o = Charged \ over
      BY <1>5, <2>3, Zenon
    <3>3. o \cap queue = over \cap queue /\ \A id \in over \cap queue : entity'[id] = entity[id]
      BY <1>6, <2>3, Zenon
    <3>4. \A id \in o : entity'[id] \in blamed'
      BY <1>2, <1>6, <1>10, <2>2, <2>3, <3>1, ZenonT(60) DEF Excess
    <3>5. \A i, j \in o \cap queue' : entity'[i] = entity'[j] /\ live'[entity'[i]] => i = j
      BY <1>2, <1>10, <3>3, Zenon DEF Excess
    <3>6. \A i, j, k \in o \cap queue' :
            entity'[i] = entity'[j] /\ entity'[j] = entity'[k] => i = j \/ j = k \/ i = k
      BY <1>2, <1>10, <3>3 DEF Excess
    <3>7. ASSUME NEW q \in Producers, MayLand(q)', NEW id \in tx'[q].ids, NEW i \in o \cap queue',
                 entity'[i] = entity'[id]
          PROVE  entity'[id] \in tx'[q].removes
      <4>1. CASE q = p
        <5>1. entity'[id] = blocker /\ entity[i] = blocker /\ i \in Charged
          BY <1>2, <1>3, <1>6, <2>2, <3>3, <3>7, <4>1, ZenonT(60)
        <5>2. blocker \in MembersOf(Charged)
          BY <5>1, ZenonT(60) DEF MembersOf
        <5>3. QED
          BY <1>3, <2>1, <4>1, <5>1, <5>2, ZenonT(60)
      <4>2. CASE q # p
        BY <1>2, <1>3, <1>6, <1>8, <1>10, <3>3, <3>7, <4>2 DEF Excess
      <4>3. QED
        BY <4>1, <4>2, Zenon
    <3>8. QED
      BY <1>10, <3>1, <3>2, <3>4, <3>5, <3>6, <3>7, Zenon DEF Excess
  <2>5. PICK n : n = em \cup {blocker}
    BY ZenonT(60)
  <2>6. ExcessMembers(n)'
    <3>1. n \subseteq blamed'
      BY <1>2, <1>11, <2>2, <2>5, Zenon DEF ExcessMembers
    <3>2. PICK S, T : S = MembersOf(Charged) \ em /\ T = MembersOf(Charged)' \ n
      BY ZenonT(60)
    <3>3. T \in SUBSET S /\ IsFiniteSet(S)
      BY <1>5, <1>7, <2>1, <2>5, <3>2, MembersFinite, FS_Subset, Zenon
    <3>4. Cardinality(T) <= Cardinality(S) /\ Cardinality(T) \in Nat /\ Cardinality(S) \in Nat
      BY <3>3, CardMonotone, Zenon
    <3>5. Cardinality(S) <= MaxMembers /\ MaxMembers \in Nat
      BY <1>11, <3>2, BacklogAssumption, Zenon DEF ExcessMembers
    <3>6. Cardinality(T) <= MaxMembers
      BY <3>4, <3>5
    <3>7. QED
      BY <3>1, <3>2, <3>6, Zenon DEF ExcessMembers
  <2>7. o \in SUBSET Ids /\ n \in SUBSET Entities
    BY <1>3, <2>2, <2>3, <2>5, Zenon
  <2>8. QED
    BY <1>2, <1>9, <2>4, <2>6, <2>7, Zenon DEF LimitInv
<1>14. QED
  BY <1>3, <1>12, <1>13, Zenon DEF Admits

(* A write lands once per entity, and stales every other write of it.         *)
LEMMA LandLimits ==
  ASSUME TypeOK, ChargeInv, LimitInv, NEW p \in Producers, Land(p)
  PROVE  LimitInv'
<1>1. /\ TypeOK' /\ MayLand(p) /\ queue' = queue \cup tx[p].ids
      /\ UNCHANGED <<owner, blocker, entity, charge, blamed>>
  BY LandFacts, Zenon DEF Land, ledger, MayLand
<1>2. \A e \in Entities : live'[e] <=> IF e \in MembersOf(tx[p].ids) THEN e \notin tx[p].removes ELSE live[e]
  BY Zenon DEF Land
<1>3. /\ tx'[p].phase \in {"idle", "landed"} /\ tx'[p].ids \subseteq tx[p].ids
      /\ \A q \in Producers \ {p} :
           /\ tx'[q].phase = tx[q].phase /\ tx'[q].ids = tx[q].ids /\ tx'[q].removes = tx[q].removes
           /\ ~tx'[q].stale => ~tx[q].stale
           /\ Overlaps(p, q) /\ tx[q].phase \in {"open", "unknown"} => tx'[q].stale
  BY LandFacts, NoTxFields, ZenonT(60) DEF Land
<1>4. /\ ~MayLand(p)'
      /\ \A q \in Producers \ {p} : MayLand(q)' => MayLand(q) /\ ~Overlaps(p, q)
  BY <1>3, Zenon DEF MayLand
<1>5. Charged' = Charged
  BY <1>1, Zenon DEF Charged
<1>6. \A q \in Producers \ {p} : ~Overlaps(p, q) =>
        \A id \in tx[q].ids : \A i \in tx[p].ids : entity[i] # entity[id]
  BY Zenon DEF Overlaps, MembersOf
<1>7. /\ \A id \in tx[p].ids : entity[id] \in MembersOf(tx[p].ids)
      /\ \A e \in MembersOf(tx[p].ids) : \E id \in tx[p].ids : e = entity[id]
  BY Zenon DEF MembersOf
<1>8. ASSUME NEW q \in Producers, NEW id \in tx[q].ids
      PROVE  entity[id] \in Entities
  <2>1. id \in Ids /\ entity[id] # None
    BY TxFields, Zenon DEF ChargeInv, Fresh
  <2>2. QED
    BY <2>1, Zenon DEF TypeOK, StorageType
<1>9. Distinct'
  <2>1. \A q \in Producers : \A i, j \in tx'[q].ids : entity'[i] = entity'[j] => i = j
    BY <1>1, <1>3 DEF LimitInv, Distinct
  <2>2. ASSUME NEW q \in Producers, MayLand(q)', NEW id \in tx'[q].ids, entity'[id] \in tx'[q].removes
        PROVE  live'[entity'[id]]
    <3>1. q # p /\ MayLand(q) /\ ~Overlaps(p, q) /\ id \in tx[q].ids /\ entity[id] \in tx[q].removes
      BY <1>1, <1>3, <1>4, <2>2, ZenonT(60)
    <3>2. entity[id] \notin MembersOf(tx[p].ids) /\ entity[id] \in Entities
      BY <1>6, <1>7, <1>8, <3>1, ZenonT(60)
    <3>3. live[entity[id]]
      BY <3>1, Zenon DEF LimitInv, Distinct
    <3>4. QED
      BY <1>1, <1>2, <3>2, <3>3, Zenon
  <2>3. QED
    BY <2>1, <2>2, Zenon DEF Distinct
<1>10. PICK over \in SUBSET Ids : Excess(over)
  BY Zenon DEF LimitInv
<1>11. \A i \in over : entity[i] \in Entities
  BY <1>10, ZenonT(60) DEF Excess, TypeOK, StorageType
<1>12. \A i, j \in tx[p].ids : entity[i] = entity[j] => i = j
  BY ZenonT(60) DEF LimitInv, Distinct
<1>13. \A id \in tx[p].ids : \A i \in over \cap queue :
          entity[i] = entity[id] => entity[id] \in tx[p].removes /\ live[entity[id]]
  BY <1>1, <1>10, ZenonT(60) DEF Excess, LimitInv, Distinct
<1>14. ASSUME NEW i \in over \cap queue', NEW j \in over \cap queue', entity[i] = entity[j], live'[entity[i]]
       PROVE  i = j
  <2>1. CASE entity[i] \in MembersOf(tx[p].ids)
    <3>1. entity[i] \notin tx[p].removes
      BY <1>2, <1>11, <1>14, <2>1, ZenonT(60)
    <3>2. PICK id \in tx[p].ids : entity[i] = entity[id]
      BY <1>7, <2>1, Zenon
    <3>3. i \notin queue /\ j \notin queue
      BY <1>13, <1>14, <3>1, <3>2, ZenonT(60)
    <3>4. QED
      BY <1>1, <1>12, <1>14, <3>3, ZenonT(60)
  <2>2. CASE entity[i] \notin MembersOf(tx[p].ids)
    <3>1. i \in queue /\ j \in queue /\ live[entity[i]]
      BY <1>1, <1>2, <1>7, <1>11, <1>14, <2>2, ZenonT(60)
    <3>2. QED
      BY <1>10, <1>14, <3>1, Zenon DEF Excess
  <2>3. QED
    BY <2>1, <2>2, Zenon
<1>15. ASSUME NEW i \in over \cap queue', NEW j \in over \cap queue', NEW k \in over \cap queue',
              entity[i] = entity[j], entity[j] = entity[k]
       PROVE  i = j \/ j = k \/ i = k
  <2>1. CASE entity[i] \in MembersOf(tx[p].ids)
    <3>1. PICK id \in tx[p].ids : entity[i] = entity[id]
      BY <1>7, <2>1, Zenon
    <3>2. \A a, b \in {i, j, k} : a \in queue /\ b \in queue => a = b
      BY <1>10, <1>13, <1>15, <3>1 DEF Excess
    <3>3. \A a, b \in {i, j, k} : a \in tx[p].ids /\ b \in tx[p].ids => a = b
      BY <1>12, <1>15, Zenon
    <3>4. QED
      BY <1>1, <3>2, <3>3, Zenon
  <2>2. CASE entity[i] \notin MembersOf(tx[p].ids)
    <3>1. i \in queue /\ j \in queue /\ k \in queue
      BY <1>1, <1>7, <1>15, <2>2, Zenon
    <3>2. QED
      BY <1>10, <1>15, <3>1, ZenonT(60) DEF Excess
  <2>3. QED
    BY <2>1, <2>2, Zenon
<1>16. ASSUME NEW q \in Producers, MayLand(q)', NEW id \in tx'[q].ids, NEW i \in over \cap queue',
              entity[i] = entity[id]
       PROVE  entity[id] \in tx'[q].removes
  <2>1. q # p /\ MayLand(q) /\ ~Overlaps(p, q) /\ id \in tx[q].ids /\ tx'[q].removes = tx[q].removes
    BY <1>3, <1>4, <1>16, ZenonT(60)
  <2>2. i \in queue
    BY <1>1, <1>6, <1>16, <2>1, ZenonT(60)
  <2>3. QED
    BY <1>10, <1>16, <2>1, <2>2, ZenonT(60) DEF Excess
<1>17. Excess(over)'
  <2>1. /\ over \subseteq Charged' /\ Cardinality(Charged' \ over) <= MaxBytes
        /\ \A id \in over : entity'[id] \in blamed'
    BY <1>1, <1>5, <1>10, Zenon DEF Excess
  <2>2. QED
    BY <1>1, <1>14, <1>15, <1>16, <2>1 DEF Excess
<1>18. PICK em \in SUBSET Entities : ExcessMembers(em)
  BY Zenon DEF LimitInv
<1>19. ExcessMembers(em)'
  BY <1>1, <1>5, <1>18, Zenon DEF ExcessMembers, MembersOf
<1>20. QED
  BY <1>1, <1>9, <1>17, <1>19, Zenon DEF LimitInv

(* The other steps charge and store nothing new.                              *)
LEMMA SameTxShrinks ==
  ASSUME UNCHANGED <<tx, entity>>, NEW p \in Producers
  PROVE  TxShrinks(p)
  BY Zenon DEF TxShrinks, MayLand

LEMMA EndedTxShrinks ==
  ASSUME NEW p \in Producers, tx'[p] = NoTx
  PROVE  TxShrinks(p)
  BY NoTxFields, Zenon DEF TxShrinks, MayLand

LEMMA ProducerLimits ==
  ASSUME TypeOK, ChargeInv, LimitInv, NEW p \in Producers, TypeOK', ChargeInv',
         Abort(p) \/ ReturnCommitted(p) \/ ReturnUncertain(p) \/ Lose(p)
  PROVE  LimitInv'
<1>1. UNCHANGED <<blocker, live, queue, blamed>> /\ blocker' \in blamed' \cup {None}
  BY Zenon DEF Abort, ReturnCommitted, ReturnUncertain, Lose, LimitInv
<1>2. \A q \in Producers \ {p} : tx'[q] = tx[q]
  BY AbortFacts, CommittedFacts, UncertainFacts, LoseFacts, ZenonT(60)
<1>3. \A id \in Ids : /\ charge[id] = None => charge'[id] = None
                      /\ entity'[id] # entity[id] => id \in tx[p].ids /\ charge'[id] = None /\ Abort(p)
  <2>1. CASE Abort(p)
    BY <2>1, AbortFacts, ZenonT(60)
  <2>2. CASE ReturnCommitted(p)
    BY <2>2, CommittedFacts, NoneAssumption, ZenonT(60) DEF ReturnCommitted, ChargeState
  <2>3. CASE ReturnUncertain(p)
    BY <2>3, UncertainFacts, NoneAssumption, ZenonT(60) DEF ReturnUncertain, ChargeState
  <2>4. CASE Lose(p)
    BY <2>4, Zenon DEF Lose, ledger
  <2>5. QED
    BY <2>1, <2>2, <2>3, <2>4, ZenonT(60)
<1>4. Charged' \subseteq Charged /\ \A id \in Charged' : entity'[id] = entity[id]
  BY <1>3, Zenon DEF Charged
<1>5. TxShrinks(p)
  <2>1. CASE tx'[p] = NoTx
    BY <2>1, EndedTxShrinks, Zenon
  <2>2. CASE ReturnUncertain(p) /\ tx[p].phase = "open"
    <3>1. entity' = entity /\ tx'[p].ids = tx[p].ids /\ tx'[p].removes = tx[p].removes
          /\ tx'[p].stale = tx[p].stale
      BY <2>2, UncertainFacts, Zenon DEF ReturnUncertain
    <3>2. QED
      BY <2>2, <3>1, ZenonT(60) DEF TxShrinks, MayLand
  <2>3. QED
    BY <2>1, <2>2, AbortFacts, CommittedFacts, UncertainFacts, LoseFacts, Zenon DEF ReturnUncertain
<1>6. ASSUME NEW q \in Producers \ {p} PROVE TxShrinks(q)
  <2>1. \A id \in tx[q].ids : id \in Ids /\ id \notin tx[p].ids
    BY TxFields, ZenonT(60) DEF ChargeInv, Held
  <2>2. QED
    BY <1>2, <1>3, <2>1, ZenonT(60) DEF TxShrinks, MayLand
<1>7. QED
  BY <1>1, <1>4, <1>5, <1>6, ShrinkKeeps, Zenon

LEMMA PublishingLimits ==
  ASSUME TypeOK, ChargeInv, LimitInv, TypeOK', ChargeInv', Publishing
  PROVE  LimitInv'
<1>1. UNCHANGED <<owner, blocker, live, entity, tx, blamed>> /\ blocker' \in blamed' \cup {None}
  BY ZenonT(60) DEF Publishing, Begin, StartFlush, EndFlush, ReadFlushed, Reconcile, Select,
         CommitAcknowledgement, ReleaseAcknowledged, Storage, LimitInv
<1>2. attempt.ids \in SUBSET Ids
  BY Zenon DEF TypeOK, AttemptType, AttemptRecord
<1>3. queue' \subseteq queue
  BY Zenon DEF Publishing, Begin, StartFlush, EndFlush, ReadFlushed, Reconcile, Select,
         CommitAcknowledgement, ReleaseAcknowledged
<1>4. Charged' \subseteq Charged
  <2>1. CASE Begin \/ StartFlush \/ EndFlush \/ ReadFlushed \/ Select
    BY <2>1, ZenonT(60) DEF Begin, StartFlush, EndFlush, ReadFlushed, Select, ledger, Charged
  <2>2. CASE Reconcile
    <3>1. \A id \in Ids : charge'[id] =
              IF id \in Proves \cup (Settles \cap attempt.ids) THEN "Durable"
              ELSE IF id \in Settles \ attempt.ids THEN None ELSE charge[id]
      BY <2>2, ReconcileFacts, Zenon
    <3>2. attempt.ids \subseteq Charged /\ Proves \subseteq attempt.ids
      BY <2>2, ReconcileFacts, Zenon DEF Proves
    <3>3. QED
      BY <3>1, <3>2, Zenon DEF Charged
  <2>3. CASE CommitAcknowledgement
    <3>1. CASE UNCHANGED ledger
      BY <3>1, Zenon DEF ledger, Charged
    <3>2. CASE MarkAcknowledgementUncertain(attempt.ids)
      <4>1. \A id \in Ids : charge'[id] = IF id \in attempt.ids /\ charge[id] # None
                                          THEN "Acknowledgement" ELSE charge[id]
        BY <1>2, <3>2, MarkFacts, ZenonT(60)
      <4>2. QED
        BY <4>1, Zenon DEF Charged
    <3>3. QED
      BY <2>3, <3>1, <3>2, Zenon DEF CommitAcknowledgement, ledger
  <2>4. CASE ReleaseAcknowledged
    <3>1. \A id \in Ids : charge'[id] = IF id \in attempt.ids THEN None ELSE charge[id]
      BY <1>2, <2>4, AcknowledgeFacts, ZenonT(60) DEF ReleaseAcknowledged
    <3>2. QED
      BY <3>1, Zenon DEF Charged
  <2>5. QED
    BY <2>1, <2>2, <2>3, <2>4, Zenon DEF Publishing
<1>5. \A p \in Producers : TxShrinks(p)
  BY <1>1, SameTxShrinks, Zenon
<1>6. QED
  BY <1>1, <1>3, <1>4, <1>5, ShrinkKeeps, Zenon

LEMMA LifecycleLimits ==
  ASSUME TypeOK, ChargeInv, LimitInv, TypeOK', ChargeInv',
         (\E e \in Entities : Block(e)) \/ Retry \/ Activate \/ Retire
  PROVE  LimitInv'
<1>1. /\ UNCHANGED <<live, queue, entity, charge>> /\ \E who : tx' = Stale(who)
      /\ blamed \subseteq blamed' /\ blocker' \in blamed' \cup {None}
  BY ZenonT(60) DEF Block, Retry, Activate, Retire, RewriteOperation, ledger
<1>2. ASSUME NEW p \in Producers PROVE TxShrinks(p)
  <2>1. TxType
    BY Zenon DEF TypeOK
  <2>2. PICK who : tx' = Stale(who)
    BY <1>1, Zenon
  <2>3. PICK f : f = Stale(who)
    BY Zenon
  <2>4. tx'[p].phase = tx[p].phase /\ tx'[p].ids = tx[p].ids
        /\ tx'[p].removes = tx[p].removes /\ (~tx'[p].stale => ~tx[p].stale)
    BY <2>1, <2>2, <2>3, StaleFacts
  <2>5. QED
    BY <1>1, <2>4, ZenonT(60) DEF TxShrinks, MayLand
<1>3. Charged' = Charged
  BY <1>1, Zenon DEF Charged
<1>4. QED
  BY <1>1, <1>2, <1>3, ShrinkKeeps, Zenon

LEMMA RestartLimits ==
  ASSUME TypeOK, ChargeInv, LimitInv, TypeOK', ChargeInv', Restart
  PROVE  LimitInv'
<1>1. /\ UNCHANGED <<live, queue, blamed, blocker>> /\ blocker' \in blamed' \cup {None}
      /\ tx' = [p \in Producers |-> NoTx]
      /\ \A id \in Ids : charge'[id] = IF id \in queue THEN "Durable" ELSE None
      /\ \A id \in Ids : entity'[id] = IF id \in queue THEN entity[id] ELSE None
  BY Zenon DEF Restart, LimitInv
<1>2. \A p \in Producers : TxShrinks(p)
  BY <1>1, EndedTxShrinks, Zenon
<1>3. queue \subseteq Charged
  BY ZenonT(60) DEF ChargeInv, Backed, Charged, TypeOK, StorageType
<1>4. Charged' \subseteq Charged /\ \A id \in Charged' : entity'[id] = entity[id]
  BY <1>1, <1>3, ZenonT(60) DEF Charged
<1>5. QED
  BY <1>1, <1>2, <1>4, ShrinkKeeps, Zenon

LEMMA LimitInit == Init => LimitInv
<1> SUFFICES ASSUME Init PROVE LimitInv
  BY Zenon
<1>1. Charged = {} /\ queue = {} /\ \A p \in Producers : tx[p].ids = {}
  BY NoTxFields, Zenon DEF Init, Charged
<1>2. Cardinality({}) = 0 /\ MaxBytes \in Nat /\ MaxMembers \in Nat
  BY FS_EmptySet, BacklogAssumption, Zenon
<1>3. Distinct
  BY <1>1, Zenon DEF Distinct
<1>4. Charged \ {} = {} /\ MembersOf(Charged) \ {} = {}
  BY <1>1, Zenon DEF MembersOf
<1>5. Cardinality(Charged \ {}) <= MaxBytes /\ Cardinality(MembersOf(Charged) \ {}) <= MaxMembers
  BY <1>2, <1>4
<1>6. Excess({}) /\ ExcessMembers({})
  BY <1>1, <1>5, Zenon DEF Excess, ExcessMembers
<1>7. QED
  BY <1>3, <1>6, Zenon DEF LimitInv, Init

LEMMA LimitStep == TypeOK /\ ChargeInv /\ LimitInv /\ [Next]_vars => LimitInv'
<1> SUFFICES ASSUME TypeOK, ChargeInv, LimitInv, [Next]_vars PROVE LimitInv'
  BY Zenon
<1>1. TypeOK' /\ ChargeInv'
  BY ChargeStep, Zenon
<1>2. ASSUME NEW p \in Producers, Producing(p) PROVE LimitInv'
  BY <1>1, <1>2, ReserveLimits, LandLimits, ProducerLimits, Zenon DEF Producing
<1>3. CASE Publishing
  BY <1>1, <1>3, PublishingLimits, Zenon
<1>4. CASE (\E e \in Entities : Block(e)) \/ Retry \/ Activate \/ Retire
  BY <1>1, <1>4, LifecycleLimits, Zenon
<1>5. CASE Restart
  BY <1>1, <1>5, RestartLimits, Zenon
<1>6. CASE UNCHANGED vars
  <2>1. UNCHANGED <<live, queue, blamed, blocker, tx, entity, charge>>
    BY <1>6, Zenon DEF vars
  <2>2. Charged' = Charged /\ blocker' \in blamed' \cup {None} /\ \A p \in Producers : TxShrinks(p)
    BY <2>1, SameTxShrinks, Zenon DEF Charged, LimitInv
  <2>3. QED
    BY <1>1, <2>1, <2>2, ShrinkKeeps, Zenon
<1>7. QED
  BY <1>2, <1>3, <1>4, <1>5, <1>6, Zenon DEF Next

(* Distinct entities of operations bound their number.                        *)
LEMMA EntitiesBound ==
  ASSUME NEW S \in SUBSET Ids, NEW T \in SUBSET Entities, NEW f,
         \A i \in S : f[i] \in T, \A i, j \in S : f[i] = f[j] => i = j
  PROVE  Cardinality(S) <= Cardinality(T)
<1> DEFINE g == [i \in S |-> f[i]]
<1>1. g \in Injection(S, T)
  BY Zenon DEF Injection, IsInjective
<1>2. IsFiniteSet(T)
  BY EntityCard, Zenon
<1>3. QED
  BY <1>1, <1>2, FS_Injection, Zenon

(* At most one stored repair for every blamed entity, and one more for those  *)
(* that left the index.                                                       *)
LEMMA RepairsBound ==
  ASSUME TypeOK, NEW over \in SUBSET Ids, Excess(over)
  PROVE  Cardinality(over \cap queue) <= Cardinality(blamed) + Cardinality({e \in blamed : ~live[e]})
<1>1. PICK R : R = over \cap queue
  BY Zenon
<1>2. /\ R \in SUBSET Ids /\ \A i \in R : entity[i] \in blamed
      /\ \A i, j \in R : entity[i] = entity[j] /\ live[entity[i]] => i = j
      /\ \A i, j, k \in R : entity[i] = entity[j] /\ entity[j] = entity[k] => i = j \/ j = k \/ i = k
  BY <1>1 DEF Excess
<1> DEFINE Rep(e) == CHOOSE j \in R : entity[j] = e
<1>3. \A i \in R : Rep(entity[i]) \in R /\ entity[Rep(entity[i])] = entity[i]
  BY Zenon
<1> DEFINE A0 == {i \in R : i = Rep(entity[i])}
<1>4. /\ \A i, j \in A0 : entity[i] = entity[j] => i = j
      /\ \A i \in R \ A0 : Rep(entity[i]) \in A0 /\ Rep(entity[i]) # i /\ entity[Rep(entity[i])] = entity[i]
  BY <1>3, ZenonT(60)
<1> HIDE DEF Rep
<1>5. PICK A, B : A = A0 /\ B = R \ A0
  BY Zenon
<1>6. /\ A \in SUBSET Ids /\ B \in SUBSET Ids /\ A \cap B = {} /\ A \cup B = R
      /\ \A i \in A : entity[i] \in blamed
      /\ \A i, j \in A : entity[i] = entity[j] => i = j
  BY <1>2, <1>4, <1>5, ZenonT(60)
<1>7. \A i \in B : /\ i \in R /\ \E r \in R : r \in A /\ r # i /\ entity[r] = entity[i]
  BY <1>3, <1>4, <1>5, Zenon
<1> HIDE DEF A0
<1>8. \A i \in B : entity[i] \in {e \in blamed : ~live[e]}
  BY <1>2, <1>7, Zenon
<1>9. \A i, j \in B : entity[i] = entity[j] => i = j
  <2>1. SUFFICES ASSUME NEW i \in B, NEW j \in B, entity[i] = entity[j] PROVE i = j
    BY Zenon
  <2>2. PICK r \in R : r \in A /\ r # i /\ entity[r] = entity[i]
    BY <1>7, Zenon
  <2>3. i \in R /\ j \in R /\ j # r
    BY <1>6, <1>7, <2>2
  <2>4. QED
    BY <1>2, <2>1, <2>2, <2>3, Zenon
<1>10. PICK T, D, f : T = blamed /\ D = {e \in blamed : ~live[e]} /\ f = entity
  BY ZenonT(60)
<1>11. T \in SUBSET Entities /\ D \in SUBSET Entities
  BY <1>10, Zenon DEF TypeOK, StorageType
<1>12. Cardinality(A) <= Cardinality(T)
  BY <1>6, <1>10, <1>11, EntitiesBound, Zenon
<1>13. Cardinality(B) <= Cardinality(D)
  BY <1>6, <1>8, <1>9, <1>10, <1>11, EntitiesBound, ZenonT(60)
<1>14. Cardinality(R) = Cardinality(A) + Cardinality(B)
  BY <1>6, CardJoin, Zenon
<1>15. /\ Cardinality(A) \in Nat /\ Cardinality(B) \in Nat
       /\ Cardinality(T) \in Nat /\ Cardinality(D) \in Nat
  BY <1>6, <1>11, CardNat, EntityCard, Zenon
<1>16. Cardinality(R) <= Cardinality(T) + Cardinality(D)
  BY <1>12, <1>13, <1>14, <1>15
<1>17. QED
  BY <1>1, <1>10, <1>16, Zenon

LEMMA LimitsFollow == TypeOK /\ ChargeInv /\ LimitInv => LimitsHold
<1> SUFFICES ASSUME TypeOK, ChargeInv, LimitInv PROVE LimitsHold
  BY Zenon
<1>1. queue \in SUBSET Ids /\ queue \subseteq Charged /\ Charged \in SUBSET Ids
      /\ blamed \in SUBSET Entities
  BY Zenon DEF TypeOK, StorageType, ChargeInv, Backed, Charged
<1>2. PICK over \in SUBSET Ids : Excess(over)
  BY Zenon DEF LimitInv
<1>3. PICK em \in SUBSET Entities : ExcessMembers(em)
  BY Zenon DEF LimitInv
<1>4. Cardinality(queue) <= MaxBytes + Cardinality(blamed) + Cardinality({e \in blamed : ~live[e]})
  <2>1. Cardinality(queue) = Cardinality(queue \ over) + Cardinality(over \cap queue)
    <3>1. queue = (queue \ over) \cup (over \cap queue) /\ (queue \ over) \cap (over \cap queue) = {}
      BY Zenon
    <3>2. queue \ over \in SUBSET Ids /\ over \cap queue \in SUBSET Ids
      BY <1>1, Zenon
    <3>3. QED
      BY <3>1, <3>2, CardJoin, Zenon
  <2>2. Cardinality(queue \ over) <= Cardinality(Charged \ over)
    <3>1. (queue \ over) \in SUBSET (Charged \ over) /\ IsFiniteSet(Charged \ over)
      BY <1>1, CardNat, Zenon
    <3>2. QED
      BY <3>1, CardMonotone, Zenon
  <2>3. Cardinality(Charged \ over) <= MaxBytes
    BY <1>2, Zenon DEF Excess
  <2>4. Cardinality(over \cap queue) <= Cardinality(blamed) + Cardinality({e \in blamed : ~live[e]})
    BY <1>2, RepairsBound, Zenon
  <2>5. /\ Cardinality(queue \ over) \in Nat /\ Cardinality(Charged \ over) \in Nat
        /\ Cardinality(over \cap queue) \in Nat
    BY <1>1, CardNat, Zenon
  <2>6. Cardinality(blamed) \in Nat /\ Cardinality({e \in blamed : ~live[e]}) \in Nat /\ MaxBytes \in Nat
    BY <1>1, EntityCard, BacklogAssumption, Zenon
  <2>7. QED
    BY <2>1, <2>2, <2>3, <2>4, <2>5, <2>6
<1>5. Cardinality(MembersOf(queue)) <= MaxMembers + Cardinality(blamed)
  <2>1. PICK M, C : M = MembersOf(queue) /\ C = MembersOf(Charged) \ em
    BY ZenonT(60)
  <2>2. M \in SUBSET (C \cup em)
    BY <1>1, <2>1, Zenon DEF MembersOf
  <2>3. IsFiniteSet(C) /\ IsFiniteSet(em) /\ Cardinality(C) \in Nat /\ Cardinality(em) \in Nat
    BY <1>1, <2>1, MembersFinite, EntityCard, FS_Subset, FS_CardinalityType, Zenon
  <2>4. /\ IsFiniteSet(C \cup em)
        /\ Cardinality(C \cup em) = Cardinality(C) + Cardinality(em) - Cardinality(C \cap em)
        /\ Cardinality(C \cap em) = 0
    <3>1. C \cap em = {}
      BY <2>1, Zenon
    <3>2. QED
      BY <2>3, <3>1, FS_Union, FS_EmptySet, Zenon
  <2>5. Cardinality(M) <= Cardinality(C \cup em) /\ Cardinality(M) \in Nat
    BY <2>2, <2>4, CardMonotone, Zenon
  <2>6. Cardinality(C) <= MaxMembers /\ MaxMembers \in Nat
    BY <1>3, <2>1, BacklogAssumption, Zenon DEF ExcessMembers
  <2>7. Cardinality(em) <= Cardinality(blamed) /\ Cardinality(blamed) \in Nat
    BY <1>1, <1>3, EntityCard, CardMonotone, Zenon DEF ExcessMembers
  <2>8. Cardinality(M) <= MaxMembers + Cardinality(blamed)
    BY <2>3, <2>4, <2>5, <2>6, <2>7
  <2>9. QED
    BY <2>1, <2>8, Zenon
<1>6. QED
  BY <1>4, <1>5, Zenon DEF LimitsHold

-----------------------------------------------------------------------------
(* The stored queue exceeds max_retained_bytes and max_members only by the    *)
(* repairs that reserve admits for entities a blocked build named.            *)
THEOREM BoundedBacklog == Spec => []LimitsHold
<1>1. Init => LimitInv
  BY LimitInit, Zenon
<1>2. (TypeOK /\ ChargeInv) /\ LimitInv /\ [Next]_vars => LimitInv'
  BY LimitStep, Zenon
<1>3. (TypeOK /\ ChargeInv) /\ LimitInv => LimitsHold
  BY LimitsFollow, Zenon
<1>4. QED
  BY <1>1, <1>2, <1>3, Invariance, PTL DEF Spec
===============================================================================
