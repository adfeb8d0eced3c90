----------------------- MODULE QueuePublicationProofs -----------------------
(***************************************************************************)
(* The safety of QueuePublication, for any number of entities, operations, *)
(* writes in flight and faults, any capacities and any kinds of states.    *)
(***************************************************************************)
EXTENDS QueuePublication, FiniteSetTheorems, TLAPS

(* The types of the state.                                                  *)
HoldKinds == {"none", "Waiting", "Failed", "Draining", "Repairing"}
Operation == [entity : Entities, kind : Kinds]
Flag == BOOLEAN
HoldRecord == [kind : HoldKinds, through : Nat, tried : Nat, width : Nat, due : Flag]
ScheduleRecord ==
  [held : [Entities -> HoldRecord], cursor : Entities \cup {None}, entityLimit : Nat,
   operationLimit : Nat, failedHolds : Nat, eligible : {"Now", "After", "NewWork"}]
QueueRecord == [ids : SUBSET Ids, current : Flag]
AttemptRecord ==
  [pc : {"idle", "classified", "selected", "discarding"}, owner : {None, "Building", "Active", "Retired"},
   current : Flag, same : Flag, awaits : SUBSET Entities, late : SUBSET Entities,
   stored : QueueRecord, batch : [Entities -> SUBSET Ids]]

Flights == {"none", "reserved", "landed", "seen", "unknown"}
Charged == 0..MaxOps \cup Entities

TypeOK ==
  /\ family \in Families /\ owner \in {"Building", "Active", "Retired"}
  /\ queue \in [Ids -> Operation \cup {None}]
  /\ newest \in [Entities -> 0..MaxOps] /\ served \in [Entities -> 0..MaxOps]
  /\ flight \in [Entities -> Flights] /\ unsettled \in SUBSET Charged
  /\ retained \in QueueRecord /\ schedule \in ScheduleRecord /\ attempt \in AttemptRecord
  /\ faults \in Nat

(* What the publisher believes is queued: the retained queue, or the one the *)
(* running attempt works on.                                                *)
Listed == retained.ids \cup attempt.stored.ids
Closed(Q, S) == \A x \in Q, y \in S : queue[y].entity = queue[x].entity /\ y <= x => y \in Q
ListInv == Listed \subseteq Stored /\ Closed(Listed, Stored)

(* The attempt has the queue while it runs, its batch takes oldest          *)
(* operations of it, and it discards only what is retired for good.         *)
AttemptInv ==
  /\ IF attempt.pc = "idle" THEN attempt.stored.ids = {} ELSE retained.ids = {}
  /\ \A e \in Entities : /\ attempt.batch[e] \subseteq Of(attempt.stored.ids, e)
                         /\ Closed(attempt.batch[e], attempt.stored.ids)
  /\ attempt.pc # "idle" /\ attempt.owner = "Retired" => owner = "Retired"
  /\ attempt.pc = "discarding" => attempt.owner = "Retired"
  /\ attempt.pc # "selected" => \A e \in Entities : attempt.batch[e] = {}

(* An entity whose newest operation is gone has none queued.                *)
NewestInv ==
  /\ \A id \in Stored : id <= newest[queue[id].entity]
  /\ \A e \in Entities : /\ newest[e] \in Stored => queue[newest[e]].entity = e
                         /\ served[e] <= newest[e]
  /\ owner # "Retired" =>
       \A e \in Entities : newest[e] \in Stored \/ (newest[e] = served[e] /\ Of(Stored, e) = {})

(* A repair is selected alone, at the width its hold says.                  *)
Alone(e, batch, ids) ==
  LET hold == schedule.held[e]
      listed == Of(ids, e)
  IN  batch[e] # {} =>
        /\ hold.kind # "none" => \A x \in Entities : batch[x] # {} => x = e
        /\ hold.kind \in {"Draining", "Waiting", "Failed"} => batch[e] = listed
        /\ hold.kind = "Repairing" => batch[e] = Oldest(hold.width, listed)
BatchInv == \A e \in Entities : Alone(e, attempt.batch, attempt.stored.ids)

(* While queued, an entity's newest listed operation is not older than what *)
(* it serves.                                                               *)
Newer(e, ids) == Of(ids, e) # {} => \E x \in Of(ids, e) : x >= served[e]

(* Before the first fault, an entity that is not held back has only newer   *)
(* operations queued, and one that is was tried with an operation that is   *)
(* still queued, not older than what it serves, and within its width.       *)
Tried(e, id, ids) == id \in Of(Stored, e) /\ id >= served[e] /\ (Of(ids, e) # {} => id \in ids)
Through(e, id) == {x \in Of(Stored, e) : x <= id}
Sound(e, hold, ids) ==
  /\ hold.kind = "none" => \A x \in Of(Stored, e) : x >= served[e]
  /\ hold.kind \in {"Waiting", "Failed", "Repairing"} => Tried(e, hold.through, ids)
  /\ hold.kind = "Repairing" => /\ Tried(e, hold.tried, ids)
                                /\ Cardinality(Through(e, hold.through)) <= hold.width
ServedInv ==
  owner # "Retired" =>
    \A e \in Entities : /\ Newer(e, Stored) /\ Newer(e, Listed)
                        /\ faults = 0 => Sound(e, schedule.held[e], Listed)

IInv == TypeOK /\ ListInv /\ AttemptInv /\ NewestInv /\ BatchInv /\ ServedInv

----------------------------------------------------------------------------
(* Numbers and selections. *)

LEMMA Least ==
  ASSUME NEW S \in SUBSET Nat, S # {}
  PROVE  \E x \in S : \A y \in S : x <= y
<1> DEFINE R == OpToRel(<, Nat)
<1>1. IsWellFoundedOn(R, Nat)
  BY NatLessThanWellFounded, Zenon
<1>2. \A a, b \in Nat : a < b => <<a, b>> \in R
  BY Zenon DEF OpToRel
<1> HIDE DEF R
<1>3. PICK x \in S : \A y \in S : ~(<<y, x>> \in R)
  BY <1>1, WFMin, Zenon
<1>4. ASSUME NEW y \in S PROVE x <= y
  <2>1. ~(y < x) /\ x \in Nat /\ y \in Nat
    BY <1>2, <1>3, Zenon
  <2> QED BY <2>1
<1> QED BY <1>4, Zenon

LEMMA Greatest ==
  ASSUME NEW n \in Nat, NEW S \in SUBSET (0..n), S # {}
  PROVE  \E x \in S : \A y \in S : x >= y
<1> DEFINE D == {d \in Nat : n - d \in S}
<1>1. \A x \in S : x \in Nat /\ n - x \in D
  OBVIOUS
<1>2. D \in SUBSET Nat /\ D # {}
  BY <1>1, Zenon
<1>3. PICK d \in D : \A y \in D : d <= y
  <2> HIDE DEF D
  <2> QED BY <1>2, Least, Zenon
<1>4. d \in Nat /\ n - d \in S
  BY <1>3, Zenon
<1>5. ASSUME NEW y \in S PROVE n - d >= y
  <2>1. d <= n - y /\ y \in Nat
    BY <1>1, <1>3, Zenon
  <2> QED BY <1>4, <2>1
<1> QED BY <1>4, <1>5, Zenon

LEMMA MaxIs ==
  ASSUME NEW S \in SUBSET (0..MaxOps), S # {}
  PROVE  Max(S) \in S /\ \A y \in S : Max(S) >= y
<1>1. MaxOps \in Nat
  BY PublicationAssumption, Zenon
<1> QED BY <1>1, Greatest, Zenon DEF Max

LEMMA MinIs ==
  ASSUME NEW S \in SUBSET Nat, S # {}
  PROVE  Min(S) \in S /\ \A y \in S : Min(S) <= y
BY Least, Zenon DEF Min

LEMMA IdsFinite ==
  ASSUME NEW S \in SUBSET Ids
  PROVE  IsFiniteSet(S) /\ Cardinality(S) \in Nat
<1>1. IsFiniteSet(Ids)
  BY PublicationAssumption, FS_Interval DEF Ids
<1> QED BY <1>1, FS_Subset, FS_CardinalityType, Zenon

(* What is among the first n is there with all that has a lower key.        *)
LEMMA FirstClosed ==
  ASSUME NEW S, IsFiniteSet(S), NEW key, \A z \in S : key[z] \in Nat, NEW n \in Nat,
         NEW x \in First(n, S, key), NEW y \in S, key[y] <= key[x]
  PROVE  y \in First(n, S, key)
<1> DEFINE Up(z) == {w \in S : key[w] <= key[z]}
<1>1. x \in S /\ Cardinality(Up(x)) <= n
  BY Zenon DEF First
<1>2. Up(y) \subseteq Up(x)
  BY <1>1
<1>3. IsFiniteSet(Up(x))
  BY FS_Subset, Zenon
<1>4. Cardinality(Up(y)) <= Cardinality(Up(x)) /\ Cardinality(Up(x)) \in Nat /\ Cardinality(Up(y)) \in Nat
  <2> HIDE DEF Up
  <2> QED BY <1>2, <1>3, FS_Subset, FS_CardinalityType, Zenon
<1>5. Cardinality(Up(y)) <= n
  <2> HIDE DEF Up
  <2> QED BY <1>1, <1>4
<1> QED BY <1>5, Zenon DEF First

(* At most one is the first.                                                *)
LEMMA FirstOne ==
  ASSUME NEW S, IsFiniteSet(S), NEW key, \A z \in S : key[z] \in Nat,
         NEW x \in First(1, S, key), NEW y \in First(1, S, key), key[y] <= key[x]
  PROVE  x = y
<1> DEFINE Up == {w \in S : key[w] <= key[x]}
<1>1. x \in S /\ y \in S /\ Cardinality(Up) <= 1
  BY Zenon DEF First
<1>2. x \in Up /\ y \in Up
  BY <1>1
<1>3. IsFiniteSet(Up) /\ Cardinality(Up) \in Nat
  BY FS_Subset, FS_CardinalityType, Zenon
<1> HIDE DEF Up
<1>4. Cardinality(Up) # 0
  BY <1>2, <1>3, FS_EmptySet, Zenon
<1>5. Cardinality(Up) = 1
  BY <1>1, <1>3, <1>4
<1>6. PICK z : Up = {z}
  BY <1>3, <1>5, FS_Singleton, Zenon
<1> QED BY <1>2, <1>6, Zenon

LEMMA OldestClosed ==
  ASSUME NEW n \in Nat, NEW ids \in SUBSET Ids
  PROVE  /\ Oldest(n, ids) \subseteq ids
         /\ \A x \in Oldest(n, ids), y \in ids : y <= x => y \in Oldest(n, ids)
<1> DEFINE key == [id \in ids |-> id]
<1>1. IsFiniteSet(ids) /\ \A z \in ids : key[z] \in Nat /\ key[z] = z
  BY IdsFinite DEF Ids
<1>2. Oldest(n, ids) = First(n, ids, key) /\ First(n, ids, key) \subseteq ids
  BY Zenon DEF Oldest, First
<1> HIDE DEF key
<1>3. ASSUME NEW x \in First(n, ids, key), NEW y \in ids, y <= x
      PROVE  y \in First(n, ids, key)
  BY <1>1, <1>2, <1>3, FirstClosed, Zenon
<1> QED BY <1>2, <1>3, Zenon

LEMMA OperationFields ==
  ASSUME TypeOK, NEW id \in Stored
  PROVE  id \in Ids /\ id \in Nat /\ queue[id] \in Operation /\ queue[id].entity \in Entities
<1>1. id \in Ids /\ queue[id] \in Operation
  BY Zenon DEF TypeOK, Stored
<1>2. id \in Nat
  BY <1>1 DEF Ids
<1>3. queue[id].entity \in Entities
  BY <1>1, Zenon DEF Operation
<1> QED BY <1>1, <1>2, <1>3, Zenon

(* An entity's operations are taken oldest first.                           *)
LEMMA InRotationClosed ==
  ASSUME TypeOK, NEW n \in Nat, NEW ids \in SUBSET Stored, NEW rotation,
         \A id \in ids : rotation[queue[id].entity] \in Nat
  PROVE  /\ InRotation(n, ids, rotation) \subseteq ids
         /\ \A x \in InRotation(n, ids, rotation), y \in ids :
              queue[y].entity = queue[x].entity /\ y <= x => y \in InRotation(n, ids, rotation)
<1> DEFINE key == [id \in ids |-> rotation[queue[id].entity] * (MaxOps + 1) + id]
<1>1. InRotation(n, ids, rotation) = First(n, ids, key) /\ First(n, ids, key) \subseteq ids
  BY Zenon DEF InRotation, First
<1>2. ids \in SUBSET Ids /\ IsFiniteSet(ids)
  BY IdsFinite, Zenon DEF Stored
<1>3. ASSUME NEW x \in ids
      PROVE  /\ key[x] \in Nat
             /\ \A y \in ids : queue[y].entity = queue[x].entity /\ y <= x => key[y] <= key[x]
  <2>1. PICK k : k = rotation[queue[x].entity] * (MaxOps + 1)
    BY Zenon
  <2>2. k \in Nat
    <3>1. rotation[queue[x].entity] \in Nat /\ MaxOps + 1 \in Nat
      BY PublicationAssumption
    <3>2. \A a, b \in Nat : a * b \in Nat
      OBVIOUS
    <3> QED BY <2>1, <3>1, <3>2, Zenon
  <2>3. key[x] = k + x /\ \A y \in ids : queue[y].entity = queue[x].entity => key[y] = k + y
    BY <2>1, Zenon
  <2>4. \A y \in ids : y \in Nat
    BY <1>2 DEF Ids
  <2> HIDE DEF key
  <2> QED BY <2>2, <2>3, <2>4
<1> HIDE DEF key
<1>4. ASSUME NEW x \in First(n, ids, key), NEW y \in ids, queue[y].entity = queue[x].entity, y <= x
      PROVE  y \in First(n, ids, key)
  BY <1>1, <1>2, <1>3, <1>4, FirstClosed, Zenon
<1> QED BY <1>1, <1>4, Zenon

LEMMA RepairClosed ==
  ASSUME NEW hold \in HoldRecord, NEW queued \in SUBSET Ids
  PROVE  /\ Repair(hold, queued) \subseteq queued
         /\ \A x \in Repair(hold, queued), y \in queued : y <= x => y \in Repair(hold, queued)
         /\ hold.kind = "Repairing" => Repair(hold, queued) = Oldest(hold.width, queued)
         /\ hold.kind # "Repairing" => Repair(hold, queued) \in {queued, {}}
<1>1. hold.width \in Nat
  BY Zenon DEF HoldRecord
<1>2. CASE hold.kind = "Repairing"
  <2>1. Repair(hold, queued) = Oldest(hold.width, queued)
    BY <1>2, Zenon DEF Repair
  <2>2. /\ Oldest(hold.width, queued) \subseteq queued
        /\ \A x \in Oldest(hold.width, queued), y \in queued : y <= x => y \in Oldest(hold.width, queued)
    BY <1>1, OldestClosed, Zenon
  <2> QED BY <1>2, <2>1, <2>2, Zenon
<1>3. CASE hold.kind # "Repairing"
  <2>1. Repair(hold, queued) \in {queued, {}}
    BY <1>3, Zenon DEF Repair
  <2> QED BY <1>3, <2>1, Zenon
<1> QED BY <1>2, <1>3, Zenon

LEMMA OfFacts ==
  ASSUME TypeOK, NEW ids \in SUBSET Stored, NEW e
  PROVE  /\ Of(ids, e) \subseteq ids /\ Of(ids, e) \in SUBSET Ids /\ Of(ids, e) \in SUBSET Nat
         /\ Of(ids, e) \in SUBSET (0..MaxOps) /\ Of(ids, e) \in SUBSET Stored
<1>1. Of(ids, e) \subseteq ids /\ \A id \in ids : id \in Ids /\ id \in Nat
  BY OperationFields, Zenon DEF Of
<1>2. Ids \subseteq 0..MaxOps
  BY DEF Ids
<1> QED BY <1>1, <1>2, Zenon

LEMMA RotationType ==
  ASSUME TypeOK, NEW ids \in SUBSET Stored, NEW after, NEW e \in EntitiesOf(ids)
  PROVE  e \in Entities /\ Rotation(ids, after)[e] \in Nat
<1>1. e \in Entities /\ Of(ids, e) # {}
  BY OperationFields, Zenon DEF EntitiesOf, Of
<1>2. Min(Of(ids, e)) \in Nat
  BY <1>1, MinIs, OfFacts, Zenon
<1>3. Min(Of(ids, e)) + MaxOps \in Nat
  BY <1>2, PublicationAssumption
<1> QED BY <1>1, <1>2, <1>3, Zenon DEF Rotation

LEMMA ScheduleFields ==
  ASSUME NEW s \in ScheduleRecord
  PROVE  /\ s.held \in [Entities -> HoldRecord] /\ s.operationLimit \in Nat /\ s.entityLimit \in Nat
         /\ \A e \in Entities : s.held[e] \in HoldRecord
BY Zenon DEF ScheduleRecord

(* A selection takes oldest operations of what it is given, and a repair is *)
(* alone.                                                                   *)
LEMMA SelectFacts ==
  ASSUME TypeOK, NEW ids \in SUBSET Stored, NEW entities, NEW input \in Nat,
         NEW batch, batch = SelectBatch(ids, entities, input)
  PROVE  /\ batch \in [Entities -> SUBSET Ids]
         /\ \A e \in Entities :
              /\ batch[e] \subseteq Of(ids, e)
              /\ \A x \in batch[e], y \in Of(ids, e) : y <= x => y \in batch[e]
              /\ IsHeld(e) /\ batch[e] # {} =>
                   /\ batch[e] = Repair(schedule.held[e], Of(ids, e))
                   /\ \A x \in Entities : batch[x] # {} => x = e
<1> DEFINE rotation == Rotation(ids, schedule.cursor)
           visited == Visited(ids)
           regular == {e \in visited : \A x \in visited : rotation[x] <= rotation[e] => ~IsHeld(x)}
           chosen == UNION {Of(ids, e) : e \in First(entities, regular, rotation)}
           limit == Min({schedule.operationLimit, Capacity, input})
           named == InRotation(limit, chosen, rotation)
<1>1. \A e \in EntitiesOf(ids) : e \in Entities /\ rotation[e] \in Nat
  BY RotationType, Zenon
<1>2. visited \subseteq EntitiesOf(ids) /\ regular \subseteq visited
  BY Zenon DEF Visited
<1>3. batch = [e \in Entities |->
             IF regular # {} THEN Of(named, e)
             ELSE IF e \in First(1, visited, rotation) THEN Repair(schedule.held[e], Of(ids, e))
             ELSE {}]
  BY Zenon DEF SelectBatch
<1>4. limit \in Nat
  <2>1. {schedule.operationLimit, Capacity, input} \in SUBSET Nat
    BY ScheduleFields, PublicationAssumption, Zenon DEF TypeOK
  <2> QED BY <2>1, MinIs, Zenon
<1>5. \A e \in Entities : Of(ids, e) \in SUBSET Ids
  BY OfFacts, Zenon
<1> HIDE DEF rotation, visited, limit
<1>6. CASE regular # {}
  <2>1. chosen \subseteq ids /\ \A e \in Entities : Of(chosen, e) # {} => e \in regular /\ Of(ids, e) \subseteq chosen
    BY Zenon DEF Of, First
  <2>2. \A id \in chosen : rotation[queue[id].entity] \in Nat
    BY <1>1, <2>1, Zenon DEF EntitiesOf
  <2> HIDE DEF chosen, regular
  <2>3. /\ named \subseteq chosen
        /\ \A x \in named, y \in chosen : queue[y].entity = queue[x].entity /\ y <= x => y \in named
    BY <1>4, <2>1, <2>2, InRotationClosed, Zenon
  <2> HIDE DEF named
  <2>4. \A e \in Entities : batch[e] = Of(named, e)
    BY <1>3, <1>6, Zenon
  <2>5. ASSUME NEW e \in Entities
        PROVE  /\ batch[e] \subseteq Of(ids, e)
               /\ \A x \in batch[e], y \in Of(ids, e) : y <= x => y \in batch[e]
               /\ batch[e] # {} => e \in regular
    BY <2>1, <2>3, <2>4, Zenon DEF Of
  <2>6. \A e \in regular : ~IsHeld(e)
    <3> USE DEF regular
    <3>1. \A e \in regular : rotation[e] <= rotation[e]
      BY <1>1, <1>2
    <3> QED BY <1>2, <3>1, Zenon
  <2>7. batch \in [Entities -> SUBSET Ids]
    BY <1>3, <1>5, <1>6, <2>4, <2>5, Zenon
  <2> QED BY <2>5, <2>6, <2>7, Zenon
<1>7. CASE regular = {}
  <2>1. \A e \in Entities :
          batch[e] = IF e \in First(1, visited, rotation) THEN Repair(schedule.held[e], Of(ids, e)) ELSE {}
    BY <1>3, <1>7, Zenon
  <2>2. \A e \in Entities : schedule.held[e] \in HoldRecord
    BY ScheduleFields, Zenon DEF TypeOK
  <2>3. ASSUME NEW e \in Entities
        PROVE  /\ batch[e] \subseteq Of(ids, e)
               /\ \A x \in batch[e], y \in Of(ids, e) : y <= x => y \in batch[e]
               /\ batch[e] # {} => e \in First(1, visited, rotation) /\ batch[e] = Repair(schedule.held[e], Of(ids, e))
    <3>1. CASE e \in First(1, visited, rotation)
      <4>1. PICK h, q : h = schedule.held[e] /\ q = Of(ids, e)
        BY Zenon
      <4>2. h \in HoldRecord /\ q \in SUBSET Ids
        BY <1>5, <2>2, <4>1, Zenon
      <4>3. Repair(h, q) \subseteq q /\ \A x \in Repair(h, q), y \in q : y <= x => y \in Repair(h, q)
        BY <4>2, RepairClosed, Zenon
      <4>4. batch[e] = Repair(h, q)
        BY <2>1, <3>1, <4>1, Zenon
      <4> QED BY <3>1, <4>1, <4>3, <4>4, Zenon
    <3>2. CASE e \notin First(1, visited, rotation)
      BY <2>1, <3>2, Zenon
    <3> QED BY <3>1, <3>2, Zenon
  <2>4. First(1, visited, rotation) \subseteq visited /\ IsFiniteSet(visited)
    BY <1>1, <1>2, PublicationAssumption, FS_Subset, Zenon DEF First
  <2>5. ASSUME NEW e \in First(1, visited, rotation), NEW x \in First(1, visited, rotation) PROVE x = e
    <3>1. rotation[e] <= rotation[x] \/ rotation[x] <= rotation[e]
      BY <1>1, <1>2, <2>4
    <3> QED BY <1>1, <1>2, <2>4, <3>1, FirstOne, Zenon
  <2>6. batch \in [Entities -> SUBSET Ids]
    BY <1>3, <1>5, <1>7, <2>1, <2>3, Zenon
  <2> QED BY <2>3, <2>5, <2>6, Zenon
<1> QED BY <1>6, <1>7, Zenon

----------------------------------------------------------------------------
(* Records. *)

LEMMA HoldFields ==
  ASSUME NEW k \in HoldKinds, NEW through \in Nat, NEW tried \in Nat, NEW width \in Nat
  PROVE  LET h == Hold(k, through, tried, width)
         IN  h \in HoldRecord /\ h.kind = k /\ h.through = through /\ h.tried = tried /\ h.width = width
<1>1. FALSE \in Flag
  BY Zenon DEF Flag
<1> QED BY <1>1, Zenon DEF Hold, HoldRecord

LEMMA NoHoldFields == NoHold \in HoldRecord /\ NoHold.kind = "none"
<1>1. "none" \in HoldKinds /\ 0 \in Nat
  BY Zenon DEF HoldKinds
<1> QED BY <1>1, HoldFields DEF NoHold

LEMMA NewScheduleFields ==
  /\ NewSchedule \in ScheduleRecord /\ NewSchedule.held = [e \in Entities |-> NoHold]
  /\ NewSchedule.eligible # "NewWork"
<1>1. [e \in Entities |-> NoHold] \in [Entities -> HoldRecord]
  BY NoHoldFields, Zenon
<1>2. MaxEntities \in Nat /\ MaxOps \in Nat
  BY PublicationAssumption, Zenon
<1> QED BY <1>1, <1>2, Zenon DEF NewSchedule, ScheduleRecord

LEMMA NoQueueFields == NoQueue \in QueueRecord /\ NoQueue.ids = {}
<1>1. FALSE \in Flag
  BY Zenon DEF Flag
<1> QED BY <1>1, Zenon DEF NoQueue, QueueRecord

LEMMA NoAttemptFields ==
  /\ NoAttempt \in AttemptRecord /\ NoAttempt.pc = "idle" /\ NoAttempt.stored.ids = {}
  /\ \A e \in Entities : NoAttempt.batch[e] = {}
<1>1. FALSE \in Flag
  BY Zenon DEF Flag
<1>2. [e \in Entities |-> {}] \in [Entities -> SUBSET Ids]
  BY Zenon
<1> QED BY <1>1, <1>2, NoQueueFields, Zenon DEF NoAttempt, AttemptRecord

LEMMA RescheduleFields ==
  ASSUME NEW s \in ScheduleRecord, NEW outcome, NEW charged
  PROVE  LET t == Reschedule(outcome, s, charged)
         IN  /\ t \in ScheduleRecord
             /\ \/ t.held = s.held
                \/ t.held = NewSchedule.held /\ (~charged \/ outcome = "Discarded")
             /\ t.eligible = "NewWork" =>
                  outcome = "Stalled" /\ attempt.current /\ t.held = s.held /\ \A e \in Entities : ~s.held[e].due
<1>1. CASE outcome \in {"Published", "Discarded", "Empty"} /\ ~charged
  BY <1>1, NewScheduleFields, Zenon DEF Reschedule
<1>2. CASE ~(outcome \in {"Published", "Discarded", "Empty"} /\ ~charged)
  <2>1. PICK h, f, n, m, g :
          /\ h = IF outcome = "Discarded" THEN NewSchedule.held ELSE s.held
          /\ f = IF outcome \in {"Published", "Discarded"} THEN 0 ELSE s.failedHolds
          /\ n = IF outcome = "Published" THEN Doubled(s.entityLimit, MaxEntities) ELSE s.entityLimit
          /\ m = IF outcome = "Published" THEN Doubled(s.operationLimit, MaxOps) ELSE s.operationLimit
          /\ g = NextRun(outcome, s)
    BY Zenon
  <2>2. s.failedHolds \in Nat /\ s.entityLimit \in Nat /\ s.operationLimit \in Nat
        /\ s.held \in [Entities -> HoldRecord]
    BY Zenon DEF ScheduleRecord
  <2>3. \A a, b \in Nat : Doubled(a, b) \in Nat
    <3>1. TAKE a, b \in Nat
    <3>2. 2 * a \in Nat
      OBVIOUS
    <3>3. {2 * a, b} \in SUBSET Nat /\ {2 * a, b} # {}
      BY <3>2, Zenon
    <3> QED BY <3>3, MinIs, Zenon DEF Doubled
  <2>4. n \in Nat /\ m \in Nat
    BY <2>1, <2>2, <2>3, PublicationAssumption, Zenon
  <2>5. f \in Nat
    BY <2>1, <2>2, Zenon
  <2>6. h \in [Entities -> HoldRecord] /\ (h = s.held \/ (h = NewSchedule.held /\ outcome = "Discarded"))
    BY <2>1, <2>2, NewScheduleFields, ScheduleFields, Zenon
  <2>7. /\ g \in {"Now", "After", "NewWork"}
        /\ g = "NewWork" => outcome = "Stalled" /\ attempt.current /\ \A e \in Entities : ~s.held[e].due
    <3>1. "NewWork" # "Now" /\ "NewWork" # "After"
      BY Zenon
    <3> QED BY <2>1, <3>1, Zenon DEF NextRun
  <2>8. Reschedule(outcome, s, charged) =
          [s EXCEPT !.held = h, !.failedHolds = f, !.entityLimit = n, !.operationLimit = m, !.eligible = g]
    BY <1>2, <2>1, Zenon DEF Reschedule
  <2> DEFINE a == [s EXCEPT !.held = h]
             b == [a EXCEPT !.failedHolds = f]
             c == [b EXCEPT !.entityLimit = n]
             d == [c EXCEPT !.operationLimit = m]
             t == [d EXCEPT !.eligible = g]
  <2>9. Reschedule(outcome, s, charged) = t
    BY <2>8, Zenon
  <2>10. a \in ScheduleRecord /\ a.held = h
    BY <2>6, Zenon DEF ScheduleRecord
  <2> HIDE DEF a
  <2>11. b \in ScheduleRecord /\ b.held = h
    BY <2>5, <2>10, Zenon DEF ScheduleRecord
  <2> HIDE DEF b
  <2>12. c \in ScheduleRecord /\ c.held = h
    BY <2>4, <2>11, Zenon DEF ScheduleRecord
  <2> HIDE DEF c
  <2>13. d \in ScheduleRecord /\ d.held = h
    BY <2>4, <2>12, Zenon DEF ScheduleRecord
  <2> HIDE DEF d
  <2>14. t \in ScheduleRecord /\ t.held = h /\ t.eligible = g
    BY <2>7, <2>13, Zenon DEF ScheduleRecord
  <2> HIDE DEF t
  <2>15. g = "NewWork" => h = s.held
    <3>1. "Stalled" # "Discarded"
      BY Zenon
    <3> QED BY <2>1, <2>7, <3>1, Zenon
  <2> QED BY <2>6, <2>7, <2>9, <2>14, <2>15, Zenon
<1> QED BY <1>1, <1>2, Zenon

(* What the end of an attempt leaves.                                       *)
Ended(ids, held) ==
  /\ attempt' = NoAttempt /\ retained' \in QueueRecord /\ schedule' \in ScheduleRecord
  /\ retained'.ids = {} \/ retained'.ids = ids
  /\ schedule'.held = held \/ (schedule'.held = NewSchedule.held /\ (Stored' = {} \/ owner' = "Retired"))

LEMMA EndsFacts ==
  ASSUME NEW s \in ScheduleRecord, NEW outcome, NEW remaining \in QueueRecord,
         Ends(outcome, s, remaining), outcome = "Discarded" => owner' = "Retired"
  PROVE  /\ Ended(remaining.ids, s.held)
         /\ schedule'.eligible = "NewWork" =>
              outcome = "Stalled" /\ attempt.current /\ schedule'.held = s.held /\ \A e \in Entities : ~s.held[e].due
<1>1. PICK charged :
        /\ charged = Charges({id \in Ids : queue'[id] # None}, flight', unsettled')
        /\ schedule' = Reschedule(outcome, s, charged)
  BY Zenon DEF Ends
<1>2. ~charged => Stored' = {}
  BY <1>1, Zenon DEF Charges, Stored
<1>3. attempt' = NoAttempt /\ retained' \in {NoQueue, remaining}
  BY Zenon DEF Ends
<1>4. /\ schedule' \in ScheduleRecord
      /\ schedule'.held = s.held \/ (schedule'.held = NewSchedule.held /\ (~charged \/ outcome = "Discarded"))
      /\ schedule'.eligible = "NewWork" =>
           outcome = "Stalled" /\ attempt.current /\ schedule'.held = s.held /\ \A e \in Entities : ~s.held[e].due
  BY <1>1, RescheduleFields
<1>5. retained' \in QueueRecord /\ (retained'.ids = {} \/ retained'.ids = remaining.ids)
  BY <1>3, NoQueueFields, Zenon
<1> QED BY <1>2, <1>3, <1>4, <1>5, Zenon DEF Ended

----------------------------------------------------------------------------
(* Steps that leave the queue, the index, the batch and the holds alone. *)

SameHold(h, g) == h.kind = g.kind /\ h.through = g.through /\ h.tried = g.tried /\ h.width = g.width

LEMMA SoundSame ==
  ASSUME NEW e, NEW h, NEW g, SameHold(h, g), NEW ids, Sound(e, h, ids)
  PROVE  Sound(e, g, ids)
BY Zenon DEF SameHold, Sound

(* The queue that is listed may be dropped, or read again.                  *)
LEMMA ListKept ==
  ASSUME ListInv, UNCHANGED queue, Listed' \in {{}, Listed, Stored}
  PROVE  ListInv' /\ Stored' = Stored
<1>1. Stored' = Stored
  BY Zenon DEF Stored
<1>2. CASE Listed' = {}
  BY <1>1, <1>2, Zenon DEF ListInv, Closed
<1>3. CASE Listed' = Listed
  BY <1>1, <1>3, Zenon DEF ListInv, Closed
<1>4. CASE Listed' = Stored
  BY <1>1, <1>4, Zenon DEF ListInv, Closed
<1> QED BY <1>1, <1>2, <1>3, <1>4, Zenon

LEMMA NewestKept ==
  ASSUME NewestInv, UNCHANGED <<queue, newest, served>>, owner = "Retired" => owner' = "Retired"
  PROVE  NewestInv'
<1>1. Stored' = Stored
  BY Zenon DEF Stored
<1> QED BY <1>1, Zenon DEF NewestInv, Of

LEMMA ServedKept ==
  ASSUME ServedInv, UNCHANGED <<queue, served>>, owner = "Retired" => owner' = "Retired",
         faults' = 0 => faults = 0, Listed' \in {{}, Listed, Stored},
         owner' # "Retired" /\ faults' = 0 => \A e \in Entities : Sound(e, schedule'.held[e], Listed)
  PROVE  ServedInv'
<1>1. Stored' = Stored
  BY Zenon DEF Stored
<1>2. \A ids, e : Of(ids, e)' = Of(ids', e)
  BY Zenon DEF Of
<1>3. SUFFICES ASSUME owner' # "Retired", NEW e \in Entities
               PROVE  /\ Newer(e, Stored)' /\ Newer(e, Listed)'
                      /\ faults' = 0 => Sound(e, schedule.held[e], Listed)'
  BY Zenon DEF ServedInv
<1>4. Newer(e, Stored) /\ Newer(e, Listed) /\ Newer(e, {})
  BY <1>3, Zenon DEF ServedInv, Newer, Of
<1>5. Newer(e, Stored)' /\ Newer(e, Listed)'
  BY <1>1, <1>4, Zenon DEF Newer, Of
<1>6. ASSUME NEW id, Tried(e, id, Listed) PROVE Tried(e, id, Listed)'
  BY <1>1, <1>6, Zenon DEF Tried, Of
<1>7. \A id : Through(e, id)' = Through(e, id')
  BY <1>1, Zenon DEF Through, Of
<1>8. ASSUME faults' = 0 PROVE Sound(e, schedule.held[e], Listed)'
  <2>1. PICK h : h = schedule'.held[e]
    BY Zenon
  <2>2. Sound(e, h, Listed)
    BY <1>3, <1>8, <2>1, Zenon
  <2> QED BY <1>1, <1>6, <1>7, <2>1, <2>2, Zenon DEF Sound, Of
<1> QED BY <1>5, <1>8, Zenon

LEMMA BatchKept ==
  ASSUME BatchInv, attempt'.batch = attempt.batch,
         \A e : Of(attempt.stored.ids, e)' = Of(attempt.stored.ids, e),
         \A e \in Entities : SameHold(schedule.held[e], schedule'.held[e])
  PROVE  BatchInv'
<1>1. SUFFICES ASSUME NEW e \in Entities PROVE Alone(e, attempt.batch, attempt.stored.ids)'
  BY Zenon DEF BatchInv
<1>2. schedule'.held[e].kind = schedule.held[e].kind /\ schedule'.held[e].width = schedule.held[e].width
  BY Zenon DEF SameHold
<1>3. Alone(e, attempt.batch, attempt.stored.ids)
  BY Zenon DEF BatchInv
<1> QED BY <1>2, <1>3, Zenon DEF Alone

Quiet ==
  /\ UNCHANGED <<queue, newest, served>> /\ retained'.ids = retained.ids
  /\ owner = "Retired" => owner' = "Retired"
  /\ faults' = 0 => faults = 0
  /\ attempt'.pc = attempt.pc /\ attempt'.owner = attempt.owner
  /\ attempt'.stored.ids = attempt.stored.ids /\ attempt'.batch = attempt.batch
  /\ \A e \in Entities : SameHold(schedule.held[e], schedule'.held[e])

LEMMA QuietOK ==
  ASSUME IInv, TypeOK', Quiet
  PROVE  IInv'
<1>1. Listed' = Listed /\ UNCHANGED queue
  BY Zenon DEF Quiet, Listed
<1>2. ListInv'
  BY <1>1, ListKept, Zenon DEF IInv
<1>3. NewestInv'
  BY NewestKept, Zenon DEF IInv, Quiet
<1>4. \A e : Of(attempt.stored.ids, e)' = Of(attempt.stored.ids, e)
  BY <1>1, Zenon DEF Of, Quiet
<1>5. AttemptInv'
  BY <1>1, <1>4, Zenon DEF IInv, Quiet, AttemptInv, Closed
<1>6. BatchInv'
  BY <1>4, BatchKept, Zenon DEF IInv, Quiet
<1>7. owner' # "Retired" /\ faults' = 0 => \A e \in Entities : Sound(e, schedule'.held[e], Listed)
  <2>1. SUFFICES ASSUME owner' # "Retired", faults' = 0, NEW e \in Entities
                 PROVE  Sound(e, schedule'.held[e], Listed)
    BY Zenon
  <2>2. PICK h, g, ids : h = schedule.held[e] /\ g = schedule'.held[e] /\ ids = Listed
    BY Zenon
  <2>3. Sound(e, h, ids) /\ SameHold(h, g)
    BY <2>1, <2>2, Zenon DEF IInv, ServedInv, Quiet
  <2>4. Sound(e, g, ids)
    BY <2>3, SoundSame, Zenon
  <2> QED BY <2>2, <2>4, Zenon
<1>8. ServedInv'
  BY <1>1, <1>7, ServedKept, Zenon DEF IInv, Quiet
<1> QED BY <1>2, <1>3, <1>5, <1>6, <1>8, Zenon DEF IInv

LEMMA SameHolds ==
  ASSUME schedule'.held = schedule.held
  PROVE  \A e \in Entities : SameHold(schedule.held[e], schedule'.held[e])
BY Zenon DEF SameHold

LEMMA StoredMarked ==
  ASSUME NEW a \in QueueRecord
  PROVE  LET b == [a EXCEPT !.current = FALSE] IN b \in QueueRecord /\ b.ids = a.ids
<1>1. FALSE \in Flag
  BY Zenon DEF Flag
<1> QED BY <1>1, Zenon DEF QueueRecord

Marked(a, late) == [a EXCEPT !.current = FALSE, !.stored.current = FALSE, !.late = late]
LEMMA AttemptMarked ==
  ASSUME NEW a \in AttemptRecord, NEW late \in SUBSET Entities, NEW b, b = Marked(a, late)
  PROVE  /\ b \in AttemptRecord /\ b.pc = a.pc /\ b.owner = a.owner
         /\ b.stored.ids = a.stored.ids /\ b.batch = a.batch
<1>1. FALSE \in Flag
  BY Zenon DEF Flag
<1>2. PICK q : q = [a.stored EXCEPT !.current = FALSE]
  BY Zenon
<1>3. a.stored \in QueueRecord
  BY Zenon DEF AttemptRecord
<1>4. q \in QueueRecord /\ q.ids = a.stored.ids
  BY <1>2, <1>3, StoredMarked, Zenon
<1> DEFINE c == [a EXCEPT !.current = FALSE]
           d == [c EXCEPT !.stored = q]
           f == [d EXCEPT !.late = late]
<1>5. b = f
  BY <1>2, Zenon DEF AttemptRecord, Marked
<1>6. c \in AttemptRecord /\ c.pc = a.pc /\ c.owner = a.owner /\ c.batch = a.batch
  BY <1>1, Zenon DEF AttemptRecord
<1> HIDE DEF c
<1>7. d \in AttemptRecord /\ d.pc = a.pc /\ d.owner = a.owner /\ d.batch = a.batch /\ d.stored = q
  BY <1>4, <1>6, Zenon DEF AttemptRecord
<1> HIDE DEF d
<1>8. f \in AttemptRecord /\ f.pc = a.pc /\ f.owner = a.owner /\ f.batch = a.batch /\ f.stored = q
  BY <1>7, Zenon DEF AttemptRecord
<1> HIDE DEF f
<1> QED BY <1>4, <1>5, <1>8, Zenon

LEMMA EligibleAgain ==
  ASSUME NEW s \in ScheduleRecord, NEW g \in {"Now", "After", "NewWork"}
  PROVE  LET t == [s EXCEPT !.eligible = g] IN t \in ScheduleRecord /\ t.held = s.held /\ t.eligible = g
BY Zenon DEF ScheduleRecord

LEMMA Reeligible ==
  ASSUME TypeOK, schedule' = [schedule EXCEPT !.eligible = IF @ = "NewWork" THEN "Now" ELSE @]
  PROVE  schedule' \in ScheduleRecord /\ schedule'.held = schedule.held /\ schedule'.eligible # "NewWork"
<1>1. schedule \in ScheduleRecord
  BY Zenon DEF TypeOK
<1>2. schedule.eligible \in {"Now", "After", "NewWork"}
  BY <1>1, Zenon DEF ScheduleRecord
<1>3. PICK g : g = IF schedule.eligible = "NewWork" THEN "Now" ELSE schedule.eligible
  BY Zenon
<1>4. g \in {"Now", "After", "NewWork"} /\ g # "NewWork"
  BY <1>2, <1>3, Zenon
<1>5. schedule' = [schedule EXCEPT !.eligible = g]
  BY <1>3, Zenon
<1>6. PICK t : t = [schedule EXCEPT !.eligible = g]
  BY Zenon
<1>7. t \in ScheduleRecord /\ t.held = schedule.held /\ t.eligible = g
  BY <1>1, <1>4, <1>6, EligibleAgain, Zenon
<1> QED BY <1>4, <1>5, <1>6, <1>7, Zenon

LEMMA AdmitQuiet ==
  ASSUME TypeOK, Admit, UNCHANGED <<queue, newest, served>>,
         owner = "Retired" => owner' = "Retired", faults' = 0 => faults = 0
  PROVE  /\ retained' \in QueueRecord /\ attempt' \in AttemptRecord /\ schedule' \in ScheduleRecord
         /\ Quiet
<1>1. retained' \in QueueRecord /\ retained'.ids = retained.ids
  BY StoredMarked, Zenon DEF TypeOK, Admit
<1>2. attempt \in AttemptRecord
  BY Zenon DEF TypeOK
<1>3. attempt.late \in SUBSET Entities
  BY <1>2, Zenon DEF AttemptRecord
<1>4. attempt' = Marked(attempt, attempt.late)
  BY <1>2, Zenon DEF Admit, AttemptRecord, Marked
<1>5. /\ attempt' \in AttemptRecord /\ attempt'.pc = attempt.pc /\ attempt'.owner = attempt.owner
      /\ attempt'.stored.ids = attempt.stored.ids /\ attempt'.batch = attempt.batch
  BY <1>2, <1>3, <1>4, AttemptMarked, Zenon
<1>6. schedule' \in ScheduleRecord /\ schedule'.held = schedule.held
  BY Reeligible, Zenon DEF Admit
<1> QED BY <1>1, <1>5, <1>6, SameHolds, Zenon DEF Quiet

LEMMA QuietWrites ==
  ASSUME IInv, NEW e \in Entities, Reserve(e) \/ Abort(e) \/ Return(e) \/ ReturnUncertain(e) \/ Lose(e)
  PROVE  IInv' /\ Quiet
<1>1. TypeOK /\ UNCHANGED <<family, owner, queue, newest, served>>
  BY Zenon DEF IInv, Reserve, Abort, Return, ReturnUncertain, Lose
<1>2. \A f \in Flights : [flight EXCEPT ![e] = f] \in [Entities -> Flights]
  BY <1>1, Zenon DEF TypeOK
<1>3. flight' \in [Entities -> Flights]
  BY <1>2, Zenon DEF Flights, Flies, Reserve, Abort, Return, ReturnUncertain, Lose
<1>4. faults' \in Nat /\ (faults' = 0 => faults = 0)
  <2>1. faults \in Nat
    BY <1>1, Zenon DEF TypeOK
  <2>2. faults' = faults \/ faults' = faults + 1
    BY Zenon DEF Reserve, Abort, Return, ReturnUncertain, Lose, Fault
  <2> QED BY <2>1, <2>2
<1>5. unsettled' \in SUBSET Charged
  <2>1. CASE ReturnUncertain(e) /\ flight[e] = "landed"
    <3>1. unsettled' = unsettled \cup {newest[e]}
      BY <2>1, Zenon DEF ReturnUncertain
    <3>2. newest[e] \in 0..MaxOps /\ unsettled \in SUBSET Charged
      BY <1>1, Zenon DEF TypeOK
    <3> QED BY <3>1, <3>2, Zenon DEF Charged
  <2>2. CASE Lose(e)
    BY <1>1, <2>2, Zenon DEF TypeOK, Lose, Charged
  <2>3. CASE unsettled' = unsettled
    BY <1>1, <2>3, Zenon DEF TypeOK
  <2> QED BY <2>1, <2>2, <2>3, Zenon DEF Reserve, Abort, Return, ReturnUncertain, Lose
<1>6. retained' \in QueueRecord /\ attempt' \in AttemptRecord /\ schedule' \in ScheduleRecord /\ Quiet
  <2>1. CASE Admit
    BY <1>1, <1>4, <2>1, AdmitQuiet, Zenon
  <2>2. CASE NoAdmission
    BY <1>1, <1>4, <2>2, SameHolds, Zenon DEF NoAdmission, TypeOK, Quiet
  <2>3. CASE ReturnUncertain(e)
    <3>1. retained' \in QueueRecord /\ retained'.ids = retained.ids
      BY <1>1, <2>3, StoredMarked, Zenon DEF TypeOK, ReturnUncertain
    <3>2. attempt \in AttemptRecord
      BY <1>1, Zenon DEF TypeOK
    <3>3. PICK late : late = IF attempt.pc = "classified" THEN attempt.late \cup {e} ELSE attempt.late
      BY Zenon
    <3>4. late \in SUBSET Entities
      <4>1. attempt.late \in SUBSET Entities
        BY <3>2, Zenon DEF AttemptRecord
      <4> QED BY <3>3, <4>1, Zenon
    <3>5. attempt' = Marked(attempt, late)
      BY <2>3, <3>2, <3>3, Zenon DEF ReturnUncertain, AttemptRecord, Marked
    <3>6. /\ attempt' \in AttemptRecord /\ attempt'.pc = attempt.pc /\ attempt'.owner = attempt.owner
          /\ attempt'.stored.ids = attempt.stored.ids /\ attempt'.batch = attempt.batch
      BY <3>2, <3>4, <3>5, AttemptMarked, Zenon
    <3>7. schedule' \in ScheduleRecord /\ schedule'.held = schedule.held
      BY <1>1, <2>3, Reeligible, Zenon DEF ReturnUncertain
    <3> QED BY <1>1, <1>4, <3>1, <3>6, <3>7, SameHolds, Zenon DEF Quiet
  <2> QED BY <2>1, <2>2, <2>3, Zenon DEF Reserve, Abort, Return, Lose
<1> QED BY <1>1, <1>3, <1>4, <1>5, <1>6, QuietOK, Zenon DEF TypeOK

LEMMA QuietTime ==
  ASSUME IInv, Activate \/ Retire \/ Elapse \/ (\E e \in Entities : RetryDue(e))
  PROVE  IInv' /\ Quiet /\ (schedule' = schedule \/ schedule'.eligible # "NewWork")
<1>1. /\ TypeOK /\ schedule \in ScheduleRecord
      /\ UNCHANGED <<family, queue, newest, served, flight, unsettled, retained, attempt, faults>>
  BY Zenon DEF IInv, TypeOK, Activate, Retire, Elapse, RetryDue
<1>2. owner' \in {"Building", "Active", "Retired"} /\ (owner = "Retired" => owner' = "Retired")
  BY <1>1, Zenon DEF TypeOK, Activate, Retire, Elapse, RetryDue
<1>3. /\ schedule' \in ScheduleRecord /\ \A e \in Entities : SameHold(schedule.held[e], schedule'.held[e])
      /\ schedule' = schedule \/ schedule'.eligible # "NewWork"
  <2>1. CASE Activate \/ Retire
    BY <1>1, <2>1, SameHolds, Zenon DEF Activate, Retire
  <2>2. CASE Elapse
    <3>1. schedule' = [schedule EXCEPT !.eligible = "Now"]
      BY <2>2, Zenon DEF Elapse
    <3>2. PICK t : t = schedule'
      BY Zenon
    <3>3. t \in ScheduleRecord /\ t.held = schedule.held /\ t.eligible # "NewWork"
      BY <1>1, <3>1, <3>2, EligibleAgain, Zenon
    <3> QED BY <3>2, <3>3, SameHolds, Zenon
  <2>3. ASSUME NEW e \in Entities, RetryDue(e)
        PROVE  /\ schedule' \in ScheduleRecord /\ schedule'.eligible # "NewWork"
               /\ \A x \in Entities : SameHold(schedule.held[x], schedule'.held[x])
    <3>1. PICK h, held, g :
            /\ h = [schedule.held[e] EXCEPT !.due = TRUE]
            /\ held = [schedule.held EXCEPT ![e] = h]
            /\ g = IF schedule.eligible = "NewWork" THEN "Now" ELSE schedule.eligible
      BY Zenon
    <3>2. schedule.held \in [Entities -> HoldRecord] /\ schedule.held[e] \in HoldRecord
      BY <1>1, ScheduleFields, Zenon
    <3>3. TRUE \in Flag
      BY Zenon DEF Flag
    <3>4. h \in HoldRecord /\ SameHold(schedule.held[e], h)
      BY <3>1, <3>2, <3>3, Zenon DEF HoldRecord, SameHold
    <3>5. held \in [Entities -> HoldRecord] /\ held[e] = h /\ \A x \in Entities : x # e => held[x] = schedule.held[x]
      BY <3>1, <3>2, <3>4, Zenon
    <3>6. schedule.eligible \in {"Now", "After", "NewWork"}
      BY <1>1, Zenon DEF ScheduleRecord
    <3>7. g \in {"Now", "After", "NewWork"} /\ g # "NewWork"
      BY <3>1, <3>6, Zenon
    <3> DEFINE s == [schedule EXCEPT !.held = held]
    <3>8. schedule' = [s EXCEPT !.eligible = g]
      BY <1>1, <2>3, <3>1, Zenon DEF RetryDue, ScheduleRecord
    <3>9. s \in ScheduleRecord /\ s.held = held
      BY <1>1, <3>5, Zenon DEF ScheduleRecord
    <3> HIDE DEF s
    <3>10. schedule' \in ScheduleRecord /\ schedule'.held = held /\ schedule'.eligible # "NewWork"
      <4>1. PICK t : t = [s EXCEPT !.eligible = g]
        BY Zenon
      <4>2. t \in ScheduleRecord /\ t.held = held /\ t.eligible = g
        BY <3>7, <3>9, <4>1, EligibleAgain, Zenon
      <4> QED BY <3>7, <3>8, <4>1, <4>2, Zenon
    <3> QED BY <3>4, <3>5, <3>10, Zenon DEF SameHold
  <2> QED BY <2>1, <2>2, <2>3, Zenon
<1> QED BY <1>1, <1>2, <1>3, QuietOK, Zenon DEF TypeOK, Quiet

----------------------------------------------------------------------------
(* A write lands. *)

LEMMA NextIdFresh ==
  ASSUME TypeOK, NewestInv, NEW e \in Entities
  PROVE  /\ NextId \in Nat
         /\ \A x \in Entities : newest[x] \in Nat /\ newest[x] < NextId
         /\ \A id \in Stored : id \in Nat /\ id < NextId
<1> DEFINE N == {newest[x] : x \in Entities}
<1>1. N \in SUBSET (0..MaxOps) /\ N # {} /\ \A x \in Entities : newest[x] \in N
  BY Zenon DEF TypeOK
<1>2. NextId = 1 + Max(N)
  BY Zenon DEF NextId
<1> HIDE DEF N
<1>3. Max(N) \in N /\ \A y \in N : Max(N) >= y
  BY <1>1, MaxIs, Zenon
<1>4. PICK m : m = Max(N)
  BY Zenon
<1>5. NextId = 1 + m /\ m \in 0..MaxOps /\ \A x \in Entities : newest[x] \in 0..MaxOps /\ m >= newest[x]
  BY <1>1, <1>2, <1>3, <1>4, Zenon
<1>6. NextId \in Nat /\ \A x \in Entities : newest[x] \in Nat /\ newest[x] < NextId
  BY <1>5
<1>7. ASSUME NEW id \in Stored PROVE id \in Nat /\ id < NextId
  <2>1. id \in Nat /\ queue[id].entity \in Entities /\ id <= newest[queue[id].entity]
    BY OperationFields, Zenon DEF NewestInv
  <2>2. PICK k : k = newest[queue[id].entity]
    BY Zenon
  <2>3. k \in Nat /\ k < NextId /\ id <= k
    BY <1>6, <2>1, <2>2, Zenon
  <2> QED BY <1>6, <2>1, <2>3
<1> QED BY <1>6, <1>7, Zenon

LEMMA LandFacts ==
  ASSUME IInv, NEW e \in Entities, Land(e)
  PROVE  \E n \in Ids :
           /\ n = NextId /\ n \in Nat /\ n <= n /\ n \in 0..MaxOps
           /\ \A x \in Entities : newest[x] \in Nat /\ newest[x] < n
           /\ queue' \in [Ids -> Operation \cup {None}]
           /\ \A id \in Stored : ~(n <= id) /\ id # n /\ id <= n
           /\ Stored' = Stored \cup {n} /\ n \notin Stored /\ \A id \in Stored : queue'[id] = queue[id]
           /\ queue'[n].entity = e
           /\ newest' \in [Entities -> 0..MaxOps] /\ newest'[e] = n
           /\ \A x \in Entities : x # e => newest'[x] = newest[x]
           /\ \A x : x # e => Of(Stored, x)' = Of(Stored, x)
           /\ Of(Stored, e)' = Of(Stored, e) \cup {n}
<1>1. TypeOK /\ NewestInv
  BY Zenon DEF IInv
<1>2. PICK n : n = NextId
  BY Zenon
<1>3. n \in Ids /\ n \in Nat /\ n <= n
  BY <1>2 DEF Land, Ids
<1>4. /\ \A x \in Entities : newest[x] \in Nat /\ newest[x] < n
      /\ \A id \in Stored : id \in Nat /\ id < n
  BY <1>1, <1>2, NextIdFresh, Zenon
<1>5. PICK kind \in Kinds : queue' = [queue EXCEPT ![n] = [entity |-> e, kind |-> kind]]
  BY <1>2, Zenon DEF Land
<1>6. PICK op : op = [entity |-> e, kind |-> kind]
  BY Zenon
<1>7. op \in Operation /\ op.entity = e
  BY <1>6, Zenon DEF Operation
<1>8. op # None
  BY <1>7, PublicationAssumption, Zenon DEF Operation
<1>9. queue \in [Ids -> Operation \cup {None}]
  BY <1>1, Zenon DEF TypeOK
<1>10. /\ queue' \in [Ids -> Operation \cup {None}] /\ queue'[n] = op
       /\ \A id \in Ids : id # n => queue'[id] = queue[id]
  BY <1>3, <1>5, <1>6, <1>7, <1>9, Zenon
<1>11. \A id \in Stored : ~(n <= id) /\ id # n /\ id <= n
  BY <1>3, <1>4
<1>12. Stored' = Stored \cup {n} /\ n \notin Stored /\ \A id \in Stored : queue'[id] = queue[id]
  BY <1>3, <1>8, <1>10, <1>11, Zenon DEF Stored
<1>13. queue'[n].entity = e
  BY <1>7, <1>10, Zenon
<1>14. newest' = [newest EXCEPT ![e] = n] /\ newest \in [Entities -> 0..MaxOps] /\ n \in 0..MaxOps
  BY <1>1, <1>2, <1>3 DEF Land, TypeOK, Ids
<1>15. newest' \in [Entities -> 0..MaxOps] /\ newest'[e] = n /\ \A x \in Entities : x # e => newest'[x] = newest[x]
  BY <1>14, Zenon
<1>16. /\ \A x : x # e => Of(Stored, x)' = Of(Stored, x)
       /\ Of(Stored, e)' = Of(Stored, e) \cup {n}
  BY <1>12, <1>13, Zenon DEF Of
<1> QED BY <1>2, <1>3, <1>4, <1>10, <1>11, <1>12, <1>13, <1>14, <1>15, <1>16, Zenon

LEMMA LandOK ==
  ASSUME IInv, NEW e \in Entities, Land(e)
  PROVE  IInv'
<1>1. /\ TypeOK /\ ListInv /\ AttemptInv /\ NewestInv /\ BatchInv /\ ServedInv
      /\ UNCHANGED <<family, owner, served, faults, retained, attempt, schedule>>
  BY Zenon DEF IInv, Land, NoAdmission
<1>2. PICK n \in Ids :
        /\ n = NextId /\ n \in Nat /\ n <= n /\ n \in 0..MaxOps
        /\ \A x \in Entities : newest[x] \in Nat /\ newest[x] < n
        /\ queue' \in [Ids -> Operation \cup {None}]
        /\ \A id \in Stored : ~(n <= id) /\ id # n /\ id <= n
        /\ Stored' = Stored \cup {n} /\ n \notin Stored /\ \A id \in Stored : queue'[id] = queue[id]
        /\ queue'[n].entity = e
        /\ newest' \in [Entities -> 0..MaxOps] /\ newest'[e] = n
        /\ \A x \in Entities : x # e => newest'[x] = newest[x]
        /\ \A x : x # e => Of(Stored, x)' = Of(Stored, x)
        /\ Of(Stored, e)' = Of(Stored, e) \cup {n}
  BY LandFacts, Zenon
<1>3. n \in Nat /\ n <= n
  BY <1>2, Zenon
<1>4. \A x \in Entities : newest[x] \in Nat /\ newest[x] < n
  BY <1>2, Zenon
<1>5. queue' \in [Ids -> Operation \cup {None}]
  BY <1>2, Zenon
<1>6. \A id \in Stored : ~(n <= id) /\ id # n /\ id <= n
  BY <1>2, Zenon
<1>7. Stored' = Stored \cup {n} /\ n \notin Stored /\ \A id \in Stored : queue'[id] = queue[id]
  BY <1>2, Zenon
<1>8. queue'[n].entity = e
  BY <1>2, Zenon
<1>9. n = NextId /\ n \in 0..MaxOps
  BY <1>2, Zenon
<1>10. newest' \in [Entities -> 0..MaxOps] /\ newest'[e] = n /\ \A x \in Entities : x # e => newest'[x] = newest[x]
  BY <1>2, Zenon
<1>11. TypeOK'
  <2>1. flight' \in [Entities -> Flights]
    <3>1. \A f \in Flights : [flight EXCEPT ![e] = f] \in [Entities -> Flights]
      BY <1>1, Zenon DEF TypeOK
    <3> QED BY <3>1, Zenon DEF Flights, Flies, Land
  <2>2. unsettled' \in SUBSET Charged
    <3>1. unsettled' = unsettled \/ unsettled' = unsettled \cup {n}
      BY <1>9, Zenon DEF Land
    <3>2. unsettled \in SUBSET Charged
      BY <1>1, Zenon DEF TypeOK
    <3> QED BY <1>9, <3>1, <3>2, Zenon DEF Charged
  <2> QED BY <1>1, <1>5, <1>10, <2>1, <2>2, Zenon DEF TypeOK
<1>12. Listed' = Listed /\ Listed \subseteq Stored /\ attempt.stored.ids \subseteq Stored
  BY <1>1, Zenon DEF Listed, ListInv
<1>13. ListInv'
  BY <1>1, <1>6, <1>7, <1>8, <1>12, Zenon DEF ListInv, Closed
<1>14. /\ \A x : Of(attempt.stored.ids, x)' = Of(attempt.stored.ids, x)
       /\ \A x : Of(Listed, x)' = Of(Listed, x)
       /\ \A x : x # e => Of(Stored, x)' = Of(Stored, x)
       /\ Of(Stored, e)' = Of(Stored, e) \cup {n}
  BY <1>1, <1>7, <1>8, <1>12, Zenon DEF Of
<1>15. AttemptInv'
  <2>1. \A x \in Entities : /\ attempt.batch[x] \subseteq attempt.stored.ids
                            /\ Closed(attempt.batch[x], attempt.stored.ids)
    BY <1>1, Zenon DEF AttemptInv, Of
  <2>2. \A x \in Entities : Closed(attempt.batch[x], attempt.stored.ids)'
    BY <1>1, <1>7, <1>12, <2>1, Zenon DEF Closed
  <2> QED BY <1>1, <1>14, <2>2, Zenon DEF AttemptInv
<1>16. NewestInv'
  <2>1. \A id \in Stored' : id <= newest'[queue'[id].entity]
    <3>1. ASSUME NEW id \in Stored PROVE id <= newest'[queue'[id].entity]
      <4>1. queue[id].entity \in Entities /\ queue'[id] = queue[id]
        BY <1>1, <1>7, OperationFields, Zenon
      <4>2. id <= newest[queue[id].entity] /\ id <= n
        BY <1>1, <1>6, Zenon DEF NewestInv
      <4> QED BY <1>10, <4>1, <4>2, Zenon
    <3>2. n <= newest'[queue'[n].entity]
      BY <1>3, <1>8, <1>10, Zenon
    <3> QED BY <1>7, <3>1, <3>2, Zenon
  <2>2. ASSUME NEW x \in Entities
        PROVE  (newest'[x] \in Stored' => queue'[newest'[x]].entity = x) /\ served[x] <= newest'[x]
    <3>1. CASE x = e
      <4>1. served[e] <= newest[e] /\ served[e] \in 0..MaxOps /\ newest[e] < n /\ newest[e] \in Nat
        BY <1>1, <1>4, Zenon DEF NewestInv, TypeOK
      <4>2. served[e] <= n
        BY <1>3, <4>1
      <4> QED BY <1>8, <1>10, <3>1, <4>2, Zenon
    <3>2. CASE x # e
      <4>1. newest[x] # n
        BY <1>3, <1>4
      <4> QED BY <1>1, <1>7, <1>10, <3>2, <4>1, Zenon DEF NewestInv
    <3> QED BY <3>1, <3>2, Zenon
  <2>3. ASSUME owner # "Retired", NEW x \in Entities
        PROVE  newest'[x] \in Stored' \/ (newest'[x] = served[x] /\ Of(Stored, x)' = {})
    BY <1>1, <1>7, <1>10, <1>14, <2>3, Zenon DEF NewestInv
  <2> QED BY <1>1, <2>1, <2>2, <2>3, Zenon DEF NewestInv
<1>17. BatchInv'
  BY <1>1, <1>14, SameHolds, BatchKept, Zenon
<1>18. ServedInv'
  <2>1. SUFFICES ASSUME owner # "Retired", NEW x \in Entities
                 PROVE  /\ Newer(x, Stored)' /\ Newer(x, Listed)'
                        /\ faults = 0 => Sound(x, schedule.held[x], Listed)'
    BY <1>1, Zenon DEF ServedInv
  <2>2. Newer(x, Stored) /\ Newer(x, Listed) /\ (faults = 0 => Sound(x, schedule.held[x], Listed))
    BY <1>1, <2>1, Zenon DEF ServedInv
  <2>3. served[e] <= newest[e] /\ served[e] \in 0..MaxOps /\ newest[e] < n /\ newest[e] \in Nat
    BY <1>1, <1>4, Zenon DEF NewestInv, TypeOK
  <2>4. n >= served[e]
    BY <1>3, <2>3
  <2>5. Newer(x, Stored)' /\ Newer(x, Listed)'
    BY <1>1, <1>14, <2>2, <2>4, Zenon DEF Newer
  <2>6. ASSUME NEW id, Tried(x, id, Listed)
        PROVE  Tried(x, id, Listed)' /\ Through(x, id)' = Through(x, id)
    <3>1. id \in Stored /\ id \in Of(Stored, x)
      BY <2>6, Zenon DEF Tried, Of
    <3>2. Through(x, id)' = Through(x, id)
      BY <1>6, <1>14, <3>1, Zenon DEF Through
    <3>3. Tried(x, id, Listed)'
      BY <1>1, <1>12, <1>14, <2>6, Zenon DEF Tried
    <3> QED BY <3>2, <3>3, Zenon
  <2>7. ASSUME faults = 0 PROVE Sound(x, schedule.held[x], Listed)'
    <3>1. PICK h : h = schedule.held[x]
      BY Zenon
    <3>2. Sound(x, h, Listed)
      BY <2>2, <2>7, <3>1, Zenon
    <3>3. h.kind = "none" => \A y \in Of(Stored, x)' : y >= served[x]
      BY <1>14, <2>4, <3>2, Zenon DEF Sound
    <3>4. h.kind \in {"Waiting", "Failed", "Repairing"} => Tried(x, h.through, Listed)'
      BY <2>6, <3>2, Zenon DEF Sound
    <3>5. h.kind = "Repairing" => /\ Tried(x, h.tried, Listed)'
                                  /\ Cardinality(Through(x, h.through)') <= h.width
      BY <2>6, <3>2, Zenon DEF Sound
    <3> QED BY <1>1, <3>1, <3>3, <3>4, <3>5, Zenon DEF Sound
  <2> QED BY <2>5, <2>7, Zenon
<1> QED BY <1>11, <1>13, <1>15, <1>16, <1>17, <1>18, Zenon DEF IInv

----------------------------------------------------------------------------
(* An attempt begins, chooses, or ends without a commit. *)

LEMMA BeginOK ==
  ASSUME IInv, Begin
  PROVE  IInv'
<1>1. /\ TypeOK /\ ListInv /\ AttemptInv /\ NewestInv /\ BatchInv /\ ServedInv /\ attempt.pc = "idle"
      /\ UNCHANGED <<family, owner, queue, newest, served, flight, unsettled, schedule, faults>>
      /\ retained' = NoQueue
  BY Zenon DEF IInv, Begin
<1>2. TRUE \in Flag
  BY Zenon DEF Flag
<1>3. retained \in QueueRecord /\ Unknown \in SUBSET Entities /\ owner \in {"Building", "Active", "Retired"}
  BY <1>1, Zenon DEF TypeOK, Unknown
<1>4. retained.current \in Flag
  BY <1>3, Zenon DEF QueueRecord
<1> DEFINE a == [NoAttempt EXCEPT !.pc = "classified"]
           b == [a EXCEPT !.owner = owner]
           c == [b EXCEPT !.current = TRUE]
           d == [c EXCEPT !.same = retained.current]
           f == [d EXCEPT !.stored = retained]
           g == [f EXCEPT !.awaits = Unknown]
<1>5. attempt' = g
  BY Zenon DEF Begin
<1>6. a \in AttemptRecord /\ a.pc = "classified" /\ a.batch = NoAttempt.batch
  BY NoAttemptFields, Zenon DEF AttemptRecord
<1> HIDE DEF a
<1>7. b \in AttemptRecord /\ b.pc = "classified" /\ b.batch = NoAttempt.batch /\ b.owner = owner
  BY <1>3, <1>6, Zenon DEF AttemptRecord
<1> HIDE DEF b
<1>8. c \in AttemptRecord /\ c.pc = "classified" /\ c.batch = NoAttempt.batch /\ c.owner = owner
  BY <1>2, <1>7, Zenon DEF AttemptRecord
<1> HIDE DEF c
<1>9. d \in AttemptRecord /\ d.pc = "classified" /\ d.batch = NoAttempt.batch /\ d.owner = owner
  BY <1>4, <1>8, Zenon DEF AttemptRecord
<1> HIDE DEF d
<1>10. f \in AttemptRecord /\ f.pc = "classified" /\ f.batch = NoAttempt.batch /\ f.owner = owner /\ f.stored = retained
  BY <1>3, <1>9, Zenon DEF AttemptRecord
<1> HIDE DEF f
<1>11. g \in AttemptRecord /\ g.pc = "classified" /\ g.batch = NoAttempt.batch /\ g.owner = owner /\ g.stored = retained
  BY <1>3, <1>10, Zenon DEF AttemptRecord
<1> HIDE DEF g
<1>12. /\ attempt' \in AttemptRecord /\ attempt'.pc = "classified" /\ attempt'.owner = owner
       /\ attempt'.stored = retained /\ \A e \in Entities : attempt'.batch[e] = {}
  BY <1>5, <1>11, NoAttemptFields, Zenon
<1>13. TypeOK'
  BY <1>1, <1>12, NoQueueFields, Zenon DEF TypeOK
<1>14. Listed' = Listed
  <2>1. attempt.stored.ids = {} /\ retained'.ids = {} /\ attempt'.stored.ids = retained.ids
    BY <1>1, <1>12, NoQueueFields, Zenon DEF AttemptInv
  <2> QED BY <2>1, Zenon DEF Listed
<1>15. ListInv'
  BY <1>1, <1>14, ListKept, Zenon
<1>16. AttemptInv'
  <2>1. \A e \in Entities : (attempt.batch[e] \subseteq Of(attempt.stored.ids, e))' /\ Closed(attempt.batch[e], attempt.stored.ids)'
    BY <1>12, Zenon DEF Closed
  <2>2. retained'.ids = {} /\ attempt'.pc # "idle" /\ attempt'.pc # "discarding"
    BY <1>1, <1>12, NoQueueFields, Zenon
  <2> QED BY <1>1, <1>12, <2>1, <2>2, Zenon DEF AttemptInv
<1>17. NewestInv'
  BY <1>1, NewestKept, Zenon
<1>18. BatchInv'
  BY <1>12, Zenon DEF BatchInv, Alone
<1>19. ServedInv'
  BY <1>1, <1>14, ServedKept, Zenon DEF ServedInv
<1> QED BY <1>13, <1>15, <1>16, <1>17, <1>18, <1>19, Zenon DEF IInv

LEMMA NothingSound ==
  ASSUME Stored = {}, NEW e, NEW ids
  PROVE  Sound(e, NoHold, ids)
<1>1. NoHold.kind = "none" /\ "none" \notin {"Waiting", "Failed", "Repairing"}
  BY NoHoldFields, Zenon
<1> QED BY <1>1, Zenon DEF Sound, Of

LEMMA FaultsStep ==
  ASSUME TypeOK, faults' = faults \/ faults' = faults + 1
  PROVE  faults' \in Nat /\ (faults' = 0 => faults = 0)
BY DEF TypeOK

LEMMA EndOK ==
  ASSUME IInv, attempt.pc # "idle", NEW ids \in {{}, attempt.stored.ids}, NEW held, Ended(ids, held),
         UNCHANGED <<family, owner, queue, newest, served>>,
         flight' \in [Entities -> Flights], unsettled' \in SUBSET Charged,
         faults' = faults \/ faults' = faults + 1,
         owner # "Retired" /\ faults' = 0 => \A e \in Entities : Sound(e, held[e], Listed)
  PROVE  IInv'
<1>1. /\ TypeOK /\ ListInv /\ AttemptInv /\ NewestInv /\ BatchInv /\ ServedInv
      /\ attempt' = NoAttempt /\ retained' \in QueueRecord /\ schedule' \in ScheduleRecord
      /\ retained'.ids = {} \/ retained'.ids = ids
  BY Zenon DEF IInv, Ended
<1>2. faults' \in Nat /\ (faults' = 0 => faults = 0)
  BY <1>1, FaultsStep, Zenon
<1>3. TypeOK'
  BY <1>1, <1>2, NoAttemptFields, Zenon DEF TypeOK
<1>4. Listed' \in {{}, Listed, Stored}
  <2>1. Listed' = retained'.ids /\ Listed = attempt.stored.ids
    BY <1>1, NoAttemptFields, Zenon DEF Listed, AttemptInv
  <2> QED BY <1>1, <2>1, Zenon
<1>5. ListInv' /\ Stored' = Stored
  BY <1>1, <1>4, ListKept, Zenon
<1>6. NewestInv'
  BY <1>1, NewestKept, Zenon
<1>7. \A e \in Entities : attempt'.batch[e] = {}
  BY <1>1, NoAttemptFields, Zenon
<1>8. AttemptInv'
  <2>1. \A e \in Entities : (attempt.batch[e] \subseteq Of(attempt.stored.ids, e))' /\ Closed(attempt.batch[e], attempt.stored.ids)'
    BY <1>7, Zenon DEF Closed
  <2>2. attempt'.pc = "idle" /\ attempt'.pc # "discarding" /\ attempt'.stored.ids = {}
    BY <1>1, NoAttemptFields, Zenon
  <2> QED BY <1>7, <2>1, <2>2, Zenon DEF AttemptInv
<1>9. BatchInv'
  BY <1>7, Zenon DEF BatchInv, Alone
<1>10. owner' # "Retired" /\ faults' = 0 => \A e \in Entities : Sound(e, schedule'.held[e], Listed)
  <2>1. CASE schedule'.held = held
    BY <2>1, Zenon
  <2>2. CASE schedule'.held = NewSchedule.held /\ Stored' = {}
    <3>1. Stored = {} /\ \A e \in Entities : schedule'.held[e] = NoHold
      BY <1>5, <2>2, NewScheduleFields, Zenon
    <3> QED BY <3>1, NothingSound, Zenon
  <2> QED BY <2>1, <2>2, Zenon DEF Ended
<1>11. ServedInv'
  BY <1>1, <1>2, <1>4, <1>10, ServedKept, Zenon
<1> QED BY <1>3, <1>5, <1>6, <1>8, <1>9, <1>11, Zenon DEF IInv

(* An attempt that ends with the schedule it began with.                    *)
LEMMA EndsUnheld ==
  ASSUME IInv, attempt.pc # "idle", NEW outcome, NEW remaining \in {NoQueue, attempt.stored},
         Ends(outcome, schedule, remaining), outcome # "Discarded",
         UNCHANGED <<family, owner, queue, newest, served, flight>>, unsettled' \subseteq unsettled,
         faults' = faults \/ faults' = faults + 1
  PROVE  IInv'
<1>1. TypeOK /\ schedule \in ScheduleRecord /\ attempt \in AttemptRecord
  BY Zenon DEF IInv, TypeOK
<1>2. attempt.stored \in QueueRecord
  BY <1>1, Zenon DEF AttemptRecord
<1>3. remaining \in QueueRecord /\ remaining.ids \in {{}, attempt.stored.ids}
  BY <1>2, NoQueueFields, Zenon
<1>4. Ended(remaining.ids, schedule.held)
  BY <1>1, <1>3, EndsFacts, Zenon
<1>5. faults' = 0 => faults = 0
  BY <1>1, FaultsStep, Zenon
<1>6. owner # "Retired" /\ faults' = 0 => \A e \in Entities : Sound(e, schedule.held[e], Listed)
  BY <1>5, Zenon DEF IInv, ServedInv
<1>7. flight' \in [Entities -> Flights] /\ unsettled' \in SUBSET Charged
  BY <1>1, Zenon DEF TypeOK
<1> QED BY <1>3, <1>4, <1>6, <1>7, EndOK, Zenon

Chosen(a, pc, stored, batch) ==
  [a EXCEPT !.pc = pc, !.stored = stored, !.batch = batch, !.awaits = {}, !.late = {}]

LEMMA ChosenFields ==
  ASSUME NEW a \in AttemptRecord, NEW pc \in {"selected", "discarding"}, NEW stored \in QueueRecord,
         NEW batch \in [Entities -> SUBSET Ids]
  PROVE  LET t == Chosen(a, pc, stored, batch)
         IN  t \in AttemptRecord /\ t.pc = pc /\ t.owner = a.owner /\ t.stored = stored /\ t.batch = batch
<1> DEFINE b == [a EXCEPT !.pc = pc]
           c == [b EXCEPT !.stored = stored]
           d == [c EXCEPT !.batch = batch]
           f == [d EXCEPT !.awaits = {}]
           g == [f EXCEPT !.late = {}]
<1>1. Chosen(a, pc, stored, batch) = g
  BY Zenon DEF Chosen
<1>2. b \in AttemptRecord /\ b.pc = pc /\ b.owner = a.owner
  BY Zenon DEF AttemptRecord
<1> HIDE DEF b
<1>3. c \in AttemptRecord /\ c.pc = pc /\ c.owner = a.owner /\ c.stored = stored
  BY <1>2, Zenon DEF AttemptRecord
<1> HIDE DEF c
<1>4. d \in AttemptRecord /\ d.pc = pc /\ d.owner = a.owner /\ d.stored = stored /\ d.batch = batch
  BY <1>3, Zenon DEF AttemptRecord
<1> HIDE DEF d
<1>5. f \in AttemptRecord /\ f.pc = pc /\ f.owner = a.owner /\ f.stored = stored /\ f.batch = batch
  BY <1>4, Zenon DEF AttemptRecord
<1> HIDE DEF f
<1>6. g \in AttemptRecord /\ g.pc = pc /\ g.owner = a.owner /\ g.stored = stored /\ g.batch = batch
  BY <1>5, Zenon DEF AttemptRecord
<1> HIDE DEF g
<1> QED BY <1>1, <1>6, Zenon

LEMMA ChosenOK ==
  ASSUME IInv, attempt.pc # "idle", NEW pc \in {"selected", "discarding"}, NEW stored \in QueueRecord,
         stored.ids \in {attempt.stored.ids, Stored}, NEW batch \in [Entities -> SUBSET Ids],
         attempt' = Chosen(attempt, pc, stored, batch),
         pc = "discarding" => attempt.owner = "Retired" /\ \A e \in Entities : batch[e] = {},
         \A e \in Entities : batch[e] \subseteq Of(stored.ids, e) /\ Closed(batch[e], stored.ids),
         \A e \in Entities : Alone(e, batch, stored.ids),
         UNCHANGED <<family, owner, queue, newest, served, flight, retained, schedule, faults>>,
         unsettled' \subseteq unsettled
  PROVE  IInv'
<1>1. TypeOK /\ ListInv /\ AttemptInv /\ NewestInv /\ BatchInv /\ ServedInv /\ attempt \in AttemptRecord
  BY Zenon DEF IInv, TypeOK
<1>2. /\ attempt' \in AttemptRecord /\ attempt'.pc = pc /\ attempt'.owner = attempt.owner
      /\ attempt'.stored = stored /\ attempt'.batch = batch
  BY <1>1, ChosenFields
<1>3. TypeOK'
  BY <1>1, <1>2, Zenon DEF TypeOK
<1>4. Listed' \in {{}, Listed, Stored}
  <2>1. retained.ids = {}
    BY <1>1, Zenon DEF AttemptInv
  <2>2. Listed = attempt.stored.ids /\ Listed' = stored.ids
    BY <1>2, <2>1, Zenon DEF Listed
  <2> QED BY <2>2, Zenon
<1>5. ListInv'
  BY <1>1, <1>4, ListKept, Zenon
<1>6. \A e : Of(attempt.stored.ids, e)' = Of(stored.ids, e)
  BY <1>2, Zenon DEF Of
<1>7. AttemptInv'
  <2>1. \A e \in Entities : Closed(attempt.batch[e], attempt.stored.ids)'
    BY <1>2, Zenon DEF Closed
  <2>2. attempt'.pc # "idle" /\ attempt'.pc # "selected" => pc = "discarding"
    BY <1>2, Zenon
  <2>3. attempt'.pc # "idle"
    BY <1>2, Zenon
  <2>4. retained'.ids = {}
    BY <1>1, Zenon DEF AttemptInv
  <2>5. attempt'.owner = "Retired" => owner' = "Retired"
    BY <1>1, <1>2, Zenon DEF AttemptInv
  <2>6. attempt'.pc = "discarding" => attempt'.owner = "Retired" /\ \A e \in Entities : attempt'.batch[e] = {}
    BY <1>2, Zenon
  <2>7. \A e \in Entities : (attempt.batch[e] \subseteq Of(attempt.stored.ids, e))'
    BY <1>2, <1>6, Zenon
  <2> QED BY <1>2, <2>1, <2>2, <2>3, <2>4, <2>5, <2>6, <2>7, Zenon DEF AttemptInv
<1>8. NewestInv'
  BY <1>1, NewestKept, Zenon
<1>9. BatchInv'
  <2>1. SUFFICES ASSUME NEW e \in Entities PROVE Alone(e, attempt.batch, attempt.stored.ids)'
    BY Zenon DEF BatchInv
  <2>2. Alone(e, batch, stored.ids)
    BY Zenon
  <2> QED BY <1>2, <1>6, <2>2, Zenon DEF Alone
<1>10. ServedInv'
  BY <1>1, <1>4, ServedKept, Zenon DEF ServedInv
<1> QED BY <1>3, <1>5, <1>7, <1>8, <1>9, <1>10, Zenon DEF IInv

LEMMA SettleOK ==
  ASSUME IInv, Settle
  PROVE  IInv'
<1>1. TypeOK /\ ListInv /\ AttemptInv /\ attempt \in AttemptRecord
  BY Zenon DEF IInv, TypeOK
<1>2. /\ attempt.pc = "classified"
      /\ UNCHANGED <<family, owner, queue, newest, served, flight, faults>> /\ unsettled' \subseteq unsettled
  BY Zenon DEF Settle, Flushed
<1>3. attempt.pc # "idle" /\ attempt.pc # "selected"
  BY <1>2, Zenon
<1>4. PICK stored :
        /\ stored = IF Usable(attempt.stored) THEN attempt.stored
                    ELSE [ids |-> Stored, current |-> attempt.current]
        /\ \/ attempt.owner = "Building" /\ Ends("Deferred", schedule, NoQueue)
           \/ attempt.owner # "Building" /\ stored.ids = {} /\ Ends("Empty", schedule, NoQueue)
           \/ attempt.owner = "Active" /\ stored.ids # {} /\ Choose(stored)
           \/ /\ attempt.owner = "Retired" /\ stored.ids # {}
              /\ attempt' = [attempt EXCEPT !.pc = "discarding", !.stored = stored,
                               !.awaits = {}, !.late = {}]
              /\ UNCHANGED <<retained, schedule>>
  BY Zenon DEF Settle
<1>5. stored \in QueueRecord /\ stored.ids \in {attempt.stored.ids, Stored}
  <2>1. attempt.stored \in QueueRecord /\ attempt.current \in Flag /\ Stored \in SUBSET Ids
    BY <1>1, Zenon DEF AttemptRecord, Stored
  <2>2. PICK fresh : fresh = [ids |-> Stored, current |-> attempt.current]
    BY Zenon
  <2>3. fresh \in QueueRecord /\ fresh.ids = Stored
    BY <2>1, <2>2, Zenon DEF QueueRecord
  <2> QED BY <1>4, <2>1, <2>2, <2>3, Zenon
<1>6. \A outcome : outcome # "Discarded" /\ Ends(outcome, schedule, NoQueue) => IInv'
  BY <1>2, <1>3, EndsUnheld, Zenon
<1>7. CASE Ends("Deferred", schedule, NoQueue) \/ Ends("Empty", schedule, NoQueue)
  <2>1. "Deferred" # "Discarded" /\ "Empty" # "Discarded"
    BY Zenon
  <2> QED BY <1>6, <1>7, <2>1, Zenon
<1>8. CASE Choose(stored)
  <2>1. CASE Visited(stored.ids) = {}
    <3>1. Ends("Stalled", schedule, NoQueue) /\ "Stalled" # "Discarded"
      BY <1>8, <2>1, Zenon DEF Choose
    <3> QED BY <1>6, <3>1, Zenon
  <2>2. CASE Visited(stored.ids) # {}
    <3>1. PICK input, entities, batch :
            /\ input \in InputLimits /\ batch = SelectBatch(stored.ids, entities, input)
            /\ attempt' = Chosen(attempt, "selected", stored, batch)
            /\ UNCHANGED <<retained, schedule>>
      BY <1>8, <2>2, Zenon DEF Choose, Chosen
    <3>2. input \in Nat /\ stored.ids \in SUBSET Stored
      BY <1>1, <1>5, <3>1, PublicationAssumption, Zenon DEF ListInv, Listed
    <3>3. PICK ids : ids = stored.ids
      BY Zenon
    <3>4. /\ batch \in [Entities -> SUBSET Ids]
          /\ \A e \in Entities :
               /\ batch[e] \subseteq Of(ids, e)
               /\ \A x \in batch[e], y \in Of(ids, e) : y <= x => y \in batch[e]
               /\ IsHeld(e) /\ batch[e] # {} =>
                    /\ batch[e] = Repair(schedule.held[e], Of(ids, e))
                    /\ \A x \in Entities : batch[x] # {} => x = e
      <4>1. ids \in SUBSET Stored /\ batch = SelectBatch(ids, entities, input)
        BY <3>1, <3>2, <3>3, Zenon
      <4> QED BY <1>1, <3>2, <4>1, SelectFacts
    <3>5. \A e \in Entities : Closed(batch[e], ids)
      BY <3>4, Zenon DEF Closed, Of
    <3>6. ASSUME NEW e \in Entities PROVE Alone(e, batch, ids)
      <4>1. PICK h, q : h = schedule.held[e] /\ q = Of(ids, e)
        BY Zenon
      <4>2. h \in HoldRecord /\ q \in SUBSET Ids
        BY <1>1, <3>2, <3>3, <4>1, ScheduleFields, OfFacts, Zenon DEF TypeOK
      <4>3. /\ h.kind = "Repairing" => Repair(h, q) = Oldest(h.width, q)
            /\ h.kind # "Repairing" => Repair(h, q) \in {q, {}}
        BY <4>2, RepairClosed, Zenon
      <4>4. h.kind # "none" /\ batch[e] # {} => batch[e] = Repair(h, q) /\ \A x \in Entities : batch[x] # {} => x = e
        BY <3>4, <4>1, Zenon DEF IsHeld
      <4>5. /\ h.kind \in {"Draining", "Waiting", "Failed"} => h.kind # "Repairing" /\ h.kind # "none"
            /\ h.kind = "Repairing" => h.kind # "none"
        BY Zenon
      <4> QED BY <4>1, <4>3, <4>4, <4>5, Zenon DEF Alone
    <3>7. "selected" # "discarding"
      BY Zenon
    <3>8. \A e \in Entities : /\ batch[e] \subseteq Of(stored.ids, e) /\ Closed(batch[e], stored.ids)
                              /\ Alone(e, batch, stored.ids)
      BY <3>3, <3>4, <3>5, <3>6, Zenon
    <3> QED BY <1>2, <1>3, <1>5, <3>1, <3>4, <3>7, <3>8, ChosenOK, Zenon
  <2> QED BY <2>1, <2>2, Zenon
<1>9. CASE /\ attempt.owner = "Retired"
           /\ attempt' = [attempt EXCEPT !.pc = "discarding", !.stored = stored, !.awaits = {}, !.late = {}]
           /\ UNCHANGED <<retained, schedule>>
  <2>1. PICK batch : batch = attempt.batch
    BY Zenon
  <2>2. batch \in [Entities -> SUBSET Ids] /\ attempt' = Chosen(attempt, "discarding", stored, batch)
    BY <1>1, <1>9, <2>1, Zenon DEF AttemptRecord, Chosen
  <2>3. \A e \in Entities : batch[e] = {}
    BY <1>1, <1>3, <2>1, Zenon DEF AttemptInv
  <2>4. \A e \in Entities : batch[e] \subseteq Of(stored.ids, e) /\ Closed(batch[e], stored.ids)
    BY <2>3, Zenon DEF Closed
  <2>5. \A e \in Entities : Alone(e, batch, stored.ids)
    BY <2>3, Zenon DEF Alone
  <2> QED BY <1>2, <1>3, <1>5, <1>9, <2>2, <2>3, <2>4, <2>5, ChosenOK, Zenon
<1> QED BY <1>4, <1>7, <1>8, <1>9, Zenon

LEMMA SimpleEnds ==
  ASSUME IInv, Fails \/ LosesOwnership \/ Conflicts
  PROVE  IInv'
<1>1. /\ attempt.pc # "idle" /\ (faults' = faults \/ faults' = faults + 1)
      /\ UNCHANGED <<family, owner, queue, newest, served, flight>> /\ unsettled' \subseteq unsettled
  BY Zenon DEF Fails, LosesOwnership, Conflicts, Fault, Unstored
<1>2. "Retry" # "Discarded"
  BY Zenon
<1>3. PICK remaining \in {NoQueue, attempt.stored} : Ends("Retry", schedule, remaining)
  BY Zenon DEF Fails, LosesOwnership, Conflicts
<1> QED BY <1>1, <1>2, <1>3, EndsUnheld, Zenon

LEMMA RestartOK ==
  ASSUME IInv, Restart
  PROVE  IInv'
<1>1. /\ TypeOK /\ ListInv /\ NewestInv /\ ServedInv
      /\ UNCHANGED <<family, owner, queue, newest, served>> /\ unsettled' = {}
      /\ retained' = NoQueue /\ schedule' = NewSchedule /\ attempt' = NoAttempt /\ faults' = faults + 1
      /\ flight' = [e \in Entities |-> "none"]
  BY Zenon DEF IInv, Restart, Fault
<1>2. faults' \in Nat /\ faults' # 0
  BY <1>1 DEF TypeOK
<1>3. TypeOK'
  <2>1. flight' \in [Entities -> Flights]
    BY <1>1, Zenon DEF Flights
  <2> QED BY <1>1, <1>2, <2>1, NoAttemptFields, NoQueueFields, NewScheduleFields, Zenon DEF TypeOK
<1>4. Listed' = {}
  BY <1>1, NoAttemptFields, NoQueueFields, Zenon DEF Listed
<1>5. ListInv'
  BY <1>1, <1>4, ListKept, Zenon
<1>6. NewestInv'
  BY <1>1, NewestKept, Zenon
<1>7. \A e \in Entities : attempt'.batch[e] = {}
  BY <1>1, NoAttemptFields, Zenon
<1>8. AttemptInv'
  <2>1. \A e \in Entities : (attempt.batch[e] \subseteq Of(attempt.stored.ids, e))' /\ Closed(attempt.batch[e], attempt.stored.ids)'
    BY <1>7, Zenon DEF Closed
  <2>2. attempt'.pc = "idle" /\ attempt'.pc # "discarding" /\ attempt'.stored.ids = {}
    BY <1>1, NoAttemptFields, Zenon
  <2> QED BY <1>7, <2>1, <2>2, Zenon DEF AttemptInv
<1>9. BatchInv'
  BY <1>7, Zenon DEF BatchInv, Alone
<1>10. ServedInv'
  BY <1>1, <1>2, <1>4, ServedKept, Zenon
<1> QED BY <1>3, <1>5, <1>6, <1>8, <1>9, <1>10, Zenon DEF IInv

----------------------------------------------------------------------------
(* A batch that does not fit, or cannot be planned, narrows or holds back. *)

(* What an entity of the batch takes.                                       *)
LEMMA TakenFacts ==
  ASSUME IInv, attempt.pc = "selected", NEW e \in Entities, NEW taken, taken = attempt.batch[e], taken # {}
  PROVE  /\ Listed = attempt.stored.ids /\ taken \subseteq Of(Listed, e) /\ taken \in SUBSET Of(Stored, e)
         /\ Max(taken) \in taken /\ Min(taken) \in taken /\ \A x \in taken : Max(taken) >= x
         /\ taken \in SUBSET Ids /\ taken \in SUBSET Nat
         /\ \A x \in taken, y \in Of(Stored, e) : y <= x => y \in taken
<1>1. TypeOK /\ ListInv /\ AttemptInv /\ attempt.pc # "idle"
  BY Zenon DEF IInv
<1>2. Listed = attempt.stored.ids /\ taken \subseteq Of(Listed, e) /\ Listed \in SUBSET Stored
  BY <1>1, Zenon DEF Listed, AttemptInv, ListInv
<1>3. taken \in SUBSET Of(Stored, e) /\ Of(Stored, e) \in SUBSET Stored
  BY <1>2, Zenon DEF Of
<1>4. Of(Stored, e) \in SUBSET Ids /\ Of(Stored, e) \in SUBSET Nat /\ Of(Stored, e) \in SUBSET (0..MaxOps)
  <2>1. PICK S : S = Stored
    BY Zenon
  <2> QED BY <1>1, <2>1, OfFacts, Zenon
<1>5. Max(taken) \in taken /\ (\A x \in taken : Max(taken) >= x) /\ Min(taken) \in taken
  <2>1. taken \in SUBSET (0..MaxOps) /\ taken \in SUBSET Nat
    BY <1>3, <1>4, Zenon
  <2> QED BY <2>1, MaxIs, MinIs, Zenon
<1>6. ASSUME NEW x \in taken, NEW y \in Of(Stored, e), y <= x PROVE y \in taken
  <2>1. x \in Listed /\ queue[x].entity = e /\ y \in Stored /\ queue[y].entity = e
    BY <1>2, Zenon DEF Of
  <2>2. y \in Listed
    BY <1>1, <1>6, <2>1, Zenon DEF ListInv, Closed
  <2> QED BY <1>1, <1>2, <1>6, <2>1, <2>2, Zenon DEF AttemptInv, Closed
<1> QED BY <1>2, <1>3, <1>4, <1>5, <1>6, Zenon

(* The last operation an entity was tried with may be waited for.           *)
LEMMA MaxTried ==
  ASSUME IInv, attempt.pc = "selected", NEW e \in Entities, NEW taken, taken = attempt.batch[e], taken # {},
         owner # "Retired", faults = 0, schedule.held[e].kind # "Repairing"
  PROVE  Tried(e, Max(taken), Listed)
<1>1. /\ Listed = attempt.stored.ids /\ taken \subseteq Of(Listed, e) /\ taken \in SUBSET Of(Stored, e)
      /\ Max(taken) \in taken /\ \A x \in taken : Max(taken) >= x
      /\ taken \in SUBSET Nat
  BY TakenFacts
<1>2. schedule \in ScheduleRecord /\ served[e] \in 0..MaxOps
  BY Zenon DEF IInv, TypeOK
<1>3. schedule.held[e].kind \in HoldKinds
  BY <1>2, Zenon DEF ScheduleRecord, HoldRecord
<1>4. Newer(e, Listed) /\ Sound(e, schedule.held[e], Listed)
  BY Zenon DEF IInv, ServedInv
<1>5. PICK m : m = Max(taken)
  BY Zenon
<1>6. m >= served[e]
  <2>1. CASE schedule.held[e].kind = "none"
    BY <1>1, <1>4, <1>5, <2>1, Zenon DEF Sound
  <2>2. CASE schedule.held[e].kind \in {"Draining", "Waiting", "Failed"}
    <3>1. taken = Of(Listed, e)
      BY <1>1, <2>2, Zenon DEF IInv, BatchInv, Alone
    <3>2. PICK x \in taken : x >= served[e]
      BY <1>4, <3>1, Zenon DEF Newer
    <3>3. m \in Nat /\ x \in Nat /\ m >= x
      BY <1>1, <1>5, Zenon
    <3> QED BY <1>2, <3>2, <3>3
  <2> QED BY <1>3, <2>1, <2>2, Zenon DEF HoldKinds
<1> QED BY <1>1, <1>5, <1>6, Zenon DEF Tried, Of

(* All of an entity's operations up to one it takes are taken.              *)
LEMMA KnownIs ==
  ASSUME IInv, attempt.pc = "selected", NEW e \in Entities, NEW taken, taken = attempt.batch[e], taken # {},
         NEW id \in taken
  PROVE  {x \in taken : x <= id} = Through(e, id)
<1>1. taken \in SUBSET Of(Stored, e) /\ \A x \in taken, y \in Of(Stored, e) : y <= x => y \in taken
  BY TakenFacts, Zenon
<1> QED BY <1>1, Zenon DEF Through

(* A repair reaches through what is known not to publish.                   *)
LEMMA RepairReaches ==
  ASSUME IInv, attempt.pc = "selected", NEW e \in Entities, NEW taken, taken = attempt.batch[e], taken # {},
         owner # "Retired", faults = 0, schedule.held[e].kind \in {"Waiting", "Failed", "Repairing"}
  PROVE  schedule.held[e].through \in taken /\ Tried(e, schedule.held[e].through, Listed)
<1>1. PICK h, id : h = schedule.held[e] /\ id = schedule.held[e].through
  BY Zenon
<1>2. Sound(e, h, Listed) /\ Tried(e, id, Listed)
  BY <1>1, Zenon DEF IInv, ServedInv, Sound
<1>3. Listed = attempt.stored.ids /\ taken \subseteq Of(Listed, e) /\ Listed \in SUBSET Stored /\ TypeOK
  BY TakenFacts, Zenon DEF IInv, ListInv
<1>4. id \in Of(Listed, e) /\ id \in Of(Stored, e)
  BY <1>2, <1>3, Zenon DEF Tried, Of
<1>5. Alone(e, attempt.batch, Listed)
  BY <1>3, Zenon DEF IInv, BatchInv
<1>6. CASE h.kind \in {"Waiting", "Failed"}
  <2>1. h.kind \in {"Draining", "Waiting", "Failed"}
    BY <1>6, Zenon
  <2> QED BY <1>1, <1>2, <1>4, <1>5, <2>1, Zenon DEF Alone
<1>7. CASE h.kind = "Repairing"
  <2>1. taken = Oldest(h.width, Of(Listed, e)) /\ Cardinality(Through(e, id)) <= h.width
    BY <1>1, <1>2, <1>5, <1>7, Zenon DEF Alone, Sound
  <2>2. PICK L : L = Of(Listed, e)
    BY Zenon
  <2>3. {y \in L : y <= id} = Through(e, id)
    <3>1. L \subseteq Of(Stored, e)
      BY <1>3, <2>2, Zenon DEF Of
    <3>2. \A y \in Of(Stored, e) : y <= id => y \in L
      BY <1>3, <1>4, <2>2, Zenon DEF IInv, ListInv, Closed, Of
    <3> QED BY <3>1, <3>2, Zenon DEF Through
  <2>4. id \in L /\ Cardinality({y \in L : y <= id}) <= h.width
    BY <1>4, <2>1, <2>2, <2>3, Zenon
  <2>5. id \in Oldest(h.width, L)
    <3>1. PICK key : key = [i \in L |-> i]
      BY Zenon
    <3>2. {y \in L : key[y] <= key[id]} = {y \in L : y <= id}
      BY <2>4, <3>1, Zenon
    <3> QED BY <2>4, <3>1, <3>2, Zenon DEF Oldest, First
  <2> QED BY <1>1, <1>2, <2>1, <2>2, <2>5, Zenon
<1> QED BY <1>1, <1>6, <1>7, Zenon

(* A hold may be put on an entity.                                          *)
Holdable(e, h) ==
  /\ h \in HoldRecord /\ (owner # "Retired" /\ faults = 0 => Sound(e, h, Listed))
  /\ h.kind \in {"Waiting", "Failed"} \/ (h.kind = "Repairing" /\ h.width > 0)

LEMMA WaitingHoldable ==
  ASSUME NEW e, NEW kind \in {"Waiting", "Failed"}, NEW id \in Nat,
         owner # "Retired" /\ faults = 0 => Tried(e, id, Listed)
  PROVE  Holdable(e, Hold(kind, id, 0, 0))
<1>1. PICK h : h = Hold(kind, id, 0, 0)
  BY Zenon
<1>2. kind \in HoldKinds /\ 0 \in Nat
  BY Zenon DEF HoldKinds
<1>3. h \in HoldRecord /\ h.kind = kind /\ h.through = id
  BY <1>1, <1>2, HoldFields
<1>4. h.kind # "none" /\ h.kind # "Repairing"
  BY <1>3, Zenon
<1> QED BY <1>1, <1>3, <1>4, Zenon DEF Holdable, Sound

LEMMA ShrunkHoldable ==
  ASSUME IInv, attempt.pc = "selected", NEW e \in Entities, NEW taken, taken = attempt.batch[e], taken # {},
         IsHeld(e)
  PROVE  Holdable(e, ShrunkHold(schedule.held[e], taken))
<1>1. PICK hold : hold = schedule.held[e]
  BY Zenon
<1>2. hold \in HoldRecord /\ hold.kind # "none"
  BY <1>1, ScheduleFields, Zenon DEF IInv, TypeOK, IsHeld
<1>3. hold.through \in Nat /\ hold.tried \in Nat /\ hold.kind \in HoldKinds
  BY <1>2, Zenon DEF HoldRecord
<1>4. Max(taken) \in taken /\ taken \in SUBSET Ids /\ taken \in SUBSET Nat
  BY TakenFacts
<1>5. PICK through, tried, known, halved :
        /\ through = IF hold.kind = "Draining" THEN Max(taken) ELSE hold.through
        /\ tried = IF hold.kind = "Repairing" THEN hold.tried ELSE Max(taken)
        /\ known = IF through \in taken THEN Cardinality({id \in taken : id <= through}) ELSE 0
        /\ halved = known + (Cardinality(taken) - known) \div 2
  BY Zenon
<1>6. ShrunkHold(hold, taken) =
        IF halved > known THEN Hold("Repairing", through, tried, halved) ELSE Hold("Waiting", tried, 0, 0)
  BY <1>5, Zenon DEF ShrunkHold
<1>7. through \in Nat /\ tried \in Nat
  BY <1>3, <1>4, <1>5, Zenon
<1>8. known \in Nat /\ halved \in Nat
  <2>1. PICK K, c, k : K = {id \in taken : id <= through} /\ c = Cardinality(taken) /\ k = Cardinality(K)
    BY Zenon
  <2>2. K \subseteq taken /\ IsFiniteSet(taken) /\ c \in Nat
    BY <1>4, <2>1, IdsFinite, Zenon
  <2>3. k \in Nat /\ k <= c
    BY <2>1, <2>2, FS_Subset, FS_CardinalityType, Zenon
  <2>4. known \in {k, 0} /\ halved = known + (c - known) \div 2
    BY <1>5, <2>1, Zenon
  <2> QED BY <2>2, <2>3, <2>4
<1>9. ASSUME owner # "Retired", faults = 0
      PROVE  /\ Tried(e, tried, Listed) /\ Tried(e, through, Listed)
             /\ Cardinality(Through(e, through)) = known
  <2>1. Tried(e, tried, Listed)
    <3>1. CASE hold.kind = "Repairing"
      BY <1>1, <1>5, <1>9, <3>1, Zenon DEF IInv, ServedInv, Sound
    <3>2. CASE hold.kind # "Repairing"
      BY <1>1, <1>5, <1>9, <3>2, MaxTried, Zenon
    <3> QED BY <3>1, <3>2, Zenon
  <2>2. through \in taken /\ Tried(e, through, Listed)
    <3>1. CASE hold.kind = "Draining"
      <4>1. schedule.held[e].kind # "Repairing" /\ through = Max(taken)
        BY <1>1, <1>5, <3>1, Zenon
      <4> QED BY <1>4, <1>9, <4>1, MaxTried, Zenon
    <3>2. CASE hold.kind \in {"Waiting", "Failed", "Repairing"}
      <4>1. through = schedule.held[e].through
        BY <1>1, <1>5, <3>2, Zenon
      <4> QED BY <1>1, <1>9, <3>2, <4>1, RepairReaches, Zenon
    <3> QED BY <1>2, <1>3, <3>1, <3>2, Zenon DEF HoldKinds
  <2>3. {x \in taken : x <= through} = Through(e, through)
    BY <2>2, KnownIs, Zenon
  <2> QED BY <1>5, <2>1, <2>2, <2>3, Zenon
<1>10. CASE halved > known
  <2>1. PICK h : h = Hold("Repairing", through, tried, halved)
    BY Zenon
  <2>2. h \in HoldRecord /\ h.kind = "Repairing" /\ h.through = through /\ h.tried = tried /\ h.width = halved
    <3>1. "Repairing" \in HoldKinds
      BY Zenon DEF HoldKinds
    <3> QED BY <1>7, <1>8, <2>1, <3>1, HoldFields
  <2>3. h.kind # "none" /\ known <= halved /\ h.width > 0
    BY <1>8, <1>10, <2>2
  <2>4. Holdable(e, h)
    BY <1>9, <2>2, <2>3, Zenon DEF Holdable, Sound
  <2> QED BY <1>1, <1>6, <1>10, <2>1, <2>4, Zenon
<1>11. CASE ~(halved > known)
  <2>1. Holdable(e, Hold("Waiting", tried, 0, 0))
    BY <1>7, <1>9, WaitingHoldable, Zenon
  <2> QED BY <1>1, <1>6, <1>11, <2>1, Zenon
<1> QED BY <1>10, <1>11, Zenon

(* A schedule that differs in limits, and in a hold that may be put on.     *)
Reheld(s, e) ==
  /\ s \in ScheduleRecord
  /\ s.held = schedule.held \/ \E h : Holdable(e, h) /\ s.held = [schedule.held EXCEPT ![e] = h]

LEMMA RescheduledHold ==
  ASSUME TypeOK, NEW e \in Entities, NEW h, Holdable(e, h), NEW f \in Nat
  PROVE  /\ Reheld([schedule EXCEPT !.held[e] = h], e)
         /\ Reheld([schedule EXCEPT !.held[e] = h, !.cursor = e], e)
         /\ Reheld([schedule EXCEPT !.held[e] = h, !.cursor = e, !.failedHolds = f], e)
<1>1. schedule \in ScheduleRecord /\ h \in HoldRecord /\ schedule.held \in [Entities -> HoldRecord]
  BY ScheduleFields, Zenon DEF TypeOK, Holdable
<1>2. PICK held : held = [schedule.held EXCEPT ![e] = h]
  BY Zenon
<1>3. held \in [Entities -> HoldRecord]
  BY <1>1, <1>2, Zenon
<1> DEFINE a == [schedule EXCEPT !.held = held]
           b == [a EXCEPT !.cursor = e]
           c == [b EXCEPT !.failedHolds = f]
<1>4. /\ [schedule EXCEPT !.held[e] = h] = a
      /\ [schedule EXCEPT !.held[e] = h, !.cursor = e] = b
      /\ [schedule EXCEPT !.held[e] = h, !.cursor = e, !.failedHolds = f] = c
  BY <1>2, Zenon
<1>5. a \in ScheduleRecord /\ a.held = held
  BY <1>1, <1>3, Zenon DEF ScheduleRecord
<1> HIDE DEF a
<1>6. b \in ScheduleRecord /\ b.held = held
  BY <1>5, Zenon DEF ScheduleRecord
<1> HIDE DEF b
<1>7. c \in ScheduleRecord /\ c.held = held
  BY <1>6, Zenon DEF ScheduleRecord
<1> HIDE DEF c
<1> QED BY <1>2, <1>4, <1>5, <1>6, <1>7, Zenon DEF Reheld

LEMMA RescheduledLimit ==
  ASSUME TypeOK, NEW e, NEW n \in Nat
  PROVE  Reheld([schedule EXCEPT !.entityLimit = n], e) /\ Reheld([schedule EXCEPT !.operationLimit = n], e)
<1>1. schedule \in ScheduleRecord
  BY Zenon DEF TypeOK
<1> DEFINE a == [schedule EXCEPT !.entityLimit = n]
           b == [schedule EXCEPT !.operationLimit = n]
<1>2. a \in ScheduleRecord /\ a.held = schedule.held /\ b \in ScheduleRecord /\ b.held = schedule.held
  BY <1>1, Zenon DEF ScheduleRecord
<1> HIDE DEF a, b
<1>3. Reheld(a, e) /\ Reheld(b, e)
  BY <1>2, Zenon DEF Reheld
<1> QED BY <1>3, Zenon DEF a, b

LEMMA BatchSizes ==
  ASSUME TypeOK
  PROVE  /\ IsFiniteSet(Selected(attempt.batch)) /\ Size \in Nat /\ Size \div 2 \in Nat
         /\ Cardinality(Named(attempt.batch)) \div 2 \in Nat
         /\ \A n : Heads(n) \subseteq Selected(attempt.batch)
         /\ Selected(attempt.batch) \subseteq Entities
<1>1. Selected(attempt.batch) \subseteq Entities /\ \A n : Heads(n) \subseteq Selected(attempt.batch)
  BY Zenon DEF Selected, Heads, First
<1>2. IsFiniteSet(Selected(attempt.batch)) /\ Size \in Nat
  BY <1>1, PublicationAssumption, FS_Subset, FS_CardinalityType, Zenon DEF Size
<1>3. \A n \in Nat : n \div 2 \in Nat
  OBVIOUS
<1>4. attempt \in AttemptRecord
  BY Zenon DEF TypeOK
<1>5. attempt.batch \in [Entities -> SUBSET Ids]
  BY <1>4, Zenon DEF AttemptRecord
<1>6. Named(attempt.batch) \in SUBSET Ids
  BY <1>5, Zenon DEF Named, Acknowledges, Oldest, First
<1>7. Cardinality(Named(attempt.batch)) \in Nat
  <2>1. PICK N : N = Named(attempt.batch)
    BY Zenon
  <2> QED BY <1>6, <2>1, IdsFinite, Zenon
<1> QED BY <1>1, <1>2, <1>3, <1>7, Zenon

LEMMA ShrinkFacts ==
  ASSUME IInv, attempt.pc = "selected", NEW e \in Selected(attempt.batch), NEW fitting \in Nat
  PROVE  \E s : \E outcome \in {"Trimmed", "Blocked"} : Shrink(e, fitting) = <<outcome, s>> /\ Reheld(s, e)
<1>1. TypeOK /\ e \in Entities /\ attempt.batch[e] # {}
  BY Zenon DEF IInv, Selected
<1>2. PICK taken, half, hold :
        /\ taken = attempt.batch[e] /\ half = Cardinality(Named(attempt.batch)) \div 2
        /\ hold = ShrunkHold(schedule.held[e], taken)
  BY Zenon
<1>3. Max(taken) \in taken /\ Min(taken) \in taken /\ taken \in SUBSET Nat
  BY <1>1, <1>2, TakenFacts
<1>4. half \in Nat /\ Size \in Nat /\ 0 \in Nat
  BY <1>1, <1>2, BatchSizes, Zenon
<1>5. CASE Size = 1 /\ IsHeld(e)
  <2>1. Holdable(e, hold)
    BY <1>1, <1>2, <1>5, ShrunkHoldable, Zenon
  <2>2. /\ Reheld([schedule EXCEPT !.held[e] = hold], e)
        /\ Reheld([schedule EXCEPT !.held[e] = hold, !.cursor = e], e)
    BY <1>1, <1>4, <2>1, RescheduledHold, Zenon
  <2>3. Shrink(e, fitting) \in {<<"Trimmed", [schedule EXCEPT !.held[e] = hold]>>,
                                <<"Blocked", [schedule EXCEPT !.held[e] = hold, !.cursor = e]>>}
    BY <1>2, <1>5, Zenon DEF Shrink
  <2> QED BY <2>2, <2>3, Zenon
<1>6. CASE ~(Size = 1 /\ IsHeld(e))
  <2>1. CASE fitting > 0
    <3>1. Shrink(e, fitting) = <<"Trimmed", [schedule EXCEPT !.entityLimit = fitting]>>
      BY <1>6, <2>1, Zenon DEF Shrink
    <3>2. Reheld([schedule EXCEPT !.entityLimit = fitting], e)
      BY <1>1, RescheduledLimit, Zenon
    <3> QED BY <3>1, <3>2, Zenon
  <2>2. CASE ~(fitting > 0) /\ half > 0
    <3>1. Shrink(e, fitting) = <<"Trimmed", [schedule EXCEPT !.operationLimit = half]>>
      BY <1>2, <1>6, <2>2, Zenon DEF Shrink
    <3>2. Reheld([schedule EXCEPT !.operationLimit = half], e)
      BY <1>1, <1>4, RescheduledLimit, Zenon
    <3> QED BY <3>1, <3>2, Zenon
  <2>3. CASE ~(fitting > 0) /\ ~(half > 0)
    <3>1. PICK h : h = Hold("Waiting", Min(taken), 0, 0)
      BY Zenon
    <3>2. Shrink(e, fitting) = <<"Blocked", [schedule EXCEPT !.held[e] = h, !.cursor = e]>>
      BY <1>2, <1>6, <2>3, <3>1, Zenon DEF Shrink
    <3>3. ~IsHeld(e)
      <4>1. SUFFICES ASSUME IsHeld(e) PROVE FALSE
        BY Zenon
      <4>2. Selected(attempt.batch) = {e}
        BY <1>1, <4>1, Zenon DEF IInv, BatchInv, Alone, IsHeld, Selected
      <4>3. Size = 1
        BY <4>2, FS_Singleton, Zenon DEF Size
      <4> QED BY <1>6, <4>1, <4>3, Zenon
    <3>4. ASSUME owner # "Retired", faults = 0 PROVE Tried(e, Min(taken), Listed)
      <4>1. \A x \in Of(Stored, e) : x >= served[e]
        BY <1>1, <3>3, <3>4, Zenon DEF IInv, ServedInv, Sound, IsHeld
      <4>2. taken \subseteq Of(Listed, e) /\ taken \in SUBSET Of(Stored, e)
        BY <1>1, <1>2, TakenFacts, Zenon
      <4> QED BY <1>3, <4>1, <4>2, Zenon DEF Tried, Of
    <3>5. Min(taken) \in Nat
      BY <1>3, Zenon
    <3>6. Holdable(e, h)
      BY <3>1, <3>4, <3>5, WaitingHoldable, Zenon
    <3>7. Reheld([schedule EXCEPT !.held[e] = h, !.cursor = e], e)
      BY <1>1, <1>4, <3>6, RescheduledHold, Zenon
    <3> QED BY <3>2, <3>7, Zenon
  <2> QED BY <2>1, <2>2, <2>3, Zenon
<1> QED BY <1>5, <1>6, Zenon

LEMMA IsolateFacts ==
  ASSUME IInv, attempt.pc = "selected", NEW e \in Selected(attempt.batch)
  PROVE  /\ \E s : \E outcome \in {"Trimmed", "Blocked"} : IsolateOne(e) = <<outcome, s>> /\ Reheld(s, e)
         /\ \E s : \E outcome \in {"Trimmed", "Blocked"} : IsolateHalf = <<outcome, s>> /\ Reheld(s, e)
<1>1. TypeOK /\ e \in Entities /\ attempt.batch[e] # {} /\ schedule \in ScheduleRecord
  BY Zenon DEF IInv, TypeOK, Selected
<1>2. PICK taken, old, through, f, h :
        /\ taken = attempt.batch[e] /\ old = schedule.held[e]
        /\ through = IF old.kind = "Repairing" THEN old.tried ELSE Max(taken)
        /\ f = Min({schedule.failedHolds + 1, 2}) /\ h = Hold("Failed", through, 0, 0)
  BY Zenon
<1>3. IsolateOne(e) = <<"Blocked", [schedule EXCEPT !.held[e] = h, !.cursor = e, !.failedHolds = f]>>
  BY <1>2, Zenon DEF IsolateOne
<1>4. f \in Nat
  <2>1. schedule.failedHolds \in Nat
    BY <1>1, Zenon DEF ScheduleRecord
  <2>2. {schedule.failedHolds + 1, 2} \in SUBSET Nat /\ {schedule.failedHolds + 1, 2} # {}
    BY <2>1
  <2> QED BY <1>2, <2>2, MinIs, Zenon
<1>5. through \in Nat
  <2>1. old \in HoldRecord
    BY <1>1, <1>2, ScheduleFields, Zenon
  <2>2. old.tried \in Nat
    BY <2>1, Zenon DEF HoldRecord
  <2>3. Max(taken) \in taken /\ taken \in SUBSET Nat
    BY <1>1, <1>2, TakenFacts
  <2> QED BY <1>2, <2>2, <2>3, Zenon
<1>6. ASSUME owner # "Retired", faults = 0 PROVE Tried(e, through, Listed)
  <2>1. CASE old.kind = "Repairing"
    BY <1>1, <1>2, <1>6, <2>1, Zenon DEF IInv, ServedInv, Sound
  <2>2. CASE old.kind # "Repairing"
    BY <1>1, <1>2, <1>6, <2>2, MaxTried, Zenon
  <2> QED BY <2>1, <2>2, Zenon
<1>7. Holdable(e, h)
  BY <1>2, <1>5, <1>6, WaitingHoldable, Zenon
<1>8. Reheld([schedule EXCEPT !.held[e] = h, !.cursor = e, !.failedHolds = f], e)
  BY <1>1, <1>4, <1>7, RescheduledHold, Zenon
<1>9. Reheld([schedule EXCEPT !.entityLimit = Size \div 2], e)
  <2>1. PICK n : n = Size \div 2
    BY Zenon
  <2>2. n \in Nat
    BY <1>1, <2>1, BatchSizes, Zenon
  <2> QED BY <1>1, <2>1, <2>2, RescheduledLimit, Zenon
<1> QED BY <1>3, <1>8, <1>9, Zenon DEF IsolateHalf

LEMMA NarrowedOK ==
  ASSUME IInv, attempt.pc = "selected", NEW e \in Entities, NEW outcome \in {"Trimmed", "Blocked"},
         NEW s, Reheld(s, e), Narrowed(<<outcome, s>>)
  PROVE  IInv'
<1>1. TypeOK /\ attempt \in AttemptRecord /\ schedule \in ScheduleRecord /\ s \in ScheduleRecord
  BY Zenon DEF IInv, TypeOK, Reheld
<1>2. attempt.stored \in QueueRecord /\ attempt.pc # "idle" /\ outcome # "Discarded"
  BY <1>1, Zenon DEF AttemptRecord
<1>3. /\ UNCHANGED <<family, owner, queue, newest, served, flight, faults>> /\ unsettled' \subseteq unsettled
      /\ Ends(outcome, s, attempt.stored)
  <2>1. PICK r \in {<<outcome, s>>} : Ends(r[1], r[2], attempt.stored)
    BY Zenon DEF Narrowed
  <2>2. r[1] = outcome /\ r[2] = s
    OBVIOUS
  <2> QED BY <2>1, <2>2, Zenon DEF Narrowed, Unstored
<1>4. Ended(attempt.stored.ids, s.held)
  BY <1>1, <1>2, <1>3, EndsFacts, Zenon
<1>5. owner # "Retired" /\ faults' = 0 => \A x \in Entities : Sound(x, s.held[x], Listed)
  <2>1. SUFFICES ASSUME owner # "Retired", faults = 0, NEW x \in Entities PROVE Sound(x, s.held[x], Listed)
    BY <1>3, Zenon
  <2>2. Sound(x, schedule.held[x], Listed)
    BY <2>1, Zenon DEF IInv, ServedInv
  <2>3. CASE s.held = schedule.held
    BY <2>2, <2>3, Zenon
  <2>4. ASSUME NEW h, Holdable(e, h), s.held = [schedule.held EXCEPT ![e] = h]
        PROVE  Sound(x, s.held[x], Listed)
    <3>1. schedule.held \in [Entities -> HoldRecord]
      BY <1>1, ScheduleFields, Zenon
    <3>2. s.held[x] = IF x = e THEN h ELSE schedule.held[x]
      BY <2>4, <3>1, Zenon
    <3>3. Sound(e, h, Listed)
      BY <2>1, <2>4, Zenon DEF Holdable
    <3> QED BY <2>2, <3>2, <3>3, Zenon
  <2> QED BY <2>3, <2>4, Zenon DEF Reheld
<1>6. attempt.stored.ids \in {{}, attempt.stored.ids}
  BY Zenon
<1>7. flight' \in [Entities -> Flights] /\ unsettled' \in SUBSET Charged
  BY <1>1, <1>3, Zenon DEF TypeOK
<1> QED BY <1>2, <1>3, <1>4, <1>5, <1>6, <1>7, EndOK, Zenon

LEMMA NarrowsTo ==
  ASSUME IInv, DoesNotFit \/ CannotPlan
  PROVE  \E s : \E e \in Entities, outcome \in {"Trimmed", "Blocked"} : Reheld(s, e) /\ Narrowed(<<outcome, s>>)
<1>1. attempt.pc = "selected" /\ TypeOK
  BY Zenon DEF DoesNotFit, CannotPlan, IInv
<1>2. \A e \in Selected(attempt.batch) : e \in Entities
  BY <1>1, BatchSizes, Zenon
<1> DEFINE Goal == \E s : \E e \in Entities, outcome \in {"Trimmed", "Blocked"} :
                     Reheld(s, e) /\ Narrowed(<<outcome, s>>)
<1>3. ASSUME NEW e \in Selected(attempt.batch), NEW fitting \in Nat, Narrowed(Shrink(e, fitting)) PROVE Goal
  BY <1>1, <1>2, <1>3, ShrinkFacts, Zenon
<1>4. ASSUME NEW e \in Selected(attempt.batch), Narrowed(IsolateOne(e)) \/ Narrowed(IsolateHalf) PROVE Goal
  BY <1>1, <1>2, <1>4, IsolateFacts, Zenon
<1> HIDE DEF Goal
<1>5. 0 \in Nat /\ Size \div 2 \in Nat /\ \A n : Heads(n) \subseteq Selected(attempt.batch)
  BY <1>1, BatchSizes, Zenon
<1>6. ASSUME DoesNotFit PROVE Goal
  BY <1>3, <1>5, <1>6, Zenon DEF DoesNotFit
<1>7. ASSUME CannotPlan PROVE Goal
  <2>1. PICK e :
          /\ e \in Heads(Size)
          /\ Narrowed(IsolateOne(e)) \/ Narrowed(IF Size > 1 THEN IsolateHalf ELSE IsolateOne(e))
    BY <1>7, Zenon DEF CannotPlan
  <2>2. e \in Selected(attempt.batch)
    BY <1>5, <2>1, Zenon
  <2>3. Narrowed(IsolateOne(e)) \/ Narrowed(IsolateHalf)
    BY <2>1, Zenon
  <2> QED BY <1>4, <2>2, <2>3, Zenon
<1>8. Goal
  BY <1>6, <1>7, Zenon
<1> QED BY <1>8, Zenon DEF Goal

LEMMA NarrowsOK ==
  ASSUME IInv, DoesNotFit \/ CannotPlan
  PROVE  IInv'
<1>1. attempt.pc = "selected"
  BY Zenon DEF DoesNotFit, CannotPlan
<1> QED BY <1>1, NarrowsTo, NarrowedOK, Zenon

----------------------------------------------------------------------------
(* What a publication stages, and how the schedule advances past it. *)

LEMMA FirstSome ==
  ASSUME NEW S, S # {}, NEW key, \A z \in S : key[z] \in Nat,
         \A y, z \in S : key[y] = key[z] => y = z, NEW n \in Nat, n > 0
  PROVE  First(n, S, key) # {}
<1> DEFINE K == {key[z] : z \in S}
<1>1. K \in SUBSET Nat /\ K # {}
  BY Zenon
<1>2. PICK k \in K : \A y \in K : k <= y
  <2> HIDE DEF K
  <2> QED BY <1>1, Least, Zenon
<1>3. PICK x \in S : k = key[x]
  BY <1>2, Zenon
<1>4. ASSUME NEW z \in S, key[z] <= key[x] PROVE z = x
  <2>1. key[z] \in K
    BY Zenon
  <2>2. key[z] \in Nat /\ key[x] \in Nat /\ key[x] <= key[z]
    BY <1>2, <1>3, <2>1, Zenon
  <2>3. key[z] = key[x]
    BY <1>4, <2>2
  <2> QED BY <2>3, Zenon
<1>5. key[x] <= key[x]
  BY <1>3
<1>6. {z \in S : key[z] <= key[x]} = {x}
  BY <1>4, <1>5, Zenon
<1>7. Cardinality({z \in S : key[z] <= key[x]}) <= n
  <2>1. Cardinality({x}) = 1
    BY FS_Singleton, Zenon
  <2>2. 1 <= n
    OBVIOUS
  <2> QED BY <1>6, <2>1, <2>2, Zenon
<1> QED BY <1>7, Zenon DEF First

LEMMA OldestSome ==
  ASSUME NEW n \in Nat, n > 0, NEW ids \in SUBSET Ids, ids # {}
  PROVE  Oldest(n, ids) # {}
<1>1. PICK key : key = [id \in ids |-> id]
  BY Zenon
<1>2. \A z \in ids : key[z] = z /\ z \in Nat
  BY <1>1 DEF Ids
<1>3. First(n, ids, key) # {}
  BY <1>2, FirstSome, Zenon
<1> QED BY <1>1, <1>3, Zenon DEF Oldest

(* The places of a rotation are distinct and bounded.                       *)
LEMMA RotationPlaces ==
  ASSUME TypeOK, NEW ids \in SUBSET Stored, NEW after
  PROVE  /\ \A e \in EntitiesOf(ids) : Rotation(ids, after)[e] \in 0..(MaxOps + MaxOps)
         /\ \A e, x \in EntitiesOf(ids) : Rotation(ids, after)[e] = Rotation(ids, after)[x] => e = x
<1>1. MaxOps \in Nat
  BY PublicationAssumption, Zenon
<1>2. ASSUME NEW e \in EntitiesOf(ids)
      PROVE  /\ Min(Of(ids, e)) \in 1..MaxOps /\ queue[Min(Of(ids, e))].entity = e
             /\ \/ Rotation(ids, after)[e] = Min(Of(ids, e))
                \/ Rotation(ids, after)[e] = Min(Of(ids, e)) + MaxOps
  <2>1. Of(ids, e) # {}
    BY Zenon DEF EntitiesOf, Of
  <2>2. Of(ids, e) \in SUBSET Nat /\ Of(ids, e) \in SUBSET Ids
    BY OfFacts, Zenon
  <2>3. Min(Of(ids, e)) \in Of(ids, e)
    BY <2>1, <2>2, MinIs, Zenon
  <2>4. Min(Of(ids, e)) \in Ids /\ queue[Min(Of(ids, e))].entity = e
    BY <2>2, <2>3, Zenon DEF Of
  <2> QED BY <2>4, Zenon DEF Rotation, Ids
<1>3. ASSUME NEW e \in EntitiesOf(ids) PROVE Rotation(ids, after)[e] \in 0..(MaxOps + MaxOps)
  <2>1. PICK m, r : m = Min(Of(ids, e)) /\ r = Rotation(ids, after)[e]
    BY Zenon
  <2>2. m \in 1..MaxOps /\ (r = m \/ r = m + MaxOps)
    BY <1>2, <2>1, Zenon
  <2>3. r \in 0..(MaxOps + MaxOps)
    BY <1>1, <2>2
  <2> QED BY <2>1, <2>3, Zenon
<1>4. ASSUME NEW e \in EntitiesOf(ids), NEW x \in EntitiesOf(ids),
             Rotation(ids, after)[e] = Rotation(ids, after)[x]
      PROVE  e = x
  <2>1. PICK m, r, k : m = Min(Of(ids, e)) /\ r = Rotation(ids, after)[e] /\ k = Min(Of(ids, x))
    BY Zenon
  <2>2. m \in 1..MaxOps /\ k \in 1..MaxOps /\ (r = m \/ r = m + MaxOps) /\ (r = k \/ r = k + MaxOps)
    BY <1>2, <1>4, <2>1, Zenon
  <2>3. m = k
    BY <1>1, <2>2
  <2> QED BY <1>2, <2>1, <2>3, Zenon
<1> QED BY <1>3, <1>4, Zenon

(* A staged batch is a part of the selected one, and not empty.             *)
LEMMA StagedFacts ==
  ASSUME IInv, attempt.pc = "selected", NEW batch \in Staged
  PROVE  /\ batch \in [Entities -> SUBSET Ids]
         /\ \A e \in Entities : batch[e] \in {attempt.batch[e], {}}
         /\ Selected(batch) # {} /\ Selected(batch) \subseteq EntitiesOf(attempt.stored.ids)
<1>1. TypeOK /\ attempt \in AttemptRecord /\ ListInv
  BY Zenon DEF IInv, TypeOK
<1>2. attempt.batch \in [Entities -> SUBSET Ids]
  BY <1>1, Zenon DEF AttemptRecord
<1>3. PICK n \in 1..Size : batch = [e \in Entities |-> IF e \in Heads(n) THEN attempt.batch[e] ELSE {}]
  BY Zenon DEF Staged
<1>4. batch \in [Entities -> SUBSET Ids] /\ \A e \in Entities : batch[e] \in {attempt.batch[e], {}}
  BY <1>2, <1>3, Zenon
<1>5. Heads(n) \subseteq Selected(attempt.batch) /\ Size \in Nat /\ Selected(attempt.batch) \subseteq Entities
  BY <1>1, BatchSizes, Zenon
<1>6. Selected(batch) = Heads(n)
  BY <1>3, <1>5, Zenon DEF Selected
<1>7. Selected(attempt.batch) \subseteq EntitiesOf(attempt.stored.ids)
  BY Zenon DEF IInv, AttemptInv, Selected, EntitiesOf, Of
<1>8. n \in Nat /\ n > 0 /\ Size # 0
  BY <1>3, <1>5
<1>9. Selected(attempt.batch) # {}
  BY <1>8, FS_EmptySet, Zenon DEF Size
<1>10. PICK S, place, ids : S = Selected(attempt.batch) /\ place = Rotation(attempt.stored.ids, schedule.cursor)
                            /\ ids = attempt.stored.ids
  BY Zenon
<1>11. ids \in SUBSET Stored /\ place = Rotation(ids, schedule.cursor)
  BY <1>1, <1>10, Zenon DEF ListInv, Listed
<1>12. /\ \A e \in EntitiesOf(ids) : place[e] \in 0..(MaxOps + MaxOps)
       /\ \A e, x \in EntitiesOf(ids) : place[e] = place[x] => e = x
  BY <1>1, <1>11, RotationPlaces, Zenon
<1>13. 0..(MaxOps + MaxOps) \subseteq Nat
  OBVIOUS
<1>14. /\ \A e \in S : place[e] \in Nat
       /\ \A e, x \in S : place[e] = place[x] => e = x
  BY <1>7, <1>10, <1>12, <1>13, Zenon
<1>15. First(n, S, place) # {}
  BY <1>8, <1>9, <1>10, <1>14, FirstSome, Zenon
<1>16. Heads(n) # {}
  BY <1>10, <1>15, Zenon DEF Heads
<1> QED BY <1>4, <1>5, <1>6, <1>7, <1>16, Zenon

LEMMA AdvanceFacts ==
  ASSUME IInv, attempt.pc = "selected", NEW batch \in Staged
  PROVE  /\ AdvancePast(batch) \in ScheduleRecord
         /\ \A e \in Entities :
              /\ batch[e] = {} => AdvancePast(batch).held[e] = schedule.held[e]
              /\ batch[e] # {} /\ Acknowledges(batch[e]) = batch[e] => AdvancePast(batch).held[e].kind = "none"
              /\ batch[e] # {} /\ Acknowledges(batch[e]) # batch[e] =>
                   /\ AdvancePast(batch).held[e].kind = "Draining"
                   /\ AdvancePast(batch).held[e].through \in Acknowledges(batch[e])
<1>1. TypeOK /\ schedule \in ScheduleRecord /\ attempt.stored.ids \in SUBSET Stored /\ MaxOps + MaxOps \in Nat
  BY PublicationAssumption DEF IInv, TypeOK, ListInv, Listed
<1>2. /\ batch \in [Entities -> SUBSET Ids] /\ Selected(batch) # {} /\ Selected(batch) \subseteq Entities
      /\ Selected(batch) \subseteq EntitiesOf(attempt.stored.ids)
  BY StagedFacts, Zenon DEF Selected
<1>3. PICK place, ids : place = Rotation(ids, schedule.cursor) /\ ids = attempt.stored.ids
  BY Zenon
<1>4. \A e \in Selected(batch) : place[e] \in 0..(MaxOps + MaxOps)
  BY <1>1, <1>2, <1>3, RotationPlaces, Zenon
<1>5. \E e \in Selected(batch) : \A x \in Selected(batch) : place[x] <= place[e]
  <2> DEFINE K == {place[x] : x \in Selected(batch)}
  <2>1. K \in SUBSET (0..(MaxOps + MaxOps)) /\ K # {}
    BY <1>2, <1>4, Zenon
  <2>2. PICK k \in K : \A y \in K : k >= y
    <3> HIDE DEF K
    <3> QED BY <1>1, <2>1, Greatest, Zenon
  <2>3. \A y \in K : y <= k
    <3> HIDE DEF K
    <3> QED BY <2>1, <2>2, Zenon
  <2> QED BY <2>2, <2>3, Zenon
<1>6. PICK last : last = CHOOSE e \in Selected(batch) : \A x \in Selected(batch) : place[x] <= place[e]
  BY Zenon
<1>7. last \in Entities
  BY <1>2, <1>5, <1>6, Zenon
<1> DEFINE after(taken) == IF Acknowledges(taken) = taken THEN NoHold
                           ELSE Hold("Draining", Max(Acknowledges(taken)), 0, 0)
<1>8. PICK held : held = [e \in Entities |-> IF batch[e] = {} THEN schedule.held[e] ELSE after(batch[e])]
  BY Zenon
<1>9. AdvancePast(batch) = [schedule EXCEPT !.cursor = last, !.held = held]
  BY <1>3, <1>6, <1>8, Zenon DEF AdvancePast
<1>10. ASSUME NEW e \in Entities
       PROVE  /\ held[e] \in HoldRecord
              /\ batch[e] = {} => held[e] = schedule.held[e]
              /\ batch[e] # {} /\ Acknowledges(batch[e]) = batch[e] => held[e].kind = "none"
              /\ batch[e] # {} /\ Acknowledges(batch[e]) # batch[e] =>
                   held[e].kind = "Draining" /\ held[e].through \in Acknowledges(batch[e])
  <2>1. CASE batch[e] = {}
    BY <1>1, <1>8, <2>1, ScheduleFields, Zenon
  <2>2. CASE batch[e] # {} /\ Acknowledges(batch[e]) = batch[e]
    BY <1>8, <2>2, NoHoldFields, Zenon
  <2>3. CASE batch[e] # {} /\ Acknowledges(batch[e]) # batch[e]
    <3>1. PICK taken, some, m : taken = batch[e] /\ some = Acknowledges(taken) /\ m = Max(some)
      BY Zenon
    <3>2. taken \in SUBSET Ids /\ taken # {}
      BY <1>2, <2>3, <3>1, Zenon
    <3>3. some # {} /\ some \subseteq taken
      <4>1. Capacity \in Nat /\ Capacity > 0
        BY PublicationAssumption
      <4>2. some # {}
        BY <3>1, <3>2, <4>1, OldestSome, Zenon DEF Acknowledges
      <4> QED BY <3>1, <4>2, Zenon DEF Acknowledges, Oldest, First
    <3>4. Ids \subseteq 0..MaxOps /\ 0..MaxOps \subseteq Nat
      BY DEF Ids
    <3>5. m \in Nat /\ m \in some
      <4>1. some \in SUBSET (0..MaxOps)
        BY <3>2, <3>3, <3>4, Zenon
      <4> QED BY <3>1, <3>3, <3>4, <4>1, MaxIs, Zenon
    <3>6. held[e] = Hold("Draining", m, 0, 0)
      BY <1>8, <2>3, <3>1, Zenon
    <3>7. "Draining" \in HoldKinds /\ 0 \in Nat
      BY Zenon DEF HoldKinds
    <3>8. held[e] \in HoldRecord /\ held[e].kind = "Draining" /\ held[e].through = m
      BY <3>5, <3>6, <3>7, HoldFields
    <3> QED BY <2>3, <3>1, <3>5, <3>8, Zenon
  <2> QED BY <2>1, <2>2, <2>3, Zenon
<1> HIDE DEF after
<1>11. held \in [Entities -> HoldRecord]
  BY <1>8, <1>10, Zenon
<1> DEFINE a == [schedule EXCEPT !.cursor = last]
           b == [a EXCEPT !.held = held]
<1>12. AdvancePast(batch) = b
  BY <1>9, Zenon
<1>13. a \in ScheduleRecord
  BY <1>1, <1>7, Zenon DEF ScheduleRecord
<1> HIDE DEF a
<1>14. b \in ScheduleRecord /\ b.held = held
  BY <1>11, <1>13, Zenon DEF ScheduleRecord
<1> HIDE DEF b
<1> QED BY <1>10, <1>12, <1>14, Zenon

----------------------------------------------------------------------------
(* Acknowledged operations leave the queue. *)

LEMMA AcknowledgeFacts ==
  ASSUME TypeOK, NEW ids, Acknowledge(ids)
  PROVE  /\ queue' \in [Ids -> Operation \cup {None}] /\ Stored' = Stored \ ids
         /\ \A id \in Stored' : queue'[id] = queue[id]
         /\ \A e : Of(Stored, e)' = Of(Stored, e) \ ids
<1>1. queue' = [id \in Ids |-> IF id \in ids THEN None ELSE queue[id]] /\ queue \in [Ids -> Operation \cup {None}]
  BY Zenon DEF TypeOK, Acknowledge
<1>2. queue' \in [Ids -> Operation \cup {None}]
  BY <1>1, Zenon
<1>3. Stored' = Stored \ ids /\ \A id \in Stored' : queue'[id] = queue[id]
  BY <1>1, Zenon DEF Stored
<1> QED BY <1>2, <1>3, Zenon DEF Of

LEMMA SeeType ==
  ASSUME TypeOK, NEW ids, See(ids)
  PROVE  flight' \in [Entities -> Flights]
BY Zenon DEF TypeOK, See, Flights

(* What is left to show once an attempt acknowledged and ended.             *)
LEMMA AcknowledgedOK ==
  ASSUME IInv, attempt.pc # "idle", NEW ids, Acknowledge(ids), NEW left, NEW held, Ended(left, held),
         left \in {{}, attempt.stored.ids \ ids}, flight' \in [Entities -> Flights],
         unsettled' \in SUBSET Charged, faults' = faults \/ faults' = faults + 1,
         served' \in [Entities -> 0..MaxOps], \A e \in Entities : served'[e] <= newest[e],
         owner # "Retired" =>
           \A e \in Entities : newest[e] \in Stored' \/ (newest[e] = served'[e] /\ Of(Stored, e) \ ids = {}),
         ServedInv'
  PROVE  IInv'
<1>1. /\ TypeOK /\ ListInv /\ AttemptInv /\ NewestInv
      /\ attempt' = NoAttempt /\ retained' \in QueueRecord /\ schedule' \in ScheduleRecord
      /\ retained'.ids = {} \/ retained'.ids = left
      /\ UNCHANGED <<family, owner, newest>>
  BY Zenon DEF IInv, Ended, Acknowledge
<1>2. /\ queue' \in [Ids -> Operation \cup {None}] /\ Stored' = Stored \ ids
      /\ \A id \in Stored' : queue'[id] = queue[id]
      /\ \A e : Of(Stored, e)' = Of(Stored, e) \ ids
  BY <1>1, AcknowledgeFacts, Zenon
<1>3. faults' \in Nat
  BY <1>1, FaultsStep, Zenon
<1>4. TypeOK'
  BY <1>1, <1>2, <1>3, NoAttemptFields, Zenon DEF TypeOK
<1>5. Listed = attempt.stored.ids /\ Listed' \in {{}, Listed \ ids}
  BY <1>1, NoAttemptFields, Zenon DEF Listed, AttemptInv
<1>6. ListInv'
  <2>1. CASE Listed' = {}
    BY <2>1, Zenon DEF ListInv, Closed
  <2>2. CASE Listed' = Listed \ ids
    <3>1. Listed' \subseteq Stored'
      BY <1>1, <1>2, <2>2, Zenon DEF ListInv
    <3>2. Closed(Listed, Stored)'
      BY <1>1, <1>2, <2>2, <3>1, Zenon DEF ListInv, Closed
    <3> QED BY <3>1, <3>2, Zenon DEF ListInv
  <2> QED BY <1>5, <2>1, <2>2, Zenon
<1>7. \A e \in Entities : attempt'.batch[e] = {}
  BY <1>1, NoAttemptFields, Zenon
<1>8. AttemptInv'
  <2>1. \A e \in Entities : (attempt.batch[e] \subseteq Of(attempt.stored.ids, e))' /\ Closed(attempt.batch[e], attempt.stored.ids)'
    BY <1>7, Zenon DEF Closed
  <2>2. attempt'.pc = "idle" /\ attempt'.pc # "discarding" /\ attempt'.stored.ids = {}
    BY <1>1, NoAttemptFields, Zenon
  <2> QED BY <1>7, <2>1, <2>2, Zenon DEF AttemptInv
<1>9. BatchInv'
  BY <1>7, Zenon DEF BatchInv, Alone
<1>10. NewestInv'
  <2>1. \A id \in Stored' : id <= newest'[queue'[id].entity]
    BY <1>1, <1>2, Zenon DEF NewestInv
  <2>2. \A e \in Entities : newest'[e] \in Stored' => queue'[newest'[e]].entity = e
    BY <1>1, <1>2, Zenon DEF NewestInv
  <2> QED BY <1>1, <1>2, <2>1, <2>2, Zenon DEF NewestInv
<1> QED BY <1>4, <1>6, <1>8, <1>9, <1>10, Zenon DEF IInv

(* A retired generation owes its entities nothing.                          *)
LEMMA DiscardsOK ==
  ASSUME IInv, Discard \/ DiscardUncertain
  PROVE  IInv'
<1>1. TypeOK /\ ListInv /\ attempt.pc = "discarding" /\ schedule \in ScheduleRecord /\ attempt \in AttemptRecord
  BY Zenon DEF IInv, TypeOK, Discard, DiscardUncertain
<1>2. attempt.pc # "idle" /\ attempt.stored \in QueueRecord
  BY <1>1, Zenon DEF AttemptRecord
<1>3. owner = "Retired" /\ owner' = "Retired"
  <2>1. owner = "Retired"
    BY <1>1, <1>2, Zenon DEF IInv, AttemptInv
  <2> QED BY <2>1, Zenon DEF Discard, DiscardUncertain, Acknowledge
<1>4. PICK ids : ids = Discardable
  BY Zenon
<1>5. ids \subseteq attempt.stored.ids /\ attempt.stored.ids \in SUBSET Ids
  <2>1. attempt.stored.ids \in SUBSET Ids
    BY <1>2, Zenon DEF QueueRecord
  <2> QED BY <1>4, <2>1, Zenon DEF Discardable, InRotation, First
<1>6. flight' \in [Entities -> Flights] /\ served' = served /\ (faults' = faults \/ faults' = faults + 1)
  <2>1. See(ids)
    BY <1>4, Zenon DEF Discard, DiscardUncertain
  <2> QED BY <1>1, <2>1, SeeType, Zenon DEF Discard, DiscardUncertain, Fault
<1>7. unsettled' \in SUBSET Charged
  <2>1. unsettled \in SUBSET Charged
    BY <1>1, Zenon DEF TypeOK
  <2>2. ids \subseteq Charged
    <3>1. Ids \subseteq 0..MaxOps
      BY DEF Ids
    <3> QED BY <1>5, <3>1, Zenon DEF Charged
  <2>3. unsettled' \in {unsettled \ ids, unsettled \cup ids}
    BY <1>4, Zenon DEF Discard, DiscardUncertain
  <2> QED BY <2>1, <2>2, <2>3, Zenon
<1>8. served \in [Entities -> 0..MaxOps] /\ \A e \in Entities : served[e] <= newest[e]
  BY Zenon DEF IInv, TypeOK, NewestInv
<1>9. ServedInv'
  BY <1>3, Zenon DEF ServedInv
<1>10. ASSUME NEW left \in {{}, attempt.stored.ids \ ids}, NEW held, Ended(left, held), Acknowledge(ids) PROVE IInv'
  BY <1>2, <1>3, <1>6, <1>7, <1>8, <1>9, <1>10, AcknowledgedOK, Zenon
<1>11. CASE Discard
  <2>1. Acknowledge(ids) /\ Ends("Discarded", schedule, Remaining(ids))
    BY <1>4, <1>11, Zenon DEF Discard
  <2>2. Remaining(ids) \in QueueRecord /\ Remaining(ids).ids = attempt.stored.ids \ ids
    BY <1>2, <1>5, Zenon DEF Remaining, QueueRecord
  <2>3. Ended(Remaining(ids).ids, schedule.held)
    BY <1>1, <1>3, <2>1, <2>2, EndsFacts, Zenon
  <2> QED BY <1>10, <2>1, <2>2, <2>3, Zenon
<1>12. CASE DiscardUncertain
  <2>1. "Retry" # "Discarded" /\ NoQueue \in QueueRecord /\ NoQueue.ids = {}
    BY NoQueueFields, Zenon
  <2>2. Ends("Retry", schedule, NoQueue)
    BY <1>12, Zenon DEF DiscardUncertain, UncertainRemainder
  <2>3. Ended({}, schedule.held)
    BY <1>1, <2>1, <2>2, EndsFacts, Zenon
  <2>4. CASE Acknowledge(ids)
    BY <1>10, <2>3, <2>4, Zenon
  <2>5. CASE UNCHANGED <<family, owner, newest, queue>>
    BY <1>2, <1>3, <1>6, <1>7, <2>3, <2>5, EndOK, Zenon
  <2> QED BY <1>4, <1>12, <2>4, <2>5, Zenon DEF DiscardUncertain
<1> QED BY <1>11, <1>12, Zenon

----------------------------------------------------------------------------
(* A publication. *)

(* What a staged entity has acknowledged, and what it serves afterwards.    *)
LEMMA StagedTaken ==
  ASSUME IInv, attempt.pc = "selected", NEW batch \in Staged, NEW e \in Entities, batch[e] # {},
         NEW some, some = Acknowledges(batch[e]), NEW m, m = Max(batch[e])
  PROVE  /\ batch[e] = attempt.batch[e] /\ some \subseteq batch[e] /\ m \in batch[e]
         /\ batch[e] \in SUBSET Of(Stored, e) /\ batch[e] \subseteq Listed /\ batch[e] \in SUBSET Nat
         /\ \A x \in batch[e] : m >= x
         /\ \A x \in some, y \in Of(Stored, e) : y <= x => y \in some
         /\ m \in some => \A y \in Of(Stored, e) \ some : y >= m
<1>1. PICK taken : taken = batch[e]
  BY Zenon
<1>2. taken = attempt.batch[e] /\ taken # {}
  BY <1>1, StagedFacts, Zenon
<1>3. /\ taken \subseteq Of(Listed, e) /\ taken \in SUBSET Of(Stored, e)
      /\ Max(taken) \in taken /\ (\A x \in taken : Max(taken) >= x)
      /\ taken \in SUBSET Ids /\ taken \in SUBSET Nat
      /\ \A x \in taken, y \in Of(Stored, e) : y <= x => y \in taken
  BY <1>2, TakenFacts
<1>4. Capacity \in Nat
  BY PublicationAssumption, Zenon
<1>5. /\ some \subseteq taken
      /\ \A x \in some, y \in taken : y <= x => y \in some
  BY <1>1, <1>3, <1>4, OldestClosed, Zenon DEF Acknowledges
<1>6. \A x \in some, y \in Of(Stored, e) : y <= x => y \in some
  BY <1>3, <1>5, Zenon
<1>7. ASSUME m \in some, NEW y \in Of(Stored, e), y \notin some PROVE y >= m
  <2>1. ~(y <= m)
    BY <1>6, <1>7, Zenon
  <2>2. Of(Stored, e) \in SUBSET Nat
    <3>1. PICK S : S = Stored
      BY Zenon
    <3> QED BY <3>1, OfFacts, Zenon DEF IInv
  <2>3. y \in Nat /\ m \in Nat
    BY <1>1, <1>3, <2>2, Zenon
  <2> QED BY <2>1, <2>3
<1>8. taken \subseteq Listed
  BY <1>3, Zenon DEF Of
<1> QED BY <1>1, <1>2, <1>3, <1>5, <1>6, <1>7, <1>8, Zenon

LEMMA NamedFacts ==
  ASSUME IInv, attempt.pc = "selected", NEW batch \in Staged, NEW ids, ids = Acknowledged(batch)
  PROVE  /\ ids \in SUBSET Ids
         /\ \A e \in Entities : Of(Stored, e) \cap ids = Acknowledges(batch[e])
<1>1. ids = UNION {Acknowledges(batch[x]) : x \in Entities} /\ batch \in [Entities -> SUBSET Ids]
  BY StagedFacts, Zenon DEF Acknowledged, Named
<1>2. \A x \in Entities : batch[x] = {} => Acknowledges(batch[x]) = {}
  BY Zenon DEF Acknowledges, Oldest, First
<1>3. ASSUME NEW x \in Entities PROVE Acknowledges(batch[x]) \subseteq Of(Stored, x) /\ Acknowledges(batch[x]) \subseteq batch[x]
  <2>1. CASE batch[x] = {}
    BY <1>2, <2>1, Zenon
  <2>2. CASE batch[x] # {}
    <3>1. PICK some, m : some = Acknowledges(batch[x]) /\ m = Max(batch[x])
      BY Zenon
    <3>2. some \subseteq batch[x] /\ batch[x] \in SUBSET Of(Stored, x)
      BY <2>2, <3>1, StagedTaken
    <3> QED BY <3>1, <3>2, Zenon
  <2> QED BY <2>1, <2>2, Zenon
<1>4. \A e, x \in Entities : Of(Stored, e) \cap Of(Stored, x) # {} => e = x
  BY Zenon DEF Of
<1>5. ids \in SUBSET Ids
  BY <1>1, <1>3, Zenon
<1>6. ASSUME NEW e \in Entities PROVE Of(Stored, e) \cap ids = Acknowledges(batch[e])
  <2>1. Acknowledges(batch[e]) \subseteq Of(Stored, e) \cap ids
    BY <1>1, <1>3, Zenon
  <2>2. ASSUME NEW id \in Of(Stored, e) \cap ids PROVE id \in Acknowledges(batch[e])
    <3>1. PICK x \in Entities : id \in Acknowledges(batch[x])
      BY <1>1, Zenon
    <3>2. id \in Of(Stored, x)
      BY <1>3, <3>1, Zenon
    <3>3. x = e
      BY <3>2, Zenon DEF Of
    <3> QED BY <3>1, <3>3, Zenon
  <2> QED BY <2>1, <2>2, Zenon
<1> QED BY <1>5, <1>6, Zenon

(* The entities a publication leaves out keep their queue, and the others   *)
(* serve the newest they took, all older ones being acknowledged before it. *)
LEMMA PublishedServes ==
  ASSUME IInv, attempt.pc = "selected", owner # "Retired", NEW batch \in Staged,
         NEW ids, ids = Acknowledged(batch), Serve(batch)
  PROVE  /\ served' \in [Entities -> 0..MaxOps]
         /\ \A e \in Entities : served'[e] <= newest[e]
         /\ \A e \in Entities : newest[e] \in Stored \ ids \/ (newest[e] = served'[e] /\ Of(Stored, e) \ ids = {})
<1>1. /\ served' = [e \in Entities |-> IF batch[e] = {} THEN served[e] ELSE Max(batch[e])]
      /\ TypeOK /\ served \in [Entities -> 0..MaxOps] /\ newest \in [Entities -> 0..MaxOps]
      /\ NewestInv
  BY Zenon DEF Serve, IInv, TypeOK
<1>2. ASSUME NEW e \in Entities
      PROVE  /\ served'[e] \in 0..MaxOps /\ served'[e] <= newest[e]
             /\ newest[e] \in Stored \ ids \/ (newest[e] = served'[e] /\ Of(Stored, e) \ ids = {})
  <2>1. PICK some : some = Acknowledges(batch[e])
    BY Zenon
  <2>2. Of(Stored, e) \cap ids = some
    BY <2>1, NamedFacts, Zenon
  <2>3. CASE batch[e] = {}
    <3>1. some = {}
      BY <2>1, <2>3, Zenon DEF Acknowledges, Oldest, First
    <3>2. served'[e] = served[e] /\ Of(Stored, e) \ ids = Of(Stored, e)
      BY <1>1, <2>2, <2>3, <3>1, Zenon
    <3>3. newest[e] \in Stored => newest[e] \in Of(Stored, e)
      BY <1>1, Zenon DEF NewestInv, Of
    <3> QED BY <1>1, <3>2, <3>3, Zenon DEF NewestInv
  <2>4. CASE batch[e] # {}
    <3>1. PICK m, n : m = Max(batch[e]) /\ n = newest[e]
      BY Zenon
    <3>2. /\ some \subseteq batch[e] /\ m \in batch[e] /\ batch[e] \in SUBSET Of(Stored, e) /\ batch[e] \in SUBSET Nat
          /\ \A x \in batch[e] : m >= x
          /\ \A x \in some, y \in Of(Stored, e) : y <= x => y \in some
      BY <2>1, <2>4, <3>1, StagedTaken
    <3>3. served'[e] = m /\ m \in Of(Stored, e)
      BY <1>1, <2>4, <3>1, <3>2, Zenon
    <3>4. \A y \in Of(Stored, e) : y <= n /\ y \in 0..MaxOps
      <4>1. PICK S : S = Stored
        BY Zenon
      <4>2. Of(S, e) \in SUBSET (0..MaxOps)
        BY <1>1, <4>1, OfFacts, Zenon
      <4> QED BY <1>1, <3>1, <4>1, <4>2, Zenon DEF NewestInv, Of
    <3>5. n \in Of(Stored, e)
      BY <1>1, <3>1, <3>3, Zenon DEF NewestInv, Of
    <3>6. CASE n \in ids
      <4>1. n \in some /\ m >= n /\ m <= n
        BY <2>2, <3>2, <3>3, <3>4, <3>5, <3>6, Zenon
      <4>2. m = n
        BY <3>3, <3>4, <3>5, <4>1
      <4>3. Of(Stored, e) \ ids = {}
        BY <2>2, <3>2, <3>4, <4>1, Zenon
      <4> QED BY <3>1, <3>3, <3>4, <4>2, <4>3, Zenon
    <3>7. CASE n \notin ids
      BY <3>1, <3>3, <3>4, <3>5, <3>7, Zenon DEF Of
    <3> QED BY <3>6, <3>7, Zenon
  <2> QED BY <2>3, <2>4, Zenon
<1>3. served' \in [Entities -> 0..MaxOps]
  BY <1>1, <1>2, Zenon
<1> QED BY <1>2, <1>3, Zenon

LEMMA PublishedServedInv ==
  ASSUME IInv, attempt.pc = "selected", owner # "Retired", NEW batch \in Staged,
         NEW ids, ids = Acknowledged(batch), Acknowledge(ids), Serve(batch),
         faults' = 0 => faults = 0, Listed' \in {{}, Listed \ ids},
         \/ schedule'.held = AdvancePast(batch).held
         \/ schedule'.held = NewSchedule.held /\ Stored' = {}
  PROVE  ServedInv'
<1>1. /\ TypeOK /\ ListInv /\ ServedInv
      /\ served' = [e \in Entities |-> IF batch[e] = {} THEN served[e] ELSE Max(batch[e])]
  BY Zenon DEF IInv, Serve
<1>2. /\ Stored' = Stored \ ids /\ \A id \in Stored' : queue'[id] = queue[id]
      /\ \A e : Of(Stored, e)' = Of(Stored, e) \ ids
  BY <1>1, AcknowledgeFacts, Zenon
<1>3. SUFFICES ASSUME NEW e \in Entities
               PROVE  /\ Newer(e, Stored)' /\ Newer(e, Listed)'
                      /\ faults' = 0 => Sound(e, schedule.held[e], Listed)'
  BY Zenon DEF ServedInv
<1>4. Newer(e, Stored) /\ Newer(e, Listed) /\ (faults' = 0 => Sound(e, schedule.held[e], Listed))
  BY <1>1, Zenon DEF ServedInv
<1>5. PICK some : some = Acknowledges(batch[e])
  BY Zenon
<1>6. Of(Stored, e) \cap ids = some /\ Of(Stored, e)' = Of(Stored, e) \ some
  <2>1. Of(Stored, e) \cap ids = some
    BY <1>5, NamedFacts, Zenon
  <2>2. PICK A, B : A = Of(Stored, e) /\ B = Of(Stored, e)'
    BY Zenon
  <2>3. B = A \ ids /\ A \cap ids = some
    BY <1>2, <2>1, <2>2, Zenon
  <2>4. B = A \ some
    BY <2>3, Zenon
  <2> QED BY <2>1, <2>2, <2>4, Zenon
<1>7. Of(Listed, e)' = {} \/ (Of(Listed, e)' = Of(Listed, e) \ some /\ Listed' = Listed \ ids)
  <2>1. CASE Listed' = {}
    BY <2>1, Zenon DEF Of
  <2>2. CASE Listed' = Listed \ ids
    <3>1. Listed \subseteq Stored /\ Listed' \subseteq Stored'
      BY <1>1, <1>2, <2>2, Zenon DEF ListInv
    <3>2. Of(Listed, e)' = Of(Listed, e) \ ids
      BY <1>2, <2>2, <3>1, Zenon DEF Of
    <3>3. Of(Listed, e) \cap ids = Of(Listed, e) \cap some
      BY <1>6, <3>1, Zenon DEF Of
    <3> QED BY <2>2, <3>2, <3>3, Zenon
  <2> QED BY <2>1, <2>2, Zenon
<1>8. PICK h : h = schedule'.held[e]
  BY Zenon
<1>9. /\ batch[e] = {} => h = schedule.held[e] \/ (h.kind = "none" /\ Stored' = {})
      /\ batch[e] # {} => \/ h.kind = "none" /\ some = batch[e]
                          \/ h.kind = "Draining"
                          \/ h.kind = "none" /\ Stored' = {}
  <2>1. CASE schedule'.held = AdvancePast(batch).held
    <3>1. PICK g : g = AdvancePast(batch).held[e]
      BY Zenon
    <3>2. /\ batch[e] = {} => g = schedule.held[e]
          /\ batch[e] # {} /\ some = batch[e] => g.kind = "none"
          /\ batch[e] # {} /\ some # batch[e] => g.kind = "Draining"
      BY <1>5, <3>1, AdvanceFacts, Zenon
    <3> QED BY <1>8, <2>1, <3>1, <3>2, Zenon
  <2>2. CASE schedule'.held = NewSchedule.held /\ Stored' = {}
    <3>1. h = NoHold
      BY <1>8, <2>2, NewScheduleFields, Zenon
    <3> QED BY <2>2, <3>1, NoHoldFields, Zenon
  <2> QED BY <2>1, <2>2, Zenon
<1>10. CASE batch[e] = {}
  <2>1. some = {} /\ served'[e] = served[e]
    BY <1>1, <1>5, <1>10, Zenon DEF Acknowledges, Oldest, First
  <2>2. Of(Stored, e)' = Of(Stored, e) /\ (Of(Listed, e)' = {} \/ Of(Listed, e)' = Of(Listed, e))
    BY <1>6, <1>7, <2>1, Zenon
  <2>3. Newer(e, Stored)' /\ Newer(e, Listed)'
    BY <1>4, <2>1, <2>2, Zenon DEF Newer
  <2>4. ASSUME NEW id, Tried(e, id, Listed) PROVE Tried(e, id, Listed)' /\ Through(e, id)' = Through(e, id)
    <3>1. Through(e, id)' = Through(e, id)
      BY <2>2, Zenon DEF Through
    <3>2. id \in Of(Stored, e)' /\ id >= served'[e]
      BY <2>1, <2>2, <2>4, Zenon DEF Tried
    <3>3. ASSUME Of(Listed, e)' # {} PROVE id \in Listed'
      <4>1. Of(Listed, e)' = Of(Listed, e) /\ Listed' = Listed \ ids
        BY <1>7, <2>1, <2>2, <3>3, Zenon
      <4>2. id \in Listed /\ id \in Of(Stored, e)
        BY <2>4, <3>3, <4>1, Zenon DEF Tried
      <4>3. id \notin ids
        BY <1>6, <2>1, <4>2, Zenon
      <4> QED BY <4>1, <4>2, <4>3, Zenon
    <3> QED BY <3>1, <3>2, <3>3, Zenon DEF Tried
  <2>5. ASSUME faults' = 0 PROVE Sound(e, schedule.held[e], Listed)'
    <3>1. CASE h = schedule.held[e]
      <4>1. Sound(e, h, Listed)
        BY <1>4, <2>5, <3>1, Zenon
      <4>2. h.kind = "none" => \A y \in Of(Stored, e)' : y >= served'[e]
        BY <2>1, <2>2, <4>1, Zenon DEF Sound
      <4>3. h.kind \in {"Waiting", "Failed", "Repairing"} => Tried(e, h.through, Listed)'
        BY <2>4, <4>1, Zenon DEF Sound
      <4>4. h.kind = "Repairing" => /\ Tried(e, h.tried, Listed)'
                                    /\ Cardinality(Through(e, h.through)') <= h.width
        <5>1. ASSUME h.kind = "Repairing"
              PROVE Tried(e, h.tried, Listed) /\ Tried(e, h.through, Listed)
                    /\ Cardinality(Through(e, h.through)) <= h.width
          BY <4>1, <5>1, Zenon DEF Sound
        <5> QED BY <2>4, <5>1, Zenon
      <4> QED BY <1>8, <4>2, <4>3, <4>4, Zenon DEF Sound
    <3>2. CASE h.kind = "none" /\ Stored' = {}
      <4>1. Of(Stored, e)' = {} /\ h.kind \notin {"Waiting", "Failed", "Repairing"}
        BY <3>2, Zenon DEF Of
      <4> QED BY <1>8, <4>1, Zenon DEF Sound
    <3> QED BY <1>10, <1>9, <3>1, <3>2, Zenon
  <2> QED BY <2>3, <2>5, Zenon
<1>11. CASE batch[e] # {}
  <2>1. PICK m : m = Max(batch[e])
    BY Zenon
  <2>2. /\ some \subseteq batch[e] /\ m \in batch[e] /\ batch[e] \in SUBSET Of(Stored, e) /\ batch[e] \subseteq Listed
        /\ batch[e] \in SUBSET Nat
        /\ m \in some => \A y \in Of(Stored, e) \ some : y >= m
    BY <1>5, <1>11, <2>1, StagedTaken
  <2>3. served'[e] = m /\ m >= m /\ m \in Of(Stored, e) /\ m \in Of(Listed, e)
    <3>1. m >= m
      BY <2>2
    <3> QED BY <1>1, <1>11, <2>1, <2>2, <3>1, Zenon DEF Of
  <2>4. Of(Listed, e) \subseteq Of(Stored, e)
    BY <1>1, Zenon DEF Of, ListInv
  <2>5. Newer(e, Stored)'
    <3>1. Of(Stored, e) \ some # {} => \E x \in Of(Stored, e) \ some : x >= m
      BY <2>2, <2>3, Zenon
    <3> QED BY <1>6, <2>3, <3>1, Zenon DEF Newer
  <2>6. Newer(e, Listed)'
    <3>1. Of(Listed, e) \ some # {} => \E x \in Of(Listed, e) \ some : x >= m
      BY <2>2, <2>3, <2>4, Zenon
    <3> QED BY <1>7, <2>3, <3>1, Zenon DEF Newer
  <2>7. Sound(e, schedule.held[e], Listed)'
    <3>1. CASE h.kind = "none" /\ some = batch[e]
      <4>1. \A y \in Of(Stored, e)' : y >= served'[e]
        BY <1>6, <2>2, <2>3, <3>1, Zenon
      <4>2. h.kind \notin {"Waiting", "Failed", "Repairing"}
        BY <3>1, Zenon
      <4> QED BY <1>8, <4>1, <4>2, Zenon DEF Sound
    <3>2. CASE h.kind = "Draining"
      <4>1. h.kind \notin {"Waiting", "Failed", "Repairing"} /\ h.kind # "none"
        BY <3>2, Zenon
      <4> QED BY <1>8, <4>1, Zenon DEF Sound
    <3>3. CASE h.kind = "none" /\ Stored' = {}
      <4>1. Of(Stored, e)' = {} /\ h.kind \notin {"Waiting", "Failed", "Repairing"}
        BY <3>3, Zenon DEF Of
      <4> QED BY <1>8, <4>1, Zenon DEF Sound
    <3> QED BY <1>11, <1>9, <3>1, <3>2, <3>3, Zenon
  <2> QED BY <2>5, <2>6, <2>7, Zenon
<1> QED BY <1>10, <1>11, Zenon

LEMMA PublishedOK ==
  ASSUME IInv, attempt.pc = "selected", owner = "Active", NEW batch \in Staged,
         NEW ids, ids = Acknowledged(batch), Acknowledge(ids), See(ids), Serve(batch),
         unsettled' \in {unsettled \ ids, unsettled \cup ids}, faults' = faults \/ faults' = faults + 1,
         NEW left \in {{}, attempt.stored.ids \ ids}, Ended(left, AdvancePast(batch).held)
  PROVE  IInv'
<1>1. TypeOK /\ AttemptInv /\ attempt.pc # "idle" /\ owner # "Retired" /\ owner' = owner
  BY Zenon DEF IInv, Acknowledge
<1>2. owner' # "Retired"
  BY <1>1, Zenon
<1>3. Stored' = Stored \ ids /\ flight' \in [Entities -> Flights]
  BY <1>1, AcknowledgeFacts, SeeType, Zenon
<1>4. faults' = 0 => faults = 0
  BY <1>1, FaultsStep, Zenon
<1>5. Listed' \in {{}, Listed \ ids}
  BY <1>1, NoAttemptFields, Zenon DEF Ended, Listed, AttemptInv
<1>6. ServedInv'
  BY <1>1, <1>2, <1>4, <1>5, PublishedServedInv, Zenon DEF Ended
<1>7. unsettled' \in SUBSET Charged
  <2>1. unsettled \in SUBSET Charged
    BY <1>1, Zenon DEF TypeOK
  <2>2. ids \subseteq Charged
    <3>1. Ids \subseteq 0..MaxOps
      BY DEF Ids
    <3>2. ids \in SUBSET Ids
      BY NamedFacts, Zenon
    <3> QED BY <3>1, <3>2, Zenon DEF Charged
  <2> QED BY <2>1, <2>2, Zenon
<1>8. /\ served' \in [Entities -> 0..MaxOps] /\ \A e \in Entities : served'[e] <= newest[e]
      /\ \A e \in Entities : newest[e] \in Stored' \/ (newest[e] = served'[e] /\ Of(Stored, e) \ ids = {})
  BY <1>1, <1>3, PublishedServes, Zenon
<1> QED BY <1>1, <1>3, <1>6, <1>7, <1>8, AcknowledgedOK, Zenon

LEMMA PublishesOK ==
  ASSUME IInv, Publish \/ PublishUncertain
  PROVE  IInv'
<1>1. TypeOK /\ attempt \in AttemptRecord /\ attempt.pc = "selected" /\ owner = "Active"
  BY Zenon DEF IInv, TypeOK, Publish, PublishUncertain
<1>2. attempt.stored \in QueueRecord /\ attempt.pc # "idle" /\ owner # "Retired"
  BY <1>1, Zenon DEF AttemptRecord
<1>3. CASE Publish
  <2>1. PICK batch, ids :
          /\ batch \in Staged /\ ids = Acknowledged(batch) /\ Acknowledge(ids) /\ See(ids) /\ Serve(batch)
          /\ unsettled' = unsettled \ ids /\ Ends("Published", AdvancePast(batch), Remaining(ids))
    BY <1>3, Zenon DEF Publish
  <2>2. AdvancePast(batch) \in ScheduleRecord /\ "Published" # "Discarded"
    BY <1>1, <2>1, AdvanceFacts, Zenon
  <2>3. Remaining(ids) \in QueueRecord /\ Remaining(ids).ids = attempt.stored.ids \ ids
    BY <1>2, Zenon DEF Remaining, QueueRecord
  <2>4. Ended(attempt.stored.ids \ ids, AdvancePast(batch).held)
    <3>1. PICK s, q : s = AdvancePast(batch) /\ q = Remaining(ids)
      BY Zenon
    <3>2. Ended(q.ids, s.held)
      BY <2>1, <2>2, <2>3, <3>1, EndsFacts, Zenon
    <3> QED BY <2>3, <3>1, <3>2, Zenon
  <2>5. faults' = faults
    BY <1>3, Zenon DEF Publish
  <2> QED BY <1>1, <2>1, <2>4, <2>5, PublishedOK, Zenon
<1>4. CASE PublishUncertain
  <2>1. PICK batch, ids :
          /\ batch \in Staged /\ ids = Acknowledged(batch) /\ See(ids)
          /\ \/ Acknowledge(ids) /\ Serve(batch)
             \/ UNCHANGED <<family, owner, newest, queue, served>>
          /\ unsettled' = unsettled \cup ids /\ Ends("Retry", AdvancePast(batch), NoQueue)
    BY <1>4, Zenon DEF PublishUncertain, UncertainRemainder
  <2>2. AdvancePast(batch) \in ScheduleRecord /\ "Retry" # "Discarded"
    BY <1>1, <2>1, AdvanceFacts, Zenon
  <2>3. faults' = faults + 1
    BY <1>4, Zenon DEF PublishUncertain, Fault
  <2>4. Ended({}, AdvancePast(batch).held)
    <3>1. PICK s : s = AdvancePast(batch)
      BY Zenon
    <3>2. Ended({}, s.held)
      BY <2>1, <2>2, <3>1, EndsFacts, NoQueueFields, Zenon
    <3> QED BY <3>1, <3>2, Zenon
  <2>5. CASE Acknowledge(ids) /\ Serve(batch)
    BY <1>1, <2>1, <2>3, <2>4, <2>5, PublishedOK, Zenon
  <2>6. CASE UNCHANGED <<family, owner, newest, queue, served>>
    <3>1. faults' # 0
      BY <1>1, <2>3 DEF TypeOK
    <3>2. flight' \in [Entities -> Flights]
      BY <1>1, <2>1, SeeType, Zenon
    <3>3. unsettled' \in SUBSET Charged
      <4>1. Ids \subseteq 0..MaxOps
        BY DEF Ids
      <4>2. ids \in SUBSET Ids
        BY <1>1, <2>1, NamedFacts, Zenon
      <4> QED BY <1>1, <2>1, <4>1, <4>2, Zenon DEF Charged, TypeOK
    <3> QED BY <1>2, <2>3, <2>4, <2>6, <3>1, <3>2, <3>3, EndOK, Zenon
  <2> QED BY <2>1, <2>5, <2>6, Zenon
<1> QED BY <1>3, <1>4, Zenon

----------------------------------------------------------------------------
(* The invariant, and what it establishes. *)

LEMMA InitOK ==
  ASSUME Init
  PROVE  IInv
<1>1. /\ family \in Families /\ owner \in Owners \ {"Retired"} /\ queue = [id \in Ids |-> None]
      /\ newest = [e \in Entities |-> 0] /\ served = newest /\ flight = [e \in Entities |-> "none"]
      /\ unsettled = {} /\ retained = NoQueue /\ schedule = NewSchedule /\ attempt = NoAttempt /\ faults = 0
  BY Zenon DEF Init
<1>2. Stored = {} /\ Listed = {}
  BY <1>1, NoQueueFields, NoAttemptFields, Zenon DEF Stored, Listed
<1>3. 0 \in 0..MaxOps /\ 0 <= 0 /\ 0 \in Nat
  BY PublicationAssumption
<1>4. TypeOK
  <2>1. owner \in {"Building", "Active", "Retired"}
    BY <1>1, PublicationAssumption, Zenon
  <2>2. newest \in [Entities -> 0..MaxOps]
    BY <1>1, <1>3, Zenon
  <2>3. flight \in [Entities -> Flights]
    BY <1>1, Zenon DEF Flights
  <2>4. queue \in [Ids -> Operation \cup {None}]
    BY <1>1, Zenon
  <2> QED BY <1>1, <1>3, <2>1, <2>2, <2>3, <2>4, NoQueueFields, NoAttemptFields, NewScheduleFields, Zenon DEF TypeOK
<1>5. ListInv
  BY <1>2, Zenon DEF ListInv, Closed
<1>6. \A e \in Entities : attempt.batch[e] = {}
  BY <1>1, NoAttemptFields, Zenon
<1>7. AttemptInv
  <2>1. attempt.pc = "idle" /\ attempt.pc # "discarding" /\ attempt.stored.ids = {}
    BY <1>1, NoAttemptFields, Zenon
  <2> QED BY <1>6, <2>1, Zenon DEF AttemptInv, Closed
<1>8. NewestInv
  BY <1>1, <1>2, <1>3, Zenon DEF NewestInv, Of
<1>9. BatchInv
  BY <1>6, Zenon DEF BatchInv, Alone
<1>10. ServedInv
  <2>1. \A e \in Entities : schedule.held[e] = NoHold
    BY <1>1, NewScheduleFields, Zenon
  <2>2. \A e \in Entities : Sound(e, schedule.held[e], Listed)
    BY <1>2, <2>1, NothingSound, Zenon
  <2> QED BY <1>2, <2>2, Zenon DEF ServedInv, Newer, Of
<1> QED BY <1>4, <1>5, <1>7, <1>8, <1>9, <1>10, Zenon DEF IInv

LEMMA NextOK ==
  ASSUME IInv, [Next]_vars
  PROVE  IInv'
<1>1. CASE UNCHANGED vars
  <2>1. UNCHANGED <<family, owner, queue, newest, served, flight, unsettled, retained, schedule, attempt, faults>>
    BY <1>1, Zenon DEF vars
  <2>2. TypeOK'
    BY <2>1, Zenon DEF IInv, TypeOK
  <2>3. Quiet
    BY <2>1, SameHolds, Zenon DEF Quiet
  <2> QED BY <2>2, <2>3, QuietOK, Zenon
<1>2. ASSUME NEW e \in Entities,
             Reserve(e) \/ Abort(e) \/ Land(e) \/ Return(e) \/ ReturnUncertain(e) \/ Lose(e) \/ RetryDue(e)
      PROVE  IInv'
  BY <1>2, QuietWrites, LandOK, QuietTime, Zenon
<1>3. CASE Activate \/ Retire \/ Elapse \/ Restart
  BY <1>3, QuietTime, RestartOK, Zenon
<1>4. CASE Begin \/ Settle \/ Fails \/ LosesOwnership \/ DoesNotFit \/ CannotPlan \/ Conflicts
  BY <1>4, BeginOK, SettleOK, SimpleEnds, NarrowsOK, Zenon
<1>5. CASE Publish \/ PublishUncertain \/ Discard \/ DiscardUncertain
  BY <1>5, PublishesOK, DiscardsOK, Zenon
<1> QED BY <1>1, <1>2, <1>3, <1>4, <1>5, Zenon DEF Next

(* The inductive invariant: what the publisher lists, takes, holds back and *)
(* serves agrees with the queue, whatever writes, faults and restarts do.   *)
THEOREM Invariance == Spec => []IInv
<1>1. Init => IInv
  BY InitOK, Zenon
<1>2. IInv /\ [Next]_vars => IInv'
  BY NextOK, Zenon
<1> QED BY <1>1, <1>2, PTL DEF Spec

(* RetainedQueues' contract (storage.rs:368-372).  A publisher keeps its    *)
(* queue across attempts, writes, trims, conflicts and uncertain commits:   *)
(* what it holds is still outstanding.                                      *)
THEOREM RetainedOutstanding == Spec => []RetainedIsOutstanding
<1>1. IInv => RetainedIsOutstanding
  BY Zenon DEF IInv, ListInv, Listed, RetainedIsOutstanding
<1> QED BY <1>1, Invariance, PTL

(* No acknowledgement drops a write (publication.rs:1239).                  *)
THEOREM NewestKnown == Spec => []NewestIsQueuedOrServed
<1>1. IInv => NewestIsQueuedOrServed
  BY Zenon DEF IInv, NewestInv, NewestIsQueuedOrServed
<1> QED BY <1>1, Invariance, PTL

(* What an entity of a staged batch serves next.                            *)
LEMMA StagedForward ==
  ASSUME IInv, attempt.pc = "selected", owner # "Retired", NEW e \in Entities,
         NEW taken, taken = attempt.batch[e], taken # {},
         faults = 0 \/ schedule.held[e].kind \in {"Draining", "Waiting", "Failed"}
  PROVE  Max(taken) >= served[e]
<1>1. /\ Listed = attempt.stored.ids /\ Max(taken) \in taken /\ \A x \in taken : Max(taken) >= x
      /\ taken \in SUBSET Nat
  BY TakenFacts
<1>2. served[e] \in 0..MaxOps
  BY Zenon DEF IInv, TypeOK
<1>3. PICK m : m = Max(taken)
  BY Zenon
<1>4. ASSUME NEW x \in taken, x >= served[e] PROVE m >= served[e]
  <2>1. m \in Nat /\ x \in Nat /\ m >= x
    BY <1>1, <1>3, Zenon
  <2> QED BY <1>2, <1>4, <2>1
<1>5. CASE schedule.held[e].kind \in {"Draining", "Waiting", "Failed"}
  <2>1. taken = Of(Listed, e)
    BY <1>1, <1>5, Zenon DEF IInv, BatchInv, Alone
  <2>2. PICK x \in taken : x >= served[e]
    BY <2>1, Zenon DEF IInv, ServedInv, Newer
  <2> QED BY <1>3, <1>4, <2>2, Zenon
<1>6. CASE faults = 0 /\ schedule.held[e].kind = "Repairing"
  <2>1. PICK id : id = schedule.held[e].through
    BY Zenon
  <2>2. id \in taken /\ Tried(e, id, Listed)
    BY <1>6, <2>1, RepairReaches, Zenon
  <2> QED BY <1>3, <1>4, <2>2, Zenon DEF Tried
<1>7. CASE faults = 0 /\ schedule.held[e].kind # "Repairing"
  BY <1>7, MaxTried, Zenon DEF Tried
<1> QED BY <1>3, <1>5, <1>6, <1>7, Zenon

(* A publication never moves what an entity serves back while it drains,    *)
(* waits or has failed, and never at all before the first fault             *)
(* (HeldEntity, publication.rs:212-218).                                    *)
THEOREM ServedForward == Spec => ServedStepsForward
<1> DEFINE Forward == \A e \in Entities :
                        faults = 0 \/ schedule.held[e].kind \in {"Draining", "Waiting", "Failed"}
                          => served'[e] >= served[e]
<1>1. ASSUME IInv, Next PROVE Forward
  <2>1. TypeOK /\ \A e \in Entities : served[e] >= served[e]
    <3>1. TypeOK /\ \A e \in Entities : served[e] \in 0..MaxOps
      BY <1>1, Zenon DEF IInv, TypeOK
    <3>2. \A x \in 0..MaxOps : x >= x
      OBVIOUS
    <3> QED BY <3>1, <3>2, Zenon
  <2>2. CASE served' = served
    BY <2>1, <2>2, Zenon
  <2>3. CASE Publish \/ PublishUncertain
    <3>1. SUFFICES ASSUME served' # served PROVE Forward
      BY <2>2, Zenon
    <3>2. PICK batch \in Staged : Serve(batch)
      BY <2>3, <3>1, Zenon DEF Publish, PublishUncertain
    <3>3. attempt.pc = "selected" /\ owner # "Retired"
      BY <2>3, Zenon DEF Publish, PublishUncertain
    <3>4. ASSUME NEW e \in Entities, faults = 0 \/ schedule.held[e].kind \in {"Draining", "Waiting", "Failed"}
          PROVE  served'[e] >= served[e]
      <4>1. CASE batch[e] = {}
        BY <2>1, <3>2, <4>1, Zenon DEF Serve
      <4>2. CASE batch[e] # {}
        <5>1. PICK taken : taken = batch[e]
          BY Zenon
        <5>2. taken = attempt.batch[e] /\ taken # {}
          BY <1>1, <3>3, <4>2, <5>1, StagedFacts, Zenon
        <5>3. Max(taken) >= served[e]
          BY <1>1, <3>3, <3>4, <5>2, StagedForward, Zenon
        <5> QED BY <3>2, <4>2, <5>1, <5>3, Zenon DEF Serve
      <4> QED BY <4>1, <4>2, Zenon
    <3> QED BY <3>4, Zenon
  <2>4. served' = served \/ Publish \/ PublishUncertain
    BY <1>1, Zenon DEF Next, Reserve, Abort, Land, Return, ReturnUncertain, Lose, RetryDue, Activate, Retire,
         Elapse, Restart, Begin, Settle, Fails, LosesOwnership, DoesNotFit, CannotPlan, Conflicts, Narrowed,
         Unstored, Discard, DiscardUncertain
  <2> HIDE DEF Forward
  <2> QED BY <2>2, <2>3, <2>4, Zenon
<1>2. IInv /\ [Next]_vars => [Forward]_vars
  <2> HIDE DEF Forward
  <2> QED BY <1>1, Zenon
<1> QED BY <1>2, Invariance, PTL DEF Spec, ServedStepsForward

----------------------------------------------------------------------------
(* Why a generation that waits for new work has nothing to try. *)

(* The generation is published, or an attempt that found it so still runs.  *)
Live == owner # "Retired" \/ (attempt.pc # "idle" /\ attempt.owner = "Active")

(* A repair in progress has something to take: its width is not zero, and   *)
(* what an entity drains ends before its newest operation.                  *)
Tries(e, hold) ==
  /\ hold.kind = "Repairing" => hold.width > 0
  /\ Live /\ hold.kind = "Draining" => \E id \in Of(Stored, e) : id > hold.through
HoldInv == \A e \in Entities : Tries(e, schedule.held[e])

(* An attempt that saw the latest admission awaits every unknown write, and *)
(* a generation that waits for new work has none, nor anything to try.      *)
Returned(e) == {id \in Of(Stored, e) : flight[e] = "landed" => id # newest[e]}
Untryable(e) ==
  Returned(e) # {} =>
    /\ schedule.held[e].kind \in {"Waiting", "Failed"} /\ ~schedule.held[e].due
    /\ \A id \in Returned(e) : id <= schedule.held[e].through
StallInv ==
  /\ attempt.pc = "classified" /\ attempt.current => Unknown \subseteq attempt.awaits
  /\ schedule.eligible = "NewWork" =>
       attempt.pc = "idle" /\ Unknown = {} /\ \A e \in Entities : Untryable(e)

(* What a step may leave an entity's hold.                                  *)
Reholds(e, new) ==
  \/ new.kind \in {"none", "Waiting", "Failed"} \/ (new.kind = "Repairing" /\ new.width > 0)
  \/ SameHold(schedule.held[e], new) /\ (Live' => Of(Stored, e) \subseteq Of(Stored, e)')
  \/ new.kind = "Draining" /\ \E id \in Of(Stored, e)' : id > new.through

LEMMA HoldKept ==
  ASSUME HoldInv, Live' => Live, \A e \in Entities : Reholds(e, schedule'.held[e])
  PROVE  HoldInv'
<1>1. ASSUME NEW e \in Entities PROVE Tries(e, schedule.held[e])'
  <2>1. PICK old, new : old = schedule.held[e] /\ new = schedule'.held[e]
    BY Zenon
  <2>2. /\ old.kind = "Repairing" => old.width > 0
        /\ Live /\ old.kind = "Draining" => \E id \in Of(Stored, e) : id > old.through
    BY <2>1, Zenon DEF HoldInv, Tries
  <2>3. \/ new.kind \in {"none", "Waiting", "Failed"} \/ (new.kind = "Repairing" /\ new.width > 0)
        \/ SameHold(old, new) /\ (Live' => Of(Stored, e) \subseteq Of(Stored, e)')
        \/ new.kind = "Draining" /\ \E id \in Of(Stored, e)' : id > new.through
    BY <2>1, Zenon DEF Reholds
  <2>4. CASE new.kind \in {"none", "Waiting", "Failed"}
    <3>1. new.kind # "Repairing" /\ new.kind # "Draining"
      BY <2>4, Zenon
    <3> QED BY <2>1, <3>1, Zenon DEF Tries
  <2>5. CASE new.kind = "Repairing" /\ new.width > 0
    <3>1. new.kind # "Draining"
      BY <2>5, Zenon
    <3> QED BY <2>1, <2>5, <3>1, Zenon DEF Tries
  <2>6. CASE SameHold(old, new) /\ (Live' => Of(Stored, e) \subseteq Of(Stored, e)')
    BY <2>1, <2>2, <2>6, Zenon DEF Tries, SameHold
  <2>7. CASE new.kind = "Draining" /\ \E id \in Of(Stored, e)' : id > new.through
    <3>1. new.kind # "Repairing"
      BY <2>7, Zenon
    <3> QED BY <2>1, <2>7, <3>1, Zenon DEF Tries
  <2> QED BY <2>3, <2>4, <2>5, <2>6, <2>7, Zenon
<1> QED BY <1>1, Zenon DEF HoldInv

(* A step that neither admits nor schedules.                                *)
LEMMA StallKept ==
  ASSUME StallInv, UNCHANGED <<attempt, schedule>>, Unknown' \subseteq Unknown,
         schedule.eligible = "NewWork" => \A e \in Entities : Returned(e)' \subseteq Returned(e)
  PROVE  StallInv'
<1>1. schedule.eligible = "NewWork" => \A e \in Entities : Untryable(e)'
  BY Zenon DEF StallInv, Untryable
<1> QED BY <1>1, Zenon DEF StallInv

LEMMA StallReset ==
  ASSUME attempt'.pc # "classified" \/ ~attempt'.current, schedule'.eligible # "NewWork"
  PROVE  StallInv'
BY Zenon DEF StallInv

LEMMA HoldQuiet ==
  ASSUME HoldInv, Quiet
  PROVE  HoldInv'
<1>1. Live' => Live
  BY Zenon DEF Live, Quiet
<1>2. \A e : Of(Stored, e)' = Of(Stored, e)
  BY Zenon DEF Of, Stored, Quiet
<1>3. \A e \in Entities : Reholds(e, schedule'.held[e])
  BY <1>2, Zenon DEF Reholds, Quiet
<1> QED BY <1>1, <1>3, HoldKept, Zenon

(* Writes, the index record and time.                                       *)
LEMMA WritesStall ==
  ASSUME IInv, HoldInv, StallInv, NEW e \in Entities,
         Reserve(e) \/ Abort(e) \/ Return(e) \/ ReturnUncertain(e) \/ Lose(e)
  PROVE  HoldInv' /\ StallInv'
<1>1. TypeOK /\ UNCHANGED <<family, owner, queue, newest, served>> /\ attempt \in AttemptRecord
  BY Zenon DEF IInv, TypeOK, Reserve, Abort, Return, ReturnUncertain, Lose
<1>2. HoldInv'
  BY QuietWrites, HoldQuiet, Zenon
<1>3. CASE Admit \/ ReturnUncertain(e)
  <2>1. \E late : attempt' = Marked(attempt, late)
    <3>1. CASE Admit
      <4>1. attempt' = Marked(attempt, attempt.late)
        BY <1>1, <3>1, Zenon DEF Admit, AttemptRecord, Marked
      <4> QED BY <4>1, Zenon
    <3>2. CASE ReturnUncertain(e)
      <4>1. PICK late : late = IF attempt.pc = "classified" THEN attempt.late \cup {e} ELSE attempt.late
        BY Zenon
      <4>2. attempt' = Marked(attempt, late)
        BY <1>1, <3>2, <4>1, Zenon DEF ReturnUncertain, AttemptRecord, Marked
      <4> QED BY <4>2, Zenon
    <3> QED BY <1>3, <3>1, <3>2, Zenon
  <2>2. ~attempt'.current
    BY <1>1, <2>1, Zenon DEF Marked, AttemptRecord
  <2>3. schedule'.eligible # "NewWork"
    BY <1>1, <1>3, Reeligible, Zenon DEF Admit, ReturnUncertain
  <2> QED BY <1>2, <2>2, <2>3, StallReset, Zenon
<1>4. CASE NoAdmission /\ flight[e] # "landed" /\ flight' = [flight EXCEPT ![e] = "none"]
  <2>1. flight \in [Entities -> Flights] /\ "none" # "landed" /\ "none" # "unknown"
    BY <1>1, Zenon DEF TypeOK
  <2>2. flight'[e] = "none" /\ \A x \in Entities : x # e => flight'[x] = flight[x]
    BY <1>4, <2>1, Zenon
  <2>3. Unknown' \subseteq Unknown
    BY <2>1, <2>2, Zenon DEF Unknown
  <2>4. \A x \in Entities : flight[x] = "landed" <=> flight'[x] = "landed"
    BY <1>4, <2>1, <2>2, Zenon
  <2>5. \A x \in Entities : Returned(x)' \subseteq Returned(x)
    BY <1>1, <2>4, Zenon DEF Returned, Of, Stored
  <2> QED BY <1>2, <1>4, <2>3, <2>5, StallKept, Zenon DEF NoAdmission
<1>5. Abort(e) \/ Return(e) \/ Lose(e) =>
        Admit \/ (NoAdmission /\ flight[e] # "landed" /\ flight' = [flight EXCEPT ![e] = "none"])
  <2>1. "reserved" # "landed" /\ "seen" # "landed" /\ "unknown" # "landed"
    BY Zenon
  <2> QED BY <2>1, Zenon DEF Abort, Return, Lose, Flies
<1> QED BY <1>3, <1>4, <1>5, Zenon DEF Reserve

LEMMA TimeStall ==
  ASSUME IInv, HoldInv, StallInv, Activate \/ Retire \/ Elapse \/ (\E e \in Entities : RetryDue(e))
  PROVE  HoldInv' /\ StallInv'
<1>1. UNCHANGED <<queue, newest, flight, attempt>>
  BY Zenon DEF Activate, Retire, Elapse, RetryDue
<1>2. Quiet /\ (schedule' = schedule \/ schedule'.eligible # "NewWork")
  BY QuietTime, Zenon
<1>3. Unknown' = Unknown /\ \A e \in Entities : Returned(e)' = Returned(e)
  BY <1>1, Zenon DEF Unknown, Returned, Of, Stored
<1>4. StallInv'
  <2>1. CASE schedule' = schedule
    BY <1>1, <1>3, <2>1, StallKept, Zenon
  <2>2. CASE schedule'.eligible # "NewWork"
    BY <1>1, <1>3, <2>2, Zenon DEF StallInv
  <2> QED BY <1>2, <2>1, <2>2, Zenon
<1> QED BY <1>2, <1>4, HoldQuiet, Zenon

LEMMA LandStall ==
  ASSUME IInv, HoldInv, StallInv, NEW e \in Entities, Land(e)
  PROVE  HoldInv' /\ StallInv'
<1>1. TypeOK /\ UNCHANGED <<owner, attempt, schedule>> /\ flight \in [Entities -> Flights]
  BY Zenon DEF IInv, TypeOK, Land, NoAdmission
<1>2. PICK n : /\ \A x : x # e => Of(Stored, x)' = Of(Stored, x)
               /\ Of(Stored, e)' = Of(Stored, e) \cup {n} /\ newest'[e] = n
               /\ \A x \in Entities : x # e => newest'[x] = newest[x]
  BY LandFacts, Zenon
<1>3. HoldInv'
  <2>1. Live' => Live
    BY <1>1, Zenon DEF Live
  <2>2. \A x : Of(Stored, x) \subseteq Of(Stored, x)'
    BY <1>2, Zenon
  <2>3. \A x \in Entities : Reholds(x, schedule'.held[x])
    BY <1>1, <2>2, Zenon DEF Reholds, SameHold
  <2> QED BY <2>1, <2>3, HoldKept, Zenon
<1>4. flight[e] \in {"reserved", "unknown"} /\ flight[e] # "landed" /\ "landed" # "unknown" /\ "none" # "unknown"
  BY Zenon DEF Land
<1>5. PICK f \in {"none", "landed"} : flight' = [flight EXCEPT ![e] = f] /\ (flight[e] # "unknown" => f = "landed")
  BY Zenon DEF Land, Flies
<1>6. flight'[e] = f /\ \A x \in Entities : x # e => flight'[x] = flight[x]
  BY <1>1, <1>5, Zenon
<1>7. Unknown' \subseteq Unknown
  BY <1>4, <1>5, <1>6, Zenon DEF Unknown
<1>8. ASSUME schedule.eligible = "NewWork", NEW x \in Entities PROVE Returned(x)' \subseteq Returned(x)
  <2>1. CASE x = e
    <3>1. flight'[e] = "landed"
      BY <1>5, <1>6, <1>8, Zenon DEF StallInv, Unknown
    <3> QED BY <1>2, <1>4, <2>1, <3>1, Zenon DEF Returned
  <2>2. CASE x # e
    BY <1>2, <1>6, <2>2, Zenon DEF Returned
  <2> QED BY <2>1, <2>2, Zenon
<1> QED BY <1>1, <1>3, <1>7, <1>8, StallKept, Zenon

(* An attempt begins, or ends other than stalled.                           *)
LEMMA BeginStall ==
  ASSUME IInv, HoldInv, StallInv, Begin
  PROVE  HoldInv' /\ StallInv'
<1>1. /\ UNCHANGED <<owner, queue, flight, schedule>> /\ schedule.eligible = "Now"
      /\ attempt'.owner = owner /\ attempt'.awaits = Unknown
  BY Zenon DEF Begin, NoAttempt
<1>2. schedule'.eligible # "NewWork" /\ "Active" # "Retired"
  BY <1>1, Zenon
<1>3. Unknown' = Unknown /\ \A e : Of(Stored, e)' = Of(Stored, e)
  BY <1>1, Zenon DEF Unknown, Of, Stored
<1>4. Live' => Live
  BY <1>1, <1>2, Zenon DEF Live
<1>5. \A e \in Entities : Reholds(e, schedule'.held[e])
  BY <1>1, <1>3, Zenon DEF Reholds, SameHold
<1>6. HoldInv'
  BY <1>4, <1>5, HoldKept, Zenon
<1>7. StallInv'
  BY <1>1, <1>2, <1>3, Zenon DEF StallInv
<1> QED BY <1>6, <1>7, Zenon

LEMMA EndsStall ==
  ASSUME HoldInv, NEW s \in ScheduleRecord, NEW outcome, NEW remaining \in QueueRecord,
         Ends(outcome, s, remaining), outcome = "Discarded" => owner' = "Retired", UNCHANGED owner,
         \A e \in Entities : Reholds(e, s.held[e])
  PROVE  HoldInv' /\ (outcome # "Stalled" => StallInv')
<1>1. Ended(remaining.ids, s.held) /\ (outcome # "Stalled" => schedule'.eligible # "NewWork")
  BY EndsFacts, Zenon
<1>2. attempt'.pc = "idle" /\ attempt'.pc # "classified"
  BY <1>1, NoAttemptFields, Zenon DEF Ended
<1>3. Live' => Live
  BY <1>2, Zenon DEF Live
<1>4. \A e \in Entities : Reholds(e, schedule'.held[e])
  <2>1. \A e \in Entities : NewSchedule.held[e].kind = "none"
    BY NewScheduleFields, NoHoldFields, Zenon
  <2>2. \A e \in Entities : Reholds(e, NewSchedule.held[e])
    BY <2>1, Zenon DEF Reholds
  <2> QED BY <1>1, <2>2, Zenon DEF Ended
<1>5. HoldInv'
  BY <1>3, <1>4, HoldKept, Zenon
<1> QED BY <1>1, <1>2, <1>5, StallReset, Zenon

LEMMA SimpleEndsStall ==
  ASSUME IInv, HoldInv, NEW outcome, NEW remaining \in {NoQueue, attempt.stored},
         Ends(outcome, schedule, remaining), outcome # "Discarded", UNCHANGED <<owner, queue>>
  PROVE  HoldInv' /\ (outcome # "Stalled" => StallInv')
<1>1. schedule \in ScheduleRecord /\ attempt \in AttemptRecord
  BY Zenon DEF IInv, TypeOK
<1>2. attempt.stored \in QueueRecord
  BY <1>1, Zenon DEF AttemptRecord
<1>3. remaining \in QueueRecord
  BY <1>2, NoQueueFields, Zenon
<1>4. \A e : Of(Stored, e)' = Of(Stored, e)
  BY Zenon DEF Of, Stored
<1>5. \A e \in Entities : Reholds(e, schedule.held[e])
  BY <1>4, Zenon DEF Reholds, SameHold
<1> QED BY <1>1, <1>3, <1>5, EndsStall, Zenon

(* A stalled attempt found every queued entity held back, with a repair     *)
(* that is not due and nothing newer than what it waits for.                *)
LEMMA StalledUntryable ==
  ASSUME IInv, HoldInv, attempt.pc = "classified", attempt.owner = "Active", Visited(Stored) = {},
         NEW e \in Entities, Of(Stored, e) # {}, ~schedule.held[e].due
  PROVE  /\ schedule.held[e].kind \in {"Waiting", "Failed"}
         /\ \A id \in Of(Stored, e) : id <= schedule.held[e].through
<1>1. PICK hold, queued, S : hold = schedule.held[e] /\ queued = Of(Stored, e) /\ S = Stored
  BY Zenon
<1>2. TypeOK /\ hold \in HoldRecord /\ queued # {}
  BY <1>1, ScheduleFields, Zenon DEF IInv, TypeOK
<1>3. hold.kind \in HoldKinds /\ hold.through \in Nat /\ hold.width \in Nat
  BY <1>2, Zenon DEF HoldRecord
<1>4. queued \in SUBSET Ids /\ queued \in SUBSET (0..MaxOps)
  BY <1>1, <1>2, OfFacts, Zenon
<1>5. e \in EntitiesOf(Stored)
  BY <1>1, <1>2, Zenon DEF EntitiesOf, Of
<1>6. hold.kind # "none" /\ Repair(hold, queued) = {}
  BY <1>1, <1>5, Zenon DEF Visited, IsHeld
<1>7. Max(queued) \in queued /\ \A y \in queued : Max(queued) >= y
  BY <1>2, <1>4, MaxIs, Zenon
<1>8. hold.kind # "Repairing"
  <2>1. SUFFICES ASSUME hold.kind = "Repairing" PROVE FALSE
    BY Zenon
  <2>2. hold.width > 0
    BY <1>1, <2>1, Zenon DEF HoldInv, Tries
  <2>3. Oldest(hold.width, queued) # {}
    BY <1>2, <1>3, <1>4, <2>2, OldestSome, Zenon
  <2> QED BY <1>6, <2>1, <2>3, Zenon DEF Repair
<1>9. Max(queued) = hold.through
  BY <1>1, <1>2, <1>6, <1>8, Zenon DEF Repair
<1>10. \A id \in queued : id <= hold.through /\ ~(id > hold.through)
  BY <1>3, <1>4, <1>7, <1>9
<1>11. hold.kind # "Draining"
  <2>1. Live
    BY Zenon DEF Live
  <2> QED BY <1>1, <1>10, <2>1, Zenon DEF HoldInv, Tries
<1>12. hold.kind \in {"Waiting", "Failed"}
  BY <1>3, <1>6, <1>8, <1>11, Zenon DEF HoldKinds
<1> QED BY <1>1, <1>10, <1>12, Zenon

LEMMA ChosenRuns ==
  ASSUME NEW a \in AttemptRecord, NEW pc, NEW stored, NEW batch
  PROVE  Chosen(a, pc, stored, batch).pc = pc /\ Chosen(a, pc, stored, batch).owner = a.owner
BY Zenon DEF Chosen, AttemptRecord

LEMMA SettleStall ==
  ASSUME IInv, HoldInv, StallInv, Settle
  PROVE  HoldInv' /\ StallInv'
<1>1. /\ TypeOK /\ attempt \in AttemptRecord /\ schedule \in ScheduleRecord
      /\ attempt.pc = "classified" /\ UNCHANGED <<owner, queue, newest, flight>>
  BY Zenon DEF IInv, TypeOK, Settle, Flushed
<1>2. attempt.pc # "idle" /\ schedule.eligible # "NewWork"
  BY <1>1, Zenon DEF StallInv
<1>3. Unknown' = Unknown /\ \A e : Of(Stored, e)' = Of(Stored, e) /\ Returned(e)' = Returned(e)
  BY <1>1, Zenon DEF Unknown, Returned, Of, Stored
<1>4. \A outcome : outcome # "Discarded" /\ Ends(outcome, schedule, NoQueue) =>
        HoldInv' /\ (outcome # "Stalled" => StallInv')
  BY <1>1, SimpleEndsStall, Zenon
<1>5. CASE Ends("Deferred", schedule, NoQueue) \/ Ends("Empty", schedule, NoQueue)
  <2>1. "Deferred" \notin {"Discarded", "Stalled"} /\ "Empty" \notin {"Discarded", "Stalled"}
    BY Zenon
  <2> QED BY <1>4, <1>5, <2>1, Zenon
<1>6. ASSUME NEW stored, attempt.owner = "Active", Visited(stored.ids) = {}, Ends("Stalled", schedule, NoQueue),
             stored = IF Usable(attempt.stored) THEN attempt.stored ELSE [ids |-> Stored, current |-> attempt.current]
      PROVE  HoldInv' /\ StallInv'
  <2>1. HoldInv' /\ "Stalled" # "Discarded"
    <3>1. "Stalled" # "Discarded"
      BY Zenon
    <3> QED BY <1>4, <1>6, <3>1, Zenon
  <2>2. ~Usable(attempt.stored)
    BY <1>6, Zenon DEF Usable
  <2>3. stored.ids = Stored
    BY <1>6, <2>2, Zenon
  <2>4. /\ Ended({}, schedule.held)
        /\ schedule'.eligible = "NewWork" =>
             attempt.current /\ schedule'.held = schedule.held /\ \A e \in Entities : ~schedule.held[e].due
    BY <1>1, <1>6, <2>1, EndsFacts, NoQueueFields, Zenon
  <2>5. attempt'.pc = "idle" /\ attempt'.pc # "classified"
    BY <2>4, NoAttemptFields, Zenon DEF Ended
  <2>6. ASSUME schedule'.eligible = "NewWork" PROVE Unknown' = {} /\ \A e \in Entities : Untryable(e)'
    <3>1. Unknown = {}
      BY <1>1, <1>6, <2>4, <2>6, Zenon DEF StallInv, Settle, Flushed, Unknown
    <3>2. ASSUME NEW e \in Entities, Returned(e) # {} PROVE Untryable(e)'
      <4>1. Of(Stored, e) # {} /\ Returned(e) \subseteq Of(Stored, e)
        BY <3>2, Zenon DEF Returned
      <4>2. ~schedule.held[e].due /\ schedule'.held = schedule.held
        BY <2>4, <2>6, Zenon
      <4>3. /\ schedule.held[e].kind \in {"Waiting", "Failed"}
            /\ \A id \in Of(Stored, e) : id <= schedule.held[e].through
        BY <1>1, <1>6, <2>3, <4>1, <4>2, StalledUntryable, Zenon
      <4> QED BY <1>3, <4>1, <4>2, <4>3, Zenon DEF Untryable
    <3> QED BY <1>3, <3>1, <3>2, Zenon DEF Untryable
  <2> QED BY <2>1, <2>5, <2>6, Zenon DEF StallInv
<1>7. ASSUME NEW pc \in {"selected", "discarding"}, NEW stored, NEW batch,
             attempt' = Chosen(attempt, pc, stored, batch), UNCHANGED schedule
      PROVE  HoldInv' /\ StallInv'
  <2>1. attempt'.pc = pc /\ attempt'.owner = attempt.owner /\ pc # "classified"
    BY <1>1, <1>7, ChosenRuns
  <2>2. Live' => Live
    BY <1>1, <1>2, <2>1, Zenon DEF Live
  <2>3. \A e \in Entities : Reholds(e, schedule'.held[e])
    BY <1>3, <1>7, Zenon DEF Reholds, SameHold
  <2>4. HoldInv'
    BY <2>2, <2>3, HoldKept, Zenon
  <2>5. StallInv'
    BY <1>2, <1>7, <2>1, StallReset, Zenon
  <2> QED BY <2>4, <2>5, Zenon
<1>8. PICK stored :
        /\ stored = IF Usable(attempt.stored) THEN attempt.stored
                    ELSE [ids |-> Stored, current |-> attempt.current]
        /\ \/ Ends("Deferred", schedule, NoQueue) \/ Ends("Empty", schedule, NoQueue)
           \/ attempt.owner = "Active" /\ Choose(stored)
           \/ /\ attempt' = [attempt EXCEPT !.pc = "discarding", !.stored = stored, !.awaits = {}, !.late = {}]
              /\ UNCHANGED schedule
  BY Zenon DEF Settle
<1>9. CASE attempt.owner = "Active" /\ Choose(stored)
  <2>1. CASE Visited(stored.ids) = {}
    BY <1>6, <1>8, <1>9, <2>1, Zenon DEF Choose
  <2>2. CASE Visited(stored.ids) # {}
    BY <1>7, <1>9, <2>2, Zenon DEF Choose, Chosen
  <2> QED BY <2>1, <2>2, Zenon
<1>10. CASE /\ attempt' = [attempt EXCEPT !.pc = "discarding", !.stored = stored, !.awaits = {}, !.late = {}]
            /\ UNCHANGED schedule
  <2>1. attempt' = Chosen(attempt, "discarding", stored, attempt.batch)
    BY <1>1, <1>10, Zenon DEF AttemptRecord, Chosen
  <2> QED BY <1>7, <1>10, <2>1, Zenon
<1> QED BY <1>5, <1>8, <1>9, <1>10, Zenon

LEMMA NarrowedStall ==
  ASSUME IInv, HoldInv, NEW e \in Entities, NEW outcome \in {"Trimmed", "Blocked"},
         NEW s, Reheld(s, e), Narrowed(<<outcome, s>>)
  PROVE  HoldInv' /\ StallInv'
<1>1. TypeOK /\ attempt \in AttemptRecord /\ schedule \in ScheduleRecord /\ s \in ScheduleRecord
  BY Zenon DEF IInv, TypeOK, Reheld
<1>2. attempt.stored \in QueueRecord /\ outcome # "Discarded" /\ outcome # "Stalled"
  BY <1>1, Zenon DEF AttemptRecord
<1>3. UNCHANGED <<owner, queue>> /\ Ends(outcome, s, attempt.stored)
  <2>1. PICK r \in {<<outcome, s>>} : Ends(r[1], r[2], attempt.stored)
    BY Zenon DEF Narrowed
  <2>2. r[1] = outcome /\ r[2] = s
    OBVIOUS
  <2> QED BY <2>1, <2>2, Zenon DEF Narrowed, Unstored
<1>4. \A x : Of(Stored, x)' = Of(Stored, x)
  BY <1>3, Zenon DEF Of, Stored
<1>5. ASSUME NEW x \in Entities PROVE Reholds(x, s.held[x])
  <2>1. Reholds(x, schedule.held[x])
    BY <1>4, Zenon DEF Reholds, SameHold
  <2>2. CASE s.held = schedule.held
    BY <2>1, <2>2, Zenon
  <2>3. ASSUME NEW h, Holdable(e, h), s.held = [schedule.held EXCEPT ![e] = h] PROVE Reholds(x, s.held[x])
    <3>1. schedule.held \in [Entities -> HoldRecord]
      BY <1>1, ScheduleFields, Zenon
    <3>2. s.held[x] = IF x = e THEN h ELSE schedule.held[x]
      BY <2>3, <3>1, Zenon
    <3>3. Reholds(e, h)
      BY <2>3, Zenon DEF Holdable, Reholds
    <3> QED BY <2>1, <3>2, <3>3, Zenon
  <2> QED BY <2>2, <2>3, Zenon DEF Reheld
<1> QED BY <1>1, <1>2, <1>3, <1>5, EndsStall, Zenon

LEMMA NarrowsStall ==
  ASSUME IInv, HoldInv, DoesNotFit \/ CannotPlan
  PROVE  HoldInv' /\ StallInv'
<1>1. attempt.pc = "selected"
  BY Zenon DEF DoesNotFit, CannotPlan
<1>2. \E s : \E e \in Entities, outcome \in {"Trimmed", "Blocked"} : Reheld(s, e) /\ Narrowed(<<outcome, s>>)
  BY NarrowsTo, Zenon
<1> QED BY <1>2, NarrowedStall, Zenon

(* What a publication leaves to drain ends before the newest it left.       *)
LEMMA PublishesStall ==
  ASSUME IInv, HoldInv, Publish \/ PublishUncertain
  PROVE  HoldInv' /\ StallInv'
<1>1. /\ TypeOK /\ attempt \in AttemptRecord /\ attempt.pc = "selected"
      /\ UNCHANGED owner
  BY Zenon DEF IInv, TypeOK, Publish, PublishUncertain, Acknowledge
<1>2. attempt.stored \in QueueRecord
  BY <1>1, Zenon DEF AttemptRecord
<1>3. PICK batch, ids, outcome, remaining :
        /\ batch \in Staged /\ outcome \in {"Published", "Retry"} /\ remaining \in {NoQueue, Remaining(ids)}
        /\ ids = Acknowledged(batch) /\ (Acknowledge(ids) \/ UNCHANGED queue)
        /\ Ends(outcome, AdvancePast(batch), remaining)
  BY Zenon DEF Publish, PublishUncertain, UncertainRemainder
<1>4. Remaining(ids) \in QueueRecord
  BY <1>2, Zenon DEF Remaining, QueueRecord
<1>5. remaining \in QueueRecord /\ outcome # "Discarded" /\ outcome # "Stalled"
  BY <1>3, <1>4, NoQueueFields, Zenon
<1>6. PICK s : s = AdvancePast(batch)
  BY Zenon
<1>7. /\ s \in ScheduleRecord
      /\ \A e \in Entities :
           LET some == Acknowledges(batch[e])
           IN  /\ batch[e] = {} => s.held[e] = schedule.held[e]
               /\ batch[e] # {} /\ some = batch[e] => s.held[e].kind = "none"
               /\ batch[e] # {} /\ some # batch[e] =>
                    s.held[e].kind = "Draining" /\ s.held[e].through \in some
  BY <1>1, <1>3, <1>6, AdvanceFacts, Zenon
<1>8. ASSUME NEW e \in Entities PROVE Reholds(e, s.held[e])
  <2>1. PICK some, m : some = Acknowledges(batch[e]) /\ m = Max(batch[e])
    BY Zenon
  <2>2. Of(Stored, e) \ some \subseteq Of(Stored, e)'
    <3>1. Of(Stored, e) \cap ids = some
      BY <1>1, <1>3, <2>1, NamedFacts, Zenon
    <3>2. CASE Acknowledge(ids)
      <4>1. Of(Stored, e)' = Of(Stored, e) \ ids
        BY <1>1, <3>2, AcknowledgeFacts, Zenon
      <4> QED BY <3>1, <4>1, Zenon
    <3>3. CASE UNCHANGED queue
      BY <3>3, Zenon DEF Of, Stored
    <3> QED BY <1>3, <3>2, <3>3, Zenon
  <2>3. CASE batch[e] = {}
    <3>1. some = {}
      BY <2>1, <2>3, Zenon DEF Acknowledges, Oldest, First
    <3> QED BY <1>7, <2>2, <2>3, <3>1, Zenon DEF Reholds, SameHold
  <2>4. CASE batch[e] # {} /\ some = batch[e]
    BY <1>7, <2>1, <2>4, Zenon DEF Reholds
  <2>5. CASE batch[e] # {} /\ some # batch[e]
    <3>1. PICK k : k = s.held[e].through
      BY Zenon
    <3>2. s.held[e].kind = "Draining" /\ k \in some
      BY <1>7, <2>1, <2>5, <3>1, Zenon
    <3>3. /\ some \subseteq batch[e] /\ batch[e] \in SUBSET Of(Stored, e) /\ batch[e] \in SUBSET Nat
          /\ \A x \in some, y \in Of(Stored, e) : y <= x => y \in some
      BY <1>1, <1>3, <2>1, <2>5, StagedTaken
    <3>4. PICK y \in batch[e] : y \notin some
      BY <2>5, <3>3, Zenon
    <3>5. y \in Of(Stored, e)' /\ ~(y <= k) /\ y \in Nat /\ k \in Nat
      BY <2>2, <3>2, <3>3, <3>4, Zenon
    <3>6. y > k
      BY <3>5
    <3> QED BY <3>1, <3>2, <3>5, <3>6, Zenon DEF Reholds
  <2> QED BY <2>3, <2>4, <2>5, Zenon
<1> QED BY <1>1, <1>3, <1>5, <1>6, <1>7, <1>8, EndsStall, Zenon

LEMMA DiscardsStall ==
  ASSUME IInv, HoldInv, Discard \/ DiscardUncertain
  PROVE  HoldInv' /\ StallInv'
<1>1. TypeOK /\ attempt \in AttemptRecord /\ attempt.pc = "discarding" /\ schedule \in ScheduleRecord
  BY Zenon DEF IInv, TypeOK, Discard, DiscardUncertain
<1>2. attempt.pc # "idle" /\ attempt.stored \in QueueRecord
  BY <1>1, Zenon DEF AttemptRecord
<1>3. owner = "Retired" /\ UNCHANGED owner
  BY <1>1, <1>2, Zenon DEF IInv, AttemptInv, Discard, DiscardUncertain, Acknowledge
<1>4. PICK ids, outcome, remaining :
        /\ outcome \in {"Discarded", "Retry"} /\ remaining \in {NoQueue, Remaining(ids)}
        /\ Ends(outcome, schedule, remaining)
  BY Zenon DEF Discard, DiscardUncertain, UncertainRemainder
<1>5. Remaining(ids) \in QueueRecord /\ outcome # "Stalled"
  BY <1>2, <1>4, Zenon DEF Remaining, QueueRecord
<1>6. remaining \in QueueRecord
  BY <1>4, <1>5, NoQueueFields, Zenon
<1>7. attempt'.pc = "idle"
  BY <1>4, NoAttemptFields, Zenon DEF Ends
<1>8. ~Live'
  BY <1>3, <1>7, Zenon DEF Live
<1>9. \A e \in Entities : Reholds(e, schedule.held[e])
  BY <1>8, Zenon DEF Reholds, SameHold
<1> QED BY <1>1, <1>3, <1>4, <1>5, <1>6, <1>9, EndsStall, Zenon

LEMMA RestartStall ==
  ASSUME HoldInv, Restart
  PROVE  HoldInv' /\ StallInv'
<1>1. schedule' = NewSchedule /\ attempt' = NoAttempt /\ UNCHANGED owner
  BY Zenon DEF Restart
<1>2. attempt'.pc = "idle" /\ attempt'.pc # "classified" /\ schedule'.eligible # "NewWork"
  BY <1>1, NoAttemptFields, Zenon DEF NewSchedule
<1>3. \A e \in Entities : Reholds(e, schedule'.held[e])
  BY <1>1, NewScheduleFields, NoHoldFields, Zenon DEF Reholds
<1>4. Live' => Live
  BY <1>1, <1>2, Zenon DEF Live
<1> QED BY <1>2, <1>3, <1>4, HoldKept, StallReset, Zenon

LEMMA NextStall ==
  ASSUME IInv, HoldInv, StallInv, [Next]_vars
  PROVE  HoldInv' /\ StallInv'
<1>1. CASE UNCHANGED vars
  BY <1>1, Zenon DEF vars, HoldInv, StallInv, Tries, Live, Untryable, Returned, Of, Stored, Unknown
<1>2. ASSUME NEW e \in Entities,
             Reserve(e) \/ Abort(e) \/ Land(e) \/ Return(e) \/ ReturnUncertain(e) \/ Lose(e) \/ RetryDue(e)
      PROVE  HoldInv' /\ StallInv'
  BY <1>2, WritesStall, LandStall, TimeStall, Zenon
<1>3. CASE Activate \/ Retire \/ Elapse \/ Restart
  BY <1>3, TimeStall, RestartStall, Zenon
<1>4. CASE Begin \/ Settle \/ DoesNotFit \/ CannotPlan
  BY <1>4, BeginStall, SettleStall, NarrowsStall, Zenon
<1>5. CASE Fails \/ LosesOwnership \/ Conflicts
  <2>1. PICK remaining \in {NoQueue, attempt.stored} : Ends("Retry", schedule, remaining)
    BY <1>5, Zenon DEF Fails, LosesOwnership, Conflicts
  <2>2. "Retry" # "Discarded" /\ "Retry" # "Stalled"
    BY Zenon
  <2>3. UNCHANGED <<owner, queue>>
    BY <1>5, Zenon DEF Fails, LosesOwnership, Conflicts, Unstored
  <2> QED BY <2>1, <2>2, <2>3, SimpleEndsStall, Zenon
<1>6. CASE Publish \/ PublishUncertain \/ Discard \/ DiscardUncertain
  BY <1>6, PublishesStall, DiscardsStall, Zenon
<1> QED BY <1>1, <1>2, <1>3, <1>4, <1>5, <1>6, Zenon DEF Next

(* A generation that waits for new work has nothing to try: no admission,   *)
(* write or retry that an attempt overlapped is lost when it stalls         *)
(* (reschedule and NewWork, publication.rs).                                *)
THEOREM StalledWaits == Spec => []StalledHasNothingToTry
<1>1. Init => HoldInv /\ StallInv
  <2>1. SUFFICES ASSUME Init PROVE HoldInv /\ StallInv
    BY Zenon
  <2>2. schedule = NewSchedule /\ attempt = NoAttempt
    BY <2>1, Zenon DEF Init
  <2>3. attempt.pc # "classified" /\ schedule.eligible # "NewWork"
    BY <2>2, NoAttemptFields, Zenon DEF NewSchedule
  <2>4. ASSUME NEW e \in Entities PROVE schedule.held[e].kind \notin {"Repairing", "Draining"}
    <3>1. schedule.held[e].kind = "none"
      BY <2>2, NewScheduleFields, NoHoldFields, Zenon
    <3> QED BY <3>1, Zenon
  <2> QED BY <2>3, <2>4, Zenon DEF HoldInv, Tries, StallInv
<1>2. IInv /\ HoldInv /\ StallInv /\ [Next]_vars => HoldInv' /\ StallInv'
  BY NextStall, Zenon
<1>3. IInv /\ StallInv => StalledHasNothingToTry
  <2>1. SUFFICES ASSUME IInv, StallInv, schedule.eligible = "NewWork", NEW e \in Entities, NEW ids, ids # {},
                        ids = {id \in Stored : queue[id].entity = e /\ (flight[e] = "landed" => id # newest[e])}
                 PROVE  /\ schedule.held[e].kind \in {"Waiting", "Failed"} /\ ~schedule.held[e].due
                        /\ Max(ids) <= schedule.held[e].through
    BY Zenon DEF StalledHasNothingToTry
  <2>2. ids = Returned(e)
    BY <2>1, Zenon DEF Returned, Of
  <2>3. ids \in SUBSET (0..MaxOps)
    BY <2>1 DEF Stored, Ids
  <2>4. Max(ids) \in ids
    BY <2>1, <2>3, MaxIs, Zenon
  <2> QED BY <2>1, <2>2, <2>4, Zenon DEF StallInv, Untryable
<1> QED BY <1>1, <1>2, <1>3, Invariance, PTL DEF Spec
====
