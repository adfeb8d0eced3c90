--------------------------- MODULE SecondaryBuild ---------------------------
(***************************************************************************)
(* One generation of a secondary index, from CREATE to its last row        *)
(* (crates/db/src/index_lifecycle/secondary.rs): the driver's scan,        *)
(* catch-up, validation and activation steps, the cleanup of an aborted or *)
(* dropped generation, and the graph writes that run beside them.          *)
(*                                                                         *)
(* Graph writes and the transaction of a step are serializable, so each is *)
(* one action at its commit: what it read through its transaction is what  *)
(* the state then holds, or it loses a conflict and writes nothing.  What  *)
(* a step observes outside its transaction (the source rows of a scan, the *)
(* keys of a backlog or of a validation batch) is an action of its own.    *)
(*                                                                         *)
(* A legacy binary's writes record deltas but claim no unique values (the  *)
(* driver's tests call them legacy_building_write); its build steps are    *)
(* taken to be these, as those tests do.                                   *)
(***************************************************************************)
EXTENDS Integers, FiniteSets, SequencesExt

CONSTANTS
  Entities,    \* entity ids, 1..n, in key order
  Upper,       \* inclusive_upper_bound: the last id the scan covers
  Values,      \* canonical index values
  None,        \* no value, no row, no owner
  Bad,         \* a source value the index cannot hold
  Absent,      \* no build delta
  Definitions, \* TRUE in it: the definition may be unique
  Batch,       \* max_entities of one transaction
  Reach,       \* deltas a gated step may drain (GATED_BACKLOG_BATCHES batches)
  StallLimit,  \* PREPARATIONS_BEFORE_FENCE
  MaxChanges,  \* bound: changes of one graph transaction
  Binaries,    \* what the first process runs: "current" or "legacy"
  Rollback,    \* whether a restart may go back to the legacy binary
  MaxRestarts  \* bound: process restarts

ASSUME SecondaryAssumption ==
  /\ Entities = 1..Cardinality(Entities) /\ Upper \in {0} \cup Entities
  /\ Rollback \in BOOLEAN /\ Definitions \subseteq BOOLEAN /\ Definitions # {}
  /\ Binaries \subseteq {"current", "legacy"}
  /\ {Batch, MaxChanges} \subseteq Nat \ {0} /\ {Reach, StallLimit, MaxRestarts} \subseteq Nat

VARIABLES
  unique,    \* the definition is unique; fixed by CREATE
  src,       \* each entity's authoritative value
  rows,      \* the generation's rows: entries, deltas, applied states
  state,     \* the index state of the canonical record
  stage,     \* the operation's stage
  cursor,    \* the stage's cursor: the last entity it passed (of DeleteEntries, the values)
  blocked,   \* the operation's blocker
  stall,     \* stalled_preparations: the cursor last prepared at, and how often
  step,      \* the step in flight
  dirty,     \* keys written since an unfenced step observed its input
  corrupt,   \* a graph write was refused with a corruption error
  binary, restarts

vars == <<unique, src, rows, state, stage, cursor, blocked, stall, step, dirty, corrupt, binary, restarts>>

Idle == [kind |-> "idle", keys |-> <<>>, vals |-> <<>>, more |-> FALSE, fenced |-> FALSE]
NoStall == [at |-> 0, count |-> 0]
Indexed == Values \cup {None}

Init ==
  /\ unique \in Definitions
  /\ src \in [Entities -> Indexed \cup {Bad}] /\ \A e \in Entities : e > Upper => src[e] = None
  /\ rows = [entries |-> {}, delta |-> [e \in Entities |-> Absent], applied |-> [e \in Entities |-> None]]
  /\ state = "Building" /\ stage = "Scan" /\ cursor = 0 /\ blocked = "no" /\ stall = NoStall
  /\ step = Idle /\ dirty = {} /\ corrupt = FALSE /\ binary \in Binaries /\ restarts = 0

-----------------------------------------------------------------------------
(* Rows.  An entry of a unique generation is keyed by its value alone, so   *)
(* putting one replaces the owner.                                          *)

Owner(r, v) ==
  LET named == {e \in Entities : <<v, e>> \in r.entries} IN
    IF named = {} THEN None ELSE CHOOSE e \in named : TRUE

Put(r, v, e) ==
  [r EXCEPT !.entries = {p \in @ : ~(unique /\ p[1] = v)} \cup {<<v, e>>}]

Foreign(owner, e) == owner \notin {e, None}
Pending(r) == {e \in Entities : r.delta[e] # Absent}
Applied(r) == {e \in Entities : r.applied[e] # None}
InOrder(S) == SetToSortSeq(S, <)
Least(m, n) == IF m < n THEN m ELSE n
First(S, k) == SubSeq(InOrder(S), 1, Least(k, Cardinality(S)))

-----------------------------------------------------------------------------
(* Graph writes. *)

\* A value the index cannot hold never had an entry.
OldValue(v) == IF v = Bad THEN None ELSE v

\* Variant: an applied-state row is taken to account for the entity.
RecordDeltaUnapplied(r, e, old) ==
  [r EXCEPT !.delta[e] = IF @ = Absent /\ r.applied[e] = None THEN old ELSE @]

\* stage_secondary_build_delta: the first delta keeps the value before it.
RecordDelta(r, e, old) == [r EXCEPT !.delta[e] = IF @ = Absent THEN old ELSE @]

\* Variant: a claim keeps the entity's applied-state row.
ClaimKeepingApplied(w, e, old, new, after) ==
  LET held == {old, IF w.rows.delta[e] = Absent THEN None ELSE w.rows.delta[e]} \ {None}
      free == [w.rows EXCEPT !.entries = @ \ (held \X {e})]
      owner == Owner(free, new)
      claimed == IF new = None THEN free ELSE Put(free, new, e)
      taken == IF Foreign(owner, e) THEN [claimed EXCEPT !.applied[owner] = None] ELSE claimed
  IN  [result |-> IF new = None \/ ~Foreign(owner, e) THEN "ok"
                  ELSE IF after[owner] = new THEN "duplicate"
                  ELSE IF w.rows.delta[owner] = Absent THEN "corrupt" ELSE "ok",
       rows |-> [taken EXCEPT !.delta[e] = new]]

\* claim_while_building: release what the entity may hold, claim the new
\* value (from an owner whose row moved off it, if need be) and leave it as
\* the delta's before-image.
ClaimWhileBuilding(w, e, old, new, after) ==
  LET held == {old, w.rows.applied[e], IF w.rows.delta[e] = Absent THEN None ELSE w.rows.delta[e]}
      free == [w.rows EXCEPT !.entries = @ \ (held \X {e}), !.applied[e] = None]
      owner == Owner(free, new)
      claimed == IF new = None THEN free ELSE Put(free, new, e)
      taken == IF Foreign(owner, e) THEN [claimed EXCEPT !.applied[owner] = None] ELSE claimed
  IN  [result |-> IF new = None \/ ~Foreign(owner, e) THEN "ok"
                  ELSE IF after[owner] = new THEN "duplicate"
                  ELSE IF w.rows.delta[owner] = Absent THEN "corrupt" ELSE "ok",
       rows |-> [taken EXCEPT !.delta[e] = new]]

\* Variant: the value an entity moved off keeps its entry.
MaintainActiveKeeping(w, e, old, new) ==
  [result |-> IF unique /\ new # None /\ Foreign(Owner(w.rows, new), e) THEN "duplicate" ELSE "ok",
   rows |-> IF new = None THEN w.rows ELSE Put(w.rows, new, e)]

\* apply_active_change_from_overlay, and the bitmap changes of an index that
\* is not unique.
MaintainActive(w, e, old, new) ==
  LET free == [w.rows EXCEPT !.entries = @ \ {<<old, e>>}] IN
    [result |-> IF unique /\ old # None /\ Foreign(Owner(w.rows, old), e) THEN "corrupt"
                ELSE IF unique /\ new # None /\ Foreign(Owner(free, new), e) THEN "duplicate" ELSE "ok",
     rows |-> IF new = None THEN free ELSE Put(free, new, e)]

\* Variant: deltas are recorded for an aborting generation too.
MaintainAborting(w, c, after) ==
  LET old == OldValue(c.old) new == c.new e == c.entity IN
    IF w.result # "ok" \/ old = new THEN w
    ELSE CASE state = "Active" -> MaintainActive(w, e, old, new)
           [] state = "Building" /\ unique /\ binary = "current" ->
                ClaimWhileBuilding(w, e, old, new, after)
           [] state = "Aborting" \/ (state = "Building" /\ ~(unique /\ binary = "current")) ->
                [w EXCEPT !.rows = RecordDelta(@, e, old)]
           [] OTHER -> w

\* One collected change of a flush: an entity's value before and after it.
Maintain(w, c, after) ==
  LET old == OldValue(c.old) new == c.new e == c.entity IN
    IF w.result # "ok" \/ old = new THEN w
    ELSE CASE state = "Active" -> MaintainActive(w, e, old, new)
           [] state = "Building" /\ unique /\ binary = "current" ->
                ClaimWhileBuilding(w, e, old, new, after)
           [] state = "Building" /\ ~(unique /\ binary = "current") ->
                [w EXCEPT !.rows = RecordDelta(@, e, old)]
           [] OTHER -> w

\* The changes of a transaction, each from the value the one before it left.
Collect(writes) ==
  [i \in DOMAIN writes |->
     LET e == writes[i][1]
         before == {j \in 1..(i - 1) : writes[j][1] = e}
     IN  [entity |-> e, new |-> writes[i][2],
          old |-> IF before = {} THEN src[e] ELSE writes[CHOOSE j \in before : \A k \in before : k <= j][2]]]

Transactions == UNION {[1..k -> Entities \X Indexed] : k \in 1..MaxChanges}

\* The keys a write puts or deletes that a step's transaction may have read.
Written(changed, old, new) ==
  {<<"src", e>> : e \in changed}
  \cup {<<"delta", e>> : e \in {x \in Entities : new.delta[x] # old.delta[x]}}
  \cup {<<"entry", v>> : v \in {x \in Values : Owner(old, x) # Owner(new, x)}}
  \cup {<<"applied", e>> : e \in {x \in Entities : \/ new.applied[x] # old.applied[x]
                                                   \/ x \in changed /\ unique /\ binary = "current"}}

\* A graph transaction: its property rows are staged when it flushes, so a
\* change sees the values all of them leave.
Write(writes) ==
  LET changes == Collect(writes)
      after == FoldLeft(LAMBDA s, c : [s EXCEPT ![c.entity] = c.new], src, changes)
      flushed == FoldLeft(LAMBDA w, c : Maintain(w, c, after), [result |-> "ok", rows |-> rows], changes)
      changed == {c.entity : c \in {x \in Range(changes) : x.old # x.new}}
  IN  /\ ~step.fenced
      /\ flushed.result \in {"ok", "corrupt"}
      /\ IF flushed.result = "ok"
           THEN /\ src' = after /\ rows' = flushed.rows
                /\ dirty' = IF step.kind \in {"scan", "exact", "validate"}
                              THEN dirty \cup Written(changed, rows, flushed.rows) ELSE dirty
                /\ UNCHANGED corrupt
           ELSE corrupt' = TRUE /\ UNCHANGED <<src, rows, dirty>>
      /\ UNCHANGED <<state, stage, cursor, blocked, stall, step, binary, restarts>>

-----------------------------------------------------------------------------
(* Reconciling one entity inside a step's transaction.  A batch b carries   *)
(* the rows staged so far, the applied states it observed when it opened,   *)
(* the values whose entries it staged, the keys it read, and how it ended.  *)

Open(r, es, vs) ==
  [rows |-> r, seen |-> r.applied, staged |-> {}, result |-> "ok",
   reads |-> {<<"applied", e>> : e \in es} \cup {<<"entry", v>> : v \in vs \cup {r.applied[e] : e \in es}}]

\* reconciliation_plan_from_observations, the writes of a plan nothing
\* contends: the value the entity moved off is released where its entry names
\* it, the next one written unless the applied state proves it is held.
Plan(b, e, next, before, release) ==
  LET applied == b.seen[e] # None
      held == IF applied THEN b.seen[e] ELSE before
      holdsNext == applied /\ held = next
      moves == held # None /\ held # next
      free == [b.rows EXCEPT !.entries = IF moves THEN @ \ {<<held, e>>} ELSE @]
  IN  [free EXCEPT
         !.entries = IF next = None \/ holdsNext THEN @ ELSE Put(free, next, e).entries,
         !.applied[e] = IF release \/ next = None THEN (IF applied THEN None ELSE @)
                        ELSE IF holdsNext THEN @ ELSE next]

\* decide_reconciliation: an entry on the next value that names another
\* entity is a duplicate if the batch staged it or its owner's row still holds
\* the value, and otherwise a stale claim, taken over with the owner's applied
\* state.  `track` is the exact drain's set of released owners.
Decide(b, e, next, before, release, track) ==
  LET applied == b.seen[e] # None
      held == IF applied THEN b.seen[e] ELSE before
      moves == held # None /\ held # next
      holds == Owner(b.rows, held)
      owner == IF next = None THEN None ELSE Owner(b.rows, next)
      contended == unique /\ Foreign(owner, e)
      proven == applied /\ held = next
      lost == unique /\ moves /\ applied /\ Foreign(holds, e)
      taken == contended /\ (proven \/ next \in b.staged \/ src[owner] = next)
      written == {v \in {held} : moves /\ ~Foreign(holds, e)} \cup {v \in {next} : v # None /\ owner # e}
      unaccounted == \/ contended /\ b.rows.delta[owner] = Absent
                     \/ unique /\ proven /\ owner = None
      result == IF next = Bad THEN "invalid" ELSE IF lost \/ taken THEN "duplicate"
                ELSE IF unaccounted THEN "corrupt" ELSE "ok"
      planned == Plan(b, e, next, before, release)
      rivals == IF lost THEN {holds} ELSE IF contended THEN {owner} ELSE {}
  IN  CASE b.result # "ok" -> b
        [] b.result = "ok" /\ result # "ok" ->
             [b EXCEPT !.result = result, !.reads = @ \cup {<<"src", x>> : x \in rivals \cup {e}}]
        [] OTHER ->
             [b EXCEPT
                !.rows = IF contended THEN [planned EXCEPT !.applied[owner] = None] ELSE planned,
                !.seen = IF contended /\ track THEN [@ EXCEPT ![owner] = None] ELSE @,
                !.staged = @ \cup written,
                !.reads = @ \cup ({"src", "delta"} \X rivals)]

\* Variant: an exact drain does not track the owners it took values from.
DrainUntracked(keys, release, exact) ==
  FoldLeft(LAMBDA b, e :
             LET base == IF exact THEN b ELSE [b EXCEPT !.seen = b.rows.applied, !.staged = {}]
                 d == Decide(base, e, src[e], b.rows.delta[e], release, FALSE)
             IN  IF d.result = "ok" THEN [d EXCEPT !.rows.delta[e] = Absent] ELSE d,
           Open(rows, Range(keys), {}), keys)

\* Reconciles the entities of `keys` in order from their deltas and deletes
\* each delta with its reconciliation.
Drain(keys, release, exact) ==
  FoldLeft(LAMBDA b, e :
             LET base == IF exact THEN b ELSE [b EXCEPT !.seen = b.rows.applied, !.staged = {}]
                 d == Decide(base, e, src[e], b.rows.delta[e], release, TRUE)
             IN  IF d.result = "ok" THEN [d EXCEPT !.rows.delta[e] = Absent] ELSE d,
           Open(rows, Range(keys), {}), keys)

\* How a step's transaction ends: a blocker commits what was staged before
\* it, a corruption error nothing.
Staged(b) == rows' = IF b.result = "corrupt" THEN rows ELSE b.rows
Ended(b) == blocked' = IF b.result = "ok" THEN "no" ELSE b.result
EndStep == step' = Idle /\ dirty' = {}

-----------------------------------------------------------------------------
(* Steps of a build.                                                        *)

Running(s) == state = "Building" /\ blocked = "no" /\ stage = s
Quiet == UNCHANGED <<src, state, corrupt, binary, restarts>>

\* Variant: a preparation that moved its cursor never counts.
StalledNever == [at |-> cursor, count |-> 1]

\* preparation_stalled
Stalled == IF stall.at # cursor THEN [at |-> cursor, count |-> 1]
           ELSE [stall EXCEPT !.count = IF @ > StallLimit THEN @ ELSE @ + 1]

\* A byte budget may end a batch before its entity budget does.
Lengths(S) == 1..Least(Cardinality(S), Batch)

\* Variant: the inclusive upper bound is taken as exclusive.
ReadSourceExclusive(fenced) ==
  \E S \in SUBSET ((cursor + 1)..(Upper - 1)) :
    /\ {e \in (cursor + 1)..(Upper - 1) : src[e] # None} \subseteq S
    /\ \E k \in IF S = {} THEN {0} ELSE Lengths(S) :
         step' = [kind |-> "scan", keys |-> First(S, k), vals |-> [i \in 1..k |-> src[First(S, k)[i]]],
                  more |-> k < Cardinality(S) \/ k = Batch, fenced |-> fenced]

\* scan_source reads a batch from a snapshot of its own.  A source without a
\* value is a row that does not match the index, or no row.
ReadSource(fenced) ==
  \E S \in SUBSET ((cursor + 1)..Upper) :
    /\ {e \in (cursor + 1)..Upper : src[e] # None} \subseteq S
    /\ \E k \in IF S = {} THEN {0} ELSE Lengths(S) :
         step' = [kind |-> "scan", keys |-> First(S, k), vals |-> [i \in 1..k |-> src[First(S, k)[i]]],
                  more |-> k < Cardinality(S) \/ k = Batch, fenced |-> fenced]

PrepareScan ==
  /\ Running("Scan") /\ step = Idle
  /\ stall' = Stalled
  /\ IF Stalled.count > StallLimit THEN step' = [Idle EXCEPT !.kind = "wait"] ELSE ReadSource(FALSE)
  /\ Quiet /\ UNCHANGED <<rows, stage, cursor, blocked, dirty>>

\* The batch a scan's transaction stages; the first value that cannot be
\* indexed blocks it before anything is staged.
ScanBatch ==
  LET bad == {i \in DOMAIN step.keys : step.vals[i] = Bad} IN
    IF bad = {}
      THEN FoldLeft(LAMBDA b, i : Decide(b, step.keys[i], step.vals[i], None, FALSE, FALSE),
                    Open(rows, Range(step.keys), Range(step.vals)), [i \in DOMAIN step.keys |-> i])
      ELSE [Open(rows, {}, {}) EXCEPT !.result = "invalid", !.reads = {<<"src", step.keys[Min(bad)]>>}]

Scanned(batch) ==
  /\ Staged(batch) /\ Ended(batch) /\ EndStep
  /\ stage' = IF batch.result = "ok" /\ ~step.more THEN "CatchUp" ELSE "Scan"
  /\ cursor' = IF batch.result # "ok" THEN cursor ELSE IF step.more THEN Last(step.keys) ELSE 0
  /\ Quiet /\ UNCHANGED stall

\* The scan's transaction: a key it read that was written since is a
\* conflict, and the step is no longer what commits.
CommitScan ==
  /\ Running("Scan") /\ step.kind = "scan"
  /\ \E batch \in {ScanBatch} : batch.reads \cap dirty = {} /\ Scanned(batch)

\* A step that waited for its gate.  Catch-up looks at the backlog again: a
\* backlog writes grew past the reach is drained without the gate.
GrantFence ==
  /\ state = "Building" /\ blocked = "no" /\ step.kind = "wait"
  /\ CASE stage = "Scan" -> ReadSource(TRUE)
       [] stage = "CatchUp" /\ Cardinality(Pending(rows)) > Reach ->
            step' = [Idle EXCEPT !.kind = "exact", !.keys = First(Pending(rows), Batch)]
       [] OTHER -> step' = [Idle EXCEPT !.kind = "drain", !.fenced = TRUE]
  /\ Quiet /\ UNCHANGED <<rows, stage, cursor, blocked, stall, dirty>>

PrepareCatchUp ==
  /\ Running("CatchUp") /\ step = Idle
  /\ step' = IF Cardinality(Pending(rows)) > Reach
               THEN [Idle EXCEPT !.kind = "exact", !.keys = First(Pending(rows), Batch)]
               ELSE [Idle EXCEPT !.kind = "wait"]
  /\ stall' = NoStall
  /\ Quiet /\ UNCHANGED <<rows, stage, cursor, blocked, dirty>>

\* observe_validation_batch
ValidationBatch(fenced) ==
  LET S == {e \in Applied(rows) : e > cursor} IN
    [kind |-> "validate", keys |-> First(S, Batch), vals |-> <<>>, more |-> Batch < Cardinality(S), fenced |-> fenced]

PrepareValidate ==
  /\ Running("Validate") /\ step = Idle
  /\ stall' = Stalled
  /\ step' = IF Stalled.count > StallLimit THEN [Idle EXCEPT !.kind = "wait"]
             ELSE IF Cardinality(Pending(rows)) > Reach
               THEN [Idle EXCEPT !.kind = "exact", !.keys = First(Pending(rows), Batch)]
             ELSE ValidationBatch(FALSE)
  /\ Quiet /\ UNCHANGED <<rows, stage, cursor, blocked, dirty>>

PrepareActivate ==
  /\ Running("Activate") /\ step = Idle
  /\ step' = [Idle EXCEPT !.kind = "wait"] /\ stall' = NoStall
  /\ Quiet /\ UNCHANGED <<rows, stage, cursor, blocked, dirty>>

\* catch_up_exact: the deltas still pending among the observed keys, while
\* writes continue.  Validation keeps its cursor.
CommitExact ==
  LET live == SelectSeq(step.keys, LAMBDA e : rows.delta[e] # Absent)
      bad == \E i \in DOMAIN live : src[live[i]] = Bad
  IN  /\ state = "Building" /\ blocked = "no" /\ step.kind = "exact"
      /\ \E k \in IF live = <<>> THEN {0} ELSE 1..Len(live) :
           \E batch \in {IF bad THEN [Open(rows, {}, {}) EXCEPT !.result = "invalid"]
                         ELSE Drain(SubSeq(live, 1, k), stage = "Validate", TRUE)} :
             Staged(batch) /\ Ended(batch)
      /\ EndStep /\ Quiet /\ UNCHANGED <<stage, cursor, stall>>

\* One transaction of drain_backlog_under_gate.  The step's own transaction
\* opens once the backlog is empty or headed by an entity that blocks.
DrainUnderGate ==
  LET all == InOrder(Pending(rows)) IN
    /\ state = "Building" /\ blocked = "no" /\ step.kind = "drain"
    /\ \E k \in IF all = <<>> THEN {0} ELSE Lengths(Range(all)) :
         \E batch \in {Drain(SubSeq(all, 1, k), stage # "CatchUp", FALSE)} :
           LET over == k = Len(all) \/ batch.result # "ok" IN
             /\ Staged(batch)
             /\ blocked' = IF batch.result = "corrupt" THEN "corrupt" ELSE "no"
             /\ step' = CASE batch.result = "corrupt" -> Idle
                          [] batch.result # "corrupt" /\ ~over -> step
                          [] batch.result # "corrupt" /\ over /\ stage = "Validate" ->
                               [Idle EXCEPT !.kind = "observe", !.fenced = TRUE]
                          [] OTHER -> [step EXCEPT !.kind = "gated"]
    /\ Quiet /\ UNCHANGED <<stage, cursor, stall, dirty>>

ObserveFenced ==
  /\ Running("Validate") /\ step.kind = "observe"
  /\ step' = ValidationBatch(TRUE)
  /\ Quiet /\ UNCHANGED <<rows, stage, cursor, blocked, stall, dirty>>

\* Variant: a row is released whether or not a delta is pending.
ReleasePending(b, e) ==
  LET v == rows.applied[e] IN
    IF b.result # "ok" THEN b
    ELSE IF unique /\ (src[e] # v \/ Owner(rows, v) = None) THEN [b EXCEPT !.result = "corrupt"]
    ELSE [b EXCEPT !.rows.applied[e] = None]

\* release_validated_rows: a row is released only while its entity has no
\* delta and, in a unique generation, source and entry agree with it.
Release(b, e) ==
  LET v == rows.applied[e] IN
    IF b.result # "ok" \/ rows.delta[e] # Absent THEN b
    ELSE IF unique /\ (src[e] # v \/ Owner(rows, v) = None) THEN [b EXCEPT !.result = "corrupt"]
    ELSE IF unique /\ Owner(rows, v) # e THEN [b EXCEPT !.result = "duplicate"]
    ELSE [b EXCEPT !.rows.applied[e] = None]

\* The rows of the batch that are still there, as many as the byte and output
\* budgets admit: the cursor stays at the last of them.
CommitValidate ==
  LET live == SelectSeq(step.keys, LAMBDA e : rows.applied[e] # None)
  IN  /\ Running("Validate") /\ step.kind = "validate"
      /\ \E k \in IF live = <<>> THEN {0} ELSE 1..Len(live) :
         \E batch \in {FoldLeft(Release, [rows |-> rows, result |-> "ok"], SubSeq(live, 1, k))} :
           LET more == step.more \/ k < Len(live) IN
             /\ Staged(batch) /\ Ended(batch) /\ EndStep
             /\ stage' = IF batch.result = "ok" /\ ~more THEN "Activate" ELSE "Validate"
             /\ cursor' = IF batch.result # "ok" THEN cursor ELSE IF ~more THEN 0
                          ELSE IF k = 0 THEN cursor ELSE live[k]
      /\ Quiet /\ UNCHANGED stall

\* catch_up and activate in a gated step: their own drain finds the prefix
\* empty, or blocks on the entity that heads it.
CommitGated ==
  /\ state = "Building" /\ blocked = "no" /\ step.kind = "gated"
  /\ \E batch \in {Drain(InOrder(Pending(rows)), stage = "Activate", FALSE)} :
       LET left == stage = "Activate" /\ batch.result = "ok" /\ Applied(batch.rows) # {}
           ended == IF left THEN [batch EXCEPT !.result = "corrupt"] ELSE batch
           done == ended.result = "ok"
       IN  /\ Staged(ended) /\ Ended(ended) /\ EndStep
           /\ stage' = IF done /\ stage = "CatchUp" THEN "Validate" ELSE stage
           /\ state' = IF done /\ stage = "Activate" THEN "Active" ELSE state
  /\ UNCHANGED <<src, cursor, stall, corrupt, binary, restarts>>

\* An unfenced step may lose a serializable conflict to a write that raced
\* it; the claim goes back to the queue.
Conflict ==
  /\ step.kind \in {"scan", "exact", "validate"} /\ dirty # {}
  /\ EndStep
  /\ Quiet /\ UNCHANGED <<rows, stage, cursor, blocked, stall>>

-----------------------------------------------------------------------------
(* Commands, restarts and cleanup. *)

Retry ==
  /\ blocked # "no" /\ blocked' = "no"
  /\ Quiet /\ UNCHANGED <<rows, stage, cursor, stall, step, dirty>>

\* DROP aborts a build (a step in flight can only fail from then on) and
\* drops an Active index.
Drop ==
  /\ state \in {"Building", "Active"}
  /\ state' = IF state = "Building" THEN "Aborting" ELSE "Dropping"
  /\ stage' = "DeleteEntries" /\ cursor' = {} /\ blocked' = "no" /\ stall' = NoStall /\ EndStep
  /\ UNCHANGED <<src, rows, corrupt, binary, restarts>>

\* The process stops; the next may run another binary.
Restart ==
  /\ restarts < MaxRestarts /\ restarts' = restarts + 1
  /\ binary' \in {"current"} \cup {b \in {"legacy"} : Rollback} /\ stall' = NoStall /\ EndStep
  /\ UNCHANGED <<src, rows, state, stage, cursor, blocked, corrupt>>

Cleaning(s) == state \in {"Aborting", "Dropping"} /\ stage = s

ValuesOf(entries) == {p[1] : p \in entries}

\* delete_generation_rows: the entries past the cursor, exhausted when the
\* entity budget is not.  The keys have an order the model does not fix: a
\* value without an entry may sort behind the new cursor or past it.
DeleteEntries ==
  /\ Cleaning("DeleteEntries")
  /\ LET past == {p \in rows.entries : p[1] \notin cursor} IN
       \E D \in SUBSET past :
         LET exhausted == D = past /\ Cardinality(D) < Batch
             left == ValuesOf(past \ D)
         IN  /\ Cardinality(D) <= Batch /\ (past # {} => D # {})
             /\ rows' = [rows EXCEPT !.entries = @ \ D]
             /\ stage' = IF exhausted THEN "DeleteDeltas" ELSE stage
             /\ cursor' \in IF exhausted THEN {0} ELSE {cursor \cup (ValuesOf(D) \ left), Values \ left}
  /\ Quiet /\ UNCHANGED <<blocked, stall, step, dirty>>

\* delete_delta_and_applied_rows
DeleteDeltas ==
  /\ Cleaning("DeleteDeltas")
  /\ \E D \in SUBSET Pending(rows), A \in SUBSET Applied(rows) :
       /\ Cardinality(D) + Cardinality(A) <= Batch
       /\ A # {} => D = Pending(rows)
       /\ (Pending(rows) \cup Applied(rows) # {}) => (D \cup A # {})
       /\ rows' = [rows EXCEPT !.delta = [e \in Entities |-> IF e \in D THEN Absent ELSE @[e]],
                               !.applied = [e \in Entities |-> IF e \in A THEN None ELSE @[e]]]
       /\ stage' = IF D = Pending(rows) /\ A = Applied(rows) /\ Cardinality(D) + Cardinality(A) < Batch
                     THEN "Finalize" ELSE stage
  /\ Quiet /\ UNCHANGED <<cursor, blocked, stall, step, dirty>>

Finalize ==
  /\ Cleaning("Finalize") /\ state' = "Dropped"
  /\ UNCHANGED <<src, rows, stage, cursor, blocked, stall, step, dirty, corrupt, binary, restarts>>

Step ==
  \/ PrepareScan \/ CommitScan \/ PrepareCatchUp \/ PrepareValidate \/ PrepareActivate
  \/ GrantFence \/ CommitExact \/ DrainUnderGate \/ ObserveFenced \/ CommitValidate \/ CommitGated
  \/ DeleteEntries \/ DeleteDeltas \/ Finalize

Act ==
  \/ Step \/ Conflict \/ Retry \/ Drop \/ Restart
  \/ \E writes \in Transactions : Write(writes)

Next == UNCHANGED unique /\ Act

Spec == Init /\ [][Next]_vars
FairSpec == Spec /\ WF_vars(UNCHANGED unique /\ Step) /\ WF_vars(UNCHANGED unique /\ Conflict)

-----------------------------------------------------------------------------
(* Properties. *)

\* An Active index holds exactly the source's values: every entity that has
\* one, under that value, and nothing else, however the writes of the build
\* raced its steps; no row of the build is left.
ActiveIsExact ==
  state = "Active" =>
    /\ rows.entries = {<<src[e], e>> : e \in {x \in Entities : src[x] # None}}
    /\ Pending(rows) = {} /\ Applied(rows) = {}

\* HeldValue: an applied-state row is exactly what a building generation
\* holds for its entity; without one it holds at most the delta's before-image
\* while a delta is pending, and what the source holds, or nothing yet to be
\* scanned, while none is.
HeldValueIsSound ==
  state = "Building" =>
    \A e \in Entities :
      LET holds == {v \in Values : <<v, e>> \in rows.entries} IN
        IF rows.applied[e] # None THEN holds = {rows.applied[e]}
        ELSE IF rows.delta[e] # Absent THEN holds \subseteq {rows.delta[e]}
        ELSE holds \subseteq {src[e]}

\* A finished cleanup left no row of the generation.
CleanupIsComplete ==
  state = "Dropped" => rows.entries = {} /\ Pending(rows) = {} /\ Applied(rows) = {}

\* The corruption errors of the driver never fire: no step finds an owner
\* that left its value without a delta, an applied state without its entry or
\* source value, or an applied state validation should have released.
StepsFindNoCorruption == blocked # "corrupt"

\* A graph write is never refused with a corruption error.
WritesFindNoCorruption == ~corrupt

Duplicate == \E e, f \in Entities : e # f /\ src[e] = src[f] /\ src[e] \in Values

\* A scan that repeats a batch after a blocker may find a row it wrote for an
\* entity that an older binary's write has moved since, and the value of that
\* row on an entity earlier in the batch.
TakenInBatch ==
  \E i, j \in DOMAIN step.keys :
    LET v == rows.applied[step.keys[j]] IN
      i < j /\ v \in Values /\ src[step.keys[j]] # v /\ step.vals[i] = v

\* A build blocks on a uniqueness violation only while two entities really
\* hold one value, in every stage and whatever an older binary wrote.  The one
\* exception is a scan whose batch takes a value from a later entity of its
\* own: the scan, unlike the exact drain, does not track what it released.
BlockersAreReal ==
  [][blocked = "no" /\ blocked' = "duplicate" => Duplicate \/ (stage = "Scan" /\ TakenInBatch)]_vars

\* A build that is neither blocked nor dropped ends in an Active index, even
\* if writes never stop.
BuildsEnd == state = "Building" /\ blocked = "no" ~> state # "Building" \/ blocked # "no"
=============================================================================
