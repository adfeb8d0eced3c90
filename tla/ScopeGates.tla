----------------------------- MODULE ScopeGates -----------------------------
(***************************************************************************)
(* The gates of one data scope (index_lifecycle/scope_gate.rs) and the      *)
(* code that holds them: requests that plan, read and write                 *)
(* (planner_context_scoped_prepared, begin_write_tx, commit_write_tx), DROP *)
(* INDEX, the steps of the lifecycle worker, and the refresh of the         *)
(* published catalog.                                                       *)
(*                                                                          *)
(* Three fair locks: the catalog gate and the mutation gate (RwLock) and    *)
(* the refresh gate (Mutex). The scope has one index. `epoch' counts the    *)
(* committed changes of the Active set and stands for that set: a loaded    *)
(* catalog is the epoch it was loaded at, and on a reader it is also the    *)
(* sequence of the snapshot.                                                *)
(***************************************************************************)
EXTENDS Integers, Sequences

CONSTANTS
  Requests,      \* requests that plan, and then read or write
  Drops,         \* DROP INDEX callers
  Worker,        \* the lifecycle worker, one step at a time
  Refresher,     \* a caller of refresh_runtime_catalog
  Unverified,    \* the observation of a catalog loaded outside planning
  Roles,         \* TRUE in it: a read-only handle that follows another writer
  DropRetries,   \* bound: DROP_CONFLICT_RETRIES
  MaxGen,        \* bound: CREATEs, hence generations
  MaxVersion,    \* bound: the version from which no step fails of itself
  MaxEpoch       \* bound: states a reader can observe

ASSUME ScopeGatesAssumption ==
  /\ Worker \notin Requests \cup Drops /\ Refresher \notin Requests \cup Drops
  /\ Worker # Refresher /\ Requests \cap Drops = {}
  /\ Roles \subseteq BOOLEAN /\ Roles # {} /\ {DropRetries, MaxGen, MaxVersion, MaxEpoch} \subseteq Nat
  /\ Unverified \notin Nat

VARIABLES
  reader,     \* the handle is a reader; fixed when it is opened
  held,       \* per lock: the processes that hold it
  queue,      \* per lock: the processes that wait for it, in order
  version,    \* the catalog version of the scope
  index,      \* the canonical record: state, generation and build stage
  epoch,      \* the Active set
  cache,      \* the published catalog and its observation
  repaired,   \* the scope is in legacy_blockers_repaired
  pc,         \* per process: where it is
  local,      \* per process: what it remembers, see Blank
  written     \* requests whose graph transaction has committed

locks == <<held, queue>>
data == <<version, index, epoch, cache, repaired, written>>
vars == <<reader, held, queue, version, index, epoch, cache, repaired, pc, local, written>>

Procs == Requests \cup Drops \cup {Worker, Refresher}
Locks == {"catalog", "mutation", "refresh"}
(* state: Absent, Building, Active, Aborting, Dropping or Dropped; stage:     *)
(* none, scan, catchup or activate.                                          *)
NoIndex == [state |-> "Absent", gen |-> 0, stage |-> "none"]

(* observed: the observation a request plans under; snap: the catalog its   *)
(* view shows; plan: the catalog it planned with; base: the record its      *)
(* transaction read; retries: conflicts of a DROP; detached: the caller of  *)
(* its completion is gone.                                                  *)
Blank == [observed |-> Unverified, snap |-> 0, plan |-> 0, base |-> NoIndex,
          retries |-> 0, detached |-> FALSE]

Init ==
  /\ reader \in Roles
  /\ held = [l \in Locks |-> {}] /\ queue = [l \in Locks |-> <<>>]
  /\ version = 0 /\ index = NoIndex /\ epoch = 0
  /\ cache = [active |-> 0, seen |-> Unverified] /\ repaired = reader
  /\ pc = [p \in Procs |-> "idle"]
  /\ local = [p \in Procs |-> Blank] /\ written = {}

-----------------------------------------------------------------------------
(* The locks. A queue holds a process at most once. *)
Contains(s, p) == \E i \in 1 .. Len(s) : s[i] = p

Without(s, p) ==
  LET k == CHOOSE i \in 1 .. Len(s) : s[i] = p IN
  IF Contains(s, p) THEN [i \in 1 .. Len(s) - 1 |-> IF i < k THEN s[i] ELSE s[i + 1]] ELSE s

(* Requests share the catalog and the mutation gate. *)
Shared(l, p) == l # "refresh" /\ p \in Requests

(* Tokio's locks are fair: only the head of the queue is let in. *)
Admits(l) ==
  /\ queue[l] # <<>>
  /\ IF Shared(l, Head(queue[l])) THEN \A q \in held[l] : Shared(l, q) ELSE held[l] = {}

Acquire(l, p) ==
  /\ Admits(l) /\ Head(queue[l]) = p
  /\ queue' = [queue EXCEPT ![l] = Tail(@)]
  /\ held' = [held EXCEPT ![l] = @ \cup {p}]

Release(l, p) == held' = [held EXCEPT ![l] = @ \ {p}] /\ UNCHANGED queue

Go(p, from, to) == pc[p] = from /\ pc' = [pc EXCEPT ![p] = to]
Keep(p, l) == local' = [local EXCEPT ![p] = l]

(* The lock a process waits for at each point. *)
Wanted == [catalog |-> "catalog", repair |-> "refresh", refresh |-> "refresh",
           mutation |-> "mutation"]

Await(p) ==
  LET l == Wanted[pc[p]] IN
  /\ pc[p] \in DOMAIN Wanted
  /\ p \notin held[l] /\ ~Contains(queue[l], p)
  /\ queue' = [queue EXCEPT ![l] = Append(@, p)]
  /\ UNCHANGED <<held, pc, local, data>>

-----------------------------------------------------------------------------
(* The published catalog. *)
Reusable(obs) == obs # Unverified /\ cache.seen = obs

Supersedes(newer, older) ==
  newer # Unverified /\ older # Unverified /\ newer > older

(* A bug: whichever load ends last is published.                            *)
PublishedLast(catalog, obs) == [active |-> catalog, seen |-> obs]

(* publish_planning_catalog *)
Published(catalog, obs) ==
  IF Supersedes(cache.seen, obs) THEN cache ELSE [active |-> catalog, seen |-> obs]

-----------------------------------------------------------------------------
(* Requests. *)
BeginRequest(r) == Go(r, "idle", "catalog") /\ UNCHANGED <<locks, local, data>>

(* catalog_permit, with the version read once the gate is held. *)
GrantCatalog(r) ==
  /\ Go(r, "catalog", IF repaired THEN "view" ELSE "repair") /\ Acquire("catalog", r)
  /\ Keep(r, [local[r] EXCEPT !.observed = version]) /\ UNCHANGED data

(* repair_legacy_reader_blockers_once holds the refresh gate for its pass. *)
RepairBegins(r) ==
  Go(r, "repair", "repairing") /\ Acquire("refresh", r) /\ UNCHANGED <<local, data>>

RepairEnds(r) ==
  /\ Go(r, "repairing", "view") /\ Release("refresh", r) /\ repaired' = TRUE
  /\ UNCHANGED <<local, version, index, epoch, cache, written>>

(* The request's read view; a reader plans under its sequence. *)
OpenView(r) ==
  /\ Go(r, "view", "lookup")
  /\ Keep(r, [local[r] EXCEPT !.snap = epoch, !.observed = IF reader THEN epoch ELSE @])
  /\ UNCHANGED <<locks, data>>

Lookup(r) ==
  /\ \/ /\ Reusable(local[r].observed) /\ Go(r, "lookup", "planned")
        /\ Keep(r, [local[r] EXCEPT !.plan = cache.active])
     \/ ~Reusable(local[r].observed) /\ Go(r, "lookup", "refresh") /\ UNCHANGED local
  /\ UNCHANGED <<locks, data>>

(* A waiter rechecks the cache once it holds the refresh gate. *)
Recheck(r) ==
  /\ Go(r, "refresh", IF Reusable(local[r].observed) THEN "reuse" ELSE "load")
  /\ Acquire("refresh", r) /\ UNCHANGED <<local, data>>

Reuse(r) ==
  /\ Go(r, "reuse", "planned") /\ Release("refresh", r)
  /\ Keep(r, [local[r] EXCEPT !.plan = cache.active]) /\ UNCHANGED data

LoadCatalog(r) ==
  /\ Go(r, "load", "planned") /\ Release("refresh", r)
  /\ Keep(r, [local[r] EXCEPT !.plan = local[r].snap])
  /\ cache' = Published(local[r].snap, local[r].observed)
  /\ UNCHANGED <<version, index, epoch, repaired, written>>

(* A request that only reads drops the permit with its proof. *)
EndRead(r) ==
  Go(r, "planned", "done") /\ Release("catalog", r) /\ Keep(r, Blank) /\ UNCHANGED data

(* A bug: the catalog permit is dropped before the transaction opens. *)
BeginWriteUnplanned(r) ==
  ~reader /\ Go(r, "planned", "mutation") /\ Release("catalog", r) /\ UNCHANGED <<local, data>>

BeginWrite(r) ==
  ~reader /\ Go(r, "planned", "mutation") /\ UNCHANGED <<locks, local, data>>

GrantMutation(r) ==
  Go(r, "mutation", "begin") /\ Acquire("mutation", r) /\ UNCHANGED <<local, data>>

(* The mutation catalog is read through the transaction, so the canonical   *)
(* record joins its conflict set.                                           *)
BeginTx(r) ==
  /\ Go(r, "begin", "opened")
  /\ Keep(r, [Blank EXCEPT !.plan = local[r].plan, !.base = index])
  /\ UNCHANGED <<locks, data>>

DropCatalogPermit(r) ==
  Go(r, "opened", "writing") /\ Release("catalog", r) /\ UNCHANGED <<local, data>>

BeginCommit(r) == Go(r, "writing", "commit") /\ UNCHANGED <<locks, local, data>>

(* The finite completion: the commit or its conflict, then the permit.     *)
Commit(r) ==
  LET base == local[r].base IN
  /\ Go(r, "commit", "done") /\ Release("mutation", r) /\ Keep(r, Blank)
  /\ written' = IF <<base.state, base.gen>> = <<index.state, index.gen>>
                THEN written \cup {r} ELSE written
  /\ UNCHANGED <<version, index, epoch, cache, repaired>>

(* The caller goes away: before its commit it takes every permit and place *)
(* in a queue with it; a DROP can do so only while it waits for the gate.   *)
Cancel(p) ==
  /\ pc[p] \notin {"idle", "commit", "done"} /\ (p \in Drops => pc[p] = "catalog")
  /\ Go(p, pc[p], "done") /\ Keep(p, Blank)
  /\ held' = [l \in Locks |-> held[l] \ {p}]
  /\ queue' = [l \in Locks |-> Without(queue[l], p)]
  /\ UNCHANGED data

Completing(p) ==
  \/ p \in Requests /\ pc[p] = "commit"
  \/ p \in Drops /\ pc[p] \in {"attempt", "commit"}

(* A bug: a caller that goes away frees the permit of its completion.       *)
DetachUngated(p) ==
  /\ Completing(p) /\ ~local[p].detached
  /\ Keep(p, [local[p] EXCEPT !.detached = TRUE])
  /\ held' = [l \in Locks |-> held[l] \ {p}] /\ UNCHANGED <<queue, pc, data>>

(* A completion whose caller goes away keeps its permit and runs on.        *)
Detach(p) ==
  /\ Completing(p) /\ ~local[p].detached
  /\ Keep(p, [local[p] EXCEPT !.detached = TRUE]) /\ UNCHANGED <<locks, pc, data>>

-----------------------------------------------------------------------------
(* Definition changes. CREATE and abort take no gate: neither touches the   *)
(* Active set.                                                              *)
Create ==
  /\ ~reader /\ index.state \in {"Absent", "Dropped"} /\ index.gen < MaxGen
  /\ index' = [state |-> "Building", gen |-> index.gen + 1, stage |-> "scan"]
  /\ UNCHANGED <<locks, version, epoch, cache, repaired, pc, local, written>>

Abort ==
  /\ index.state = "Building"
  /\ index' = [index EXCEPT !.state = "Aborting", !.stage = "none"]
  /\ UNCHANGED <<locks, version, epoch, cache, repaired, pc, local, written>>

BeginDrop(d) == ~reader /\ Go(d, "idle", "catalog") /\ UNCHANGED <<locks, local, data>>

GrantDrop(d) ==
  Go(d, "catalog", "attempt") /\ Acquire("catalog", d) /\ UNCHANGED <<local, data>>

(* One attempt reads the record and its operation; only a Building or an    *)
(* Active index has something to commit.                                    *)
AttemptDrop(d) ==
  /\ Go(d, "attempt", IF index.state \in {"Building", "Active"} THEN "commit" ELSE "advance")
  /\ Keep(d, [local[d] EXCEPT !.base = index]) /\ UNCHANGED <<locks, data>>

CommitDrop(d) ==
  LET l == local[d] IN
  /\ \/ /\ index = l.base /\ Go(d, "commit", "advance")
        /\ index' = [index EXCEPT !.state = IF @ = "Active" THEN "Dropping" ELSE "Aborting",
                                  !.stage = "none"]
        /\ epoch' = IF index.state = "Active" THEN epoch + 1 ELSE epoch
        /\ UNCHANGED local
     \/ /\ index # l.base /\ l.retries < DropRetries /\ Go(d, "commit", "attempt")
        /\ Keep(d, [l EXCEPT !.retries = @ + 1]) /\ UNCHANGED <<index, epoch>>
     \/ /\ index # l.base /\ l.retries = DropRetries /\ Go(d, "commit", "advance")
        /\ UNCHANGED <<index, epoch, local>>
  /\ UNCHANGED <<locks, version, cache, repaired, written>>

(* Releasing an exclusive catalog permit: the version, then the gates.      *)
Advance(p) ==
  /\ Go(p, "advance", "unlock") /\ version' = version + 1
  /\ UNCHANGED <<locks, local, index, epoch, cache, repaired, written>>

Unlock(p) ==
  /\ Go(p, "unlock", IF p = Worker THEN "unfence" ELSE "done")
  /\ Release("catalog", p) /\ Keep(p, Blank) /\ UNCHANGED data

-----------------------------------------------------------------------------
(* Worker steps. A scan takes no gate, activation takes both, and every     *)
(* other step fences writers only.                                          *)
BeginStep ==
  /\ index.state \in {"Building", "Aborting", "Dropping"}
  /\ Go(Worker, "idle", CASE index.stage = "scan"     -> "step"
                          [] index.stage = "activate" -> "catalog"
                          [] OTHER                    -> "mutation")
  /\ Keep(Worker, [Blank EXCEPT !.base = index]) /\ UNCHANGED <<locks, data>>

GrantStepCatalog ==
  /\ Go(Worker, "catalog", "mutation") /\ Acquire("catalog", Worker)
  /\ UNCHANGED <<local, data>>

(* A bug: the fence waits for the catalog gate once it has the mutation one. *)
GrantFenceFirst ==
  LET base == local[Worker].base IN
  /\ IF Worker \in held["mutation"]
     THEN Go(Worker, "mutation", "step") /\ Release("catalog", Worker)
     ELSE /\ Acquire("mutation", Worker)
          /\ Go(Worker, "mutation", IF base.stage = "catchup" THEN "catalog" ELSE "step")
  /\ UNCHANGED <<local, data>>

GrantFence ==
  Go(Worker, "mutation", "step") /\ Acquire("mutation", Worker) /\ UNCHANGED <<local, data>>

Stepped(i) ==
  CASE i.stage = "scan"     -> [i EXCEPT !.stage = "catchup"]
    [] i.stage = "catchup"  -> [i EXCEPT !.stage = "activate"]
    [] i.stage = "activate" -> [i EXCEPT !.state = "Active", !.stage = "none"]
    [] OTHER                -> [i EXCEPT !.state = "Dropped"]

(* The step commits, or finds its record changed, or fails.                 *)
CommitStep ==
  LET base == local[Worker].base IN
  /\ Go(Worker, "step", IF base.stage = "activate" THEN "advance" ELSE "unfence")
  /\ \/ /\ index = base /\ index' = Stepped(index)
        /\ epoch' = IF base.stage = "activate" THEN epoch + 1 ELSE epoch
     \/ (index # base \/ version < MaxVersion) /\ UNCHANGED <<index, epoch>>
  /\ Keep(Worker, Blank) /\ UNCHANGED <<locks, version, cache, repaired, written>>

Unfence ==
  Go(Worker, "unfence", "idle") /\ Release("mutation", Worker) /\ UNCHANGED <<local, data>>

-----------------------------------------------------------------------------
(* refresh_runtime_catalog: a snapshot of its own under the refresh gate.   *)
BeginRefresh == Go(Refresher, "idle", "refresh") /\ UNCHANGED <<locks, local, data>>

GrantRefresh ==
  Go(Refresher, "refresh", "view") /\ Acquire("refresh", Refresher) /\ UNCHANGED <<local, data>>

RefreshView ==
  /\ Go(Refresher, "view", "load") /\ Keep(Refresher, [Blank EXCEPT !.snap = epoch])
  /\ UNCHANGED <<locks, data>>

(* A bug: the writer's scan is published at the version of the moment.      *)
RefreshVersioned ==
  /\ Go(Refresher, "load", "idle") /\ Release("refresh", Refresher) /\ Keep(Refresher, Blank)
  /\ cache' = [active |-> local[Refresher].snap, seen |-> version]
  /\ UNCHANGED <<version, index, epoch, repaired, written>>

(* A reader that has moved on rejects its scan; a writer's scan is published *)
(* unverified.                                                              *)
Refresh ==
  LET snap == local[Refresher].snap IN
  /\ Go(Refresher, "load", "idle") /\ Release("refresh", Refresher) /\ Keep(Refresher, Blank)
  /\ cache' = CASE ~reader -> [active |-> snap, seen |-> Unverified]
                [] reader /\ snap = epoch -> Published(snap, snap)
                [] OTHER -> cache
  /\ UNCHANGED <<version, index, epoch, repaired, written>>

(* The reader's handle applies newer state of the writer it follows.        *)
Follow ==
  /\ reader /\ epoch < MaxEpoch /\ epoch' = epoch + 1
  /\ UNCHANGED <<locks, version, index, cache, repaired, pc, local, written>>

-----------------------------------------------------------------------------
RequestStep(r) ==
  \/ Await(r) \/ GrantCatalog(r) \/ RepairBegins(r) \/ RepairEnds(r) \/ OpenView(r)
  \/ Lookup(r) \/ Recheck(r) \/ Reuse(r) \/ LoadCatalog(r) \/ EndRead(r) \/ BeginWrite(r)
  \/ GrantMutation(r) \/ BeginTx(r) \/ DropCatalogPermit(r) \/ BeginCommit(r) \/ Commit(r)
DropStep(d) ==
  Await(d) \/ GrantDrop(d) \/ AttemptDrop(d) \/ CommitDrop(d) \/ Advance(d) \/ Unlock(d)
WorkerStep ==
  \/ Await(Worker) \/ GrantStepCatalog \/ GrantFence \/ CommitStep \/ Advance(Worker)
  \/ Unlock(Worker) \/ Unfence
RefreshStep == Await(Refresher) \/ GrantRefresh \/ RefreshView \/ Refresh

Act ==
  \/ \E r \in Requests : BeginRequest(r) \/ RequestStep(r)
  \/ \E d \in Drops : BeginDrop(d) \/ DropStep(d)
  \/ \E p \in Requests \cup Drops : Cancel(p) \/ Detach(p)
  \/ BeginStep \/ WorkerStep \/ BeginRefresh \/ RefreshStep
  \/ Create \/ Abort \/ Follow

Next == UNCHANGED reader /\ Act

Spec == Init /\ [][Next]_vars

-----------------------------------------------------------------------------
(* A request that holds the catalog gate never finds a reusable catalog     *)
(* that differs from the one a fresh load of its view would give            *)
(* (assert_cached_catalog_is_current).                                      *)
CachedCatalogIsExact ==
  \A r \in Requests :
    pc[r] \in {"lookup", "reuse"} /\ Reusable(local[r].observed) => cache.active = local[r].snap

(* The published catalog, which execution reads its definitions from, is    *)
(* never older than one a request under way was planned with, although      *)
(* loads of older snapshots end after newer ones (publish_planning_catalog: *)
(* it "would hide indexes the newer request already planned").              *)
PlansStayPublished == \A r \in Requests : cache.active >= local[r].plan

(* A graph transaction commits only while the Active set is the one its     *)
(* request was planned with: no write goes through a plan for indexes that  *)
(* have since appeared or gone (begin_write_tx, commit_write_tx).           *)
WritesMatchTheirPlan ==
  [][\A r \in Requests : r \in written' \ written => local[r].plan = epoch /\ epoch' = epoch]_vars

(* No graph transaction commits while a lifecycle step holds its fence, not *)
(* even one whose request was dropped (IndexScopeWriteFencePermit).         *)
FencedStepsSeeNoWrite ==
  [][written' # written => Worker \notin held["mutation"]]_vars

(* While a gate is waited for, a gate lets its next waiter in or some       *)
(* process runs that waits for none: planning holds catalog and waits for   *)
(* refresh or mutation, activation holds catalog and waits for mutation,    *)
(* and nothing waits the other way (IndexScopeWriteFencePermit).            *)
GatesNeverDeadlock ==
  (\E l \in Locks : queue[l] # <<>>) =>
    \/ \E l \in Locks : Admits(l)
    \/ \E p \in Procs : /\ pc[p] \notin {"idle", "done"}
                        /\ \A l \in Locks : ~Contains(queue[l], p)
=============================================================================
