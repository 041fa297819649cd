------------------------------- MODULE Facts -------------------------------
(***************************************************************************)
(* Who owns which fact.  System invocations buffer commands against a      *)
(* snapshot and a commit applies them to the live world: outputs replace   *)
(* the invocation's previous ones by diffing, removals cascade through     *)
(* ownership, and the memo table forgets invocations whose output is gone. *)
(* Beside the evaluation there are base inputs (applied when an evaluation *)
(* starts), the settle phase (whose inserts wait for the next evaluation)  *)
(* and the cleanup of bound entities, which any caller runs at any time.   *)
(*                                                                         *)
(* commands.rs, commands/arena.rs, the commit in bowl.rs.  Which rows have *)
(* to run is the module Planner's question: here every row without a       *)
(* current memo may run.                                                   *)
(***************************************************************************)
EXTENDS World

CONSTANTS
    Systems,
    PairBound,        \* systems whose row is a join (BoxedSystem::pair_bound)
    SettleSystems,    \* systems of Phase::Settle
    Reads,            \* system -> one set of required types per key
    JoinEdge,         \* the edge type that pairs a provider with a member
    Bodies(_, _, _),  \* system, keys, snapshot -> the buffers it may produce
    Inputs,           \* base commands a caller may queue
    Bound,            \* entities held by a BoundEntity handle
    InitWorld,        \* the world the instance starts from
    MaxInputs, MaxRuns  \* bounds on queued inputs and on runs

VARIABLES
    world,     \* State::world
    memo,      \* State::memo: owner -> dependencies
    held,      \* the driver's memo table, None when no evaluation runs
    runs,      \* invocations in flight
    todo,      \* rows of the settle phase that have not run yet
    snap,      \* the snapshot the settle phase was planned from, or None
    pending,   \* State::pending_inputs
    deferred,  \* State::deferred_settle: <<owner, commands>>
    mode,      \* "idle", "normal" or "settle"
    bound,     \* entities of live BoundEntity handles
    gone,      \* history: entities removed as a whole and not written since
    queued, started  \* counters of the bounds

vars == <<world, memo, held, runs, todo, snap, pending, deferred, mode, bound, gone, queued, started>>

Owner(s, keys) == [system |-> s, keys |-> keys]
NoMemo == [o \in {} |-> {}]

\* The table the driver works on; a cleanup only sees State::memo.
Table == IF held = None THEN memo ELSE held

-----------------------------------------------------------------------------
(* Rows and dependencies *)

\* The rows of a system: one entity per key, joined through the edge.
Rows(w, s) ==
    {k \in [DOMAIN Reads[s] -> Entities] :
        /\ \A i \in DOMAIN k : \A c \in Reads[s][i] : Has(w, c, k[i])
        /\ s \in PairBound => Entry(w, JoinEdge, k[1]).value = k[2]}

Deps(w, s, k) ==
    UNION {{<<c, k[i], RevisionOf(w, c, k[i])>> : c \in Reads[s][i] \cap Tracked} : i \in DOMAIN k}

\* MemoEntry::is_current
IsCurrent(w, deps) == \A d \in deps : RevisionOf(w, d[1], d[2]) = d[3]

\* MemoEntry::refresh_written: an own write is not a changed input.
RefreshWritten(w, deps, writes) ==
    {IF <<d[1], d[2]>> \in writes THEN <<d[1], d[2], RevisionOf(w, d[1], d[2])>> ELSE d : d \in deps}

-----------------------------------------------------------------------------
(* Commands *)

ReserveFresh(w, o, body) ==
    FoldLeft(LAMBDA acc, cmd :
               IF cmd.op # "spawn" THEN [acc EXCEPT !.ops = Append(@, cmd)]
               ELSE [acc EXCEPT !.ops = Append(@, [cmd EXCEPT !.at = acc.next]), !.next = @ + 1],
             [ops |-> <<>>, next |-> w.next], body)

\* Commands::insert hands out the slots of the previous run, then fresh ids;
\* None in a buffer stands for the id reserved last.
Reserve(w, o, body) ==
    FoldLeft(LAMBDA acc, cmd :
               IF cmd.op # "spawn"
               THEN [acc EXCEPT !.ops = Append(@, IF cmd.at = None
                                                   THEN [cmd EXCEPT !.at = acc.last] ELSE cmd)]
               ELSE LET slots == SpawnSlots(w, o)
                        reuse == acc.used < Len(slots)
                        id == IF reuse THEN slots[acc.used + 1] ELSE acc.next
                    IN  [ops |-> Append(acc.ops, [cmd EXCEPT !.at = id]), last |-> id,
                         used |-> acc.used + 1, next |-> IF reuse THEN acc.next ELSE acc.next + 1],
             [ops |-> <<>>, last |-> None, used |-> 0, next |-> w.next], body)

InsertBundle(w, e, bundle, o) == FoldLeft(LAMBDA v, part : Insert(v, e, part[1], part[2], o), w, bundle)

\* Bundle::singleton_key: a singleton bundle goes to the registered entity, or
\* the candidate is registered.
Markers(bundle) == {part[1] : part \in Range(bundle)} \cap Singletons
HomeOf(w, bundle, candidate) ==
    IF Markers(bundle) = {} THEN candidate
    ELSE SingletonEntity(w, CHOOSE c \in Markers(bundle) : TRUE, candidate)
RegisterMarkers(w, bundle, candidate) ==
    FoldSet(LAMBDA c, v : RegisterSingleton(v, c, candidate), w, Markers(bundle))

\* SpawnCommand::apply
Spawn(w, cmd, o) ==
    LET at == HomeOf(w, cmd.bundle, cmd.at)
    IN  InsertBundle(RecordDerivedSpawn(RegisterMarkers(w, cmd.bundle, cmd.at), o, at),
                     at, cmd.bundle, o)

\* CommandOp::apply and, with o = None, BaseCommandOp::apply.
Apply(w, cmd, o) ==
    CASE cmd.op = "insert" -> Insert(w, cmd.at, cmd.type, cmd.value, o)
      [] cmd.op = "spawn" -> Spawn(w, cmd, o)
      [] cmd.op = "remove" -> RemoveComponent(w, cmd.type, cmd.at, o)
      [] cmd.op = "despawn" -> RemoveEntity(w, cmd.at)

ApplyAll(w, cmds, o) == FoldLeft(LAMBDA v, cmd : Apply(v, cmd, o), w, cmds)

\* One of the commands puts a marker on an entity that is not its home.
Panics(w, cmds, o) ==
    \E i \in DOMAIN cmds :
        /\ cmds[i].op = "insert"
        /\ Misplaced(ApplyAll(w, SubSeq(cmds, 1, i - 1), o), cmds[i].type, cmds[i].at)

\* CommandOp::defers_at_settle, and what CommandQueue::apply_or_defer applies
\* and moves to the deferred queue as it drains the buffer.
DefersAtSettle(cmd) == cmd.op \in {"insert", "spawn"}
Immediate(cmds) ==
    FoldLeft(LAMBDA kept, c : IF DefersAtSettle(c) THEN kept ELSE Append(kept, c), <<>>, cmds)
Held(cmds) ==
    FoldLeft(LAMBDA kept, c : IF DefersAtSettle(c) THEN Append(kept, c) ELSE kept, <<>>, cmds)

-----------------------------------------------------------------------------
(* Cascades.  A cascade is [world, memo, retired]. *)

TouchedMemos(m, keys) == {o \in DOMAIN m : Range(o.keys) \cap keys # {}}
Forget(m, owners) == Restrict(m, DOMAIN m \ owners)

RetireNoOwners(x, owners, systems) == x
\* reconcile_removed_output_owners
RetireOwners(x, owners, systems) ==
    LET hit == {o \in owners : o.system \in systems} \cap DOMAIN x.memo
    IN  [x EXCEPT !.memo = Forget(@, hit), !.retired = @ \/ hit # {}]

\* One turn of the frontier loop, and the loop: every turn but the last finds
\* an entity that was not seen, so there are at most |Entities| + 1.
Turn(x, systems) ==
    IF x.frontier = {} THEN x
    ELSE LET hit == TouchedEntities(x.world, x.frontier, systems)
         IN  [world |-> RemoveDerivedTouchedBy(x.world, x.frontier, systems),
              memo |-> Forget(x.memo, TouchedMemos(x.memo, x.frontier)),
              retired |-> x.retired \/ hit # {},
              seen |-> x.seen \cup hit, frontier |-> hit \ x.seen]
Cascade(x, roots, seen, systems) ==
    LET end == FoldLeft(LAMBDA y, i : Turn(y, systems),
                        [world |-> x.world, memo |-> x.memo, retired |-> x.retired,
                         seen |-> seen, frontier |-> roots],
                        [i \in 1 .. Cardinality(Entities) + 2 |-> i])
    IN  [world |-> end.world, memo |-> end.memo, retired |-> end.retired]

\* reconcile_removed_invocations
ReconcileRemoved(x, removed, owners, systems) ==
    Cascade(RetireOwners(x, owners, systems), removed, removed, systems)

\* The world with the three lists a commit drains emptied.
Drained(w) == [w EXCEPT !.removedEntities = {}, !.removedOwners = {}, !.removedComponentOwners = {}]

\* The reconciliation at the end of a commit.  Outputs lost with a component
\* are retired first; only if that retired nothing, the removed entities are.
ReconcileCommit(w, m) ==
    LET x == RetireOwners([world |-> Drained(w), memo |-> m, retired |-> FALSE],
                          w.removedComponentOwners, Systems)
    IN  IF x.retired THEN x
        ELSE ReconcileRemoved(x, w.removedEntities, w.removedOwners, PairBound)

\* The reconciliation of external removals in start_evaluation.
ReconcileInputs(w, m) ==
    ReconcileRemoved(RetireOwners([world |-> Drained(w), memo |-> m, retired |-> FALSE],
                                  w.removedComponentOwners, Systems),
                     w.removedEntities, {}, Systems)

Alive(w) == {e \in Entities : \E c \in Components : Has(w, c, e)}

-----------------------------------------------------------------------------
Init ==
    /\ world = InitWorld
    /\ memo = NoMemo /\ held = None /\ runs = {} /\ todo = {} /\ snap = None
    /\ pending = <<>> /\ deferred = <<>>
    /\ mode = "idle" /\ bound = Bound
    /\ gone = {} /\ queued = 0 /\ started = 0

\* entity(..).insert, remove and despawn queue a base command.
Queue(cmd) ==
    /\ cmd.op # "spawn"
    /\ queued < MaxInputs /\ queued' = queued + 1
    /\ pending' = Append(pending, cmd)
    /\ UNCHANGED <<world, memo, held, runs, todo, snap, deferred, mode, bound, gone, started>>

\* Bowl::insert queues the parts of a bundle for an entity that it picks at once:
\* the home of its marker, or a new one.
QueueInsert(cmd) ==
    LET at == HomeOf(world, cmd.bundle, world.next)
    IN  /\ cmd.op = "spawn"
        /\ queued < MaxInputs /\ queued' = queued + 1
        /\ at = world.next => at \in Entities
        /\ world' = [RegisterMarkers(world, cmd.bundle, at) EXCEPT
                       !.next = IF at = @ THEN @ + 1 ELSE @]
        /\ pending' = pending \o [i \in DOMAIN cmd.bundle |->
                        [op |-> "insert", at |-> at, type |-> cmd.bundle[i][1],
                         value |-> cmd.bundle[i][2]]]
        /\ UNCHANGED <<memo, held, runs, todo, snap, deferred, mode, bound, gone, started>>

\* The queues of settle output are applied in the order of their commits.
Settled(w, outs) == FoldLeft(LAMBDA v, out : ApplyAll(v, out[2], out[1]), w, outs)

\* start_evaluation: deferred settle outputs, base inputs, anchors, cascades.
StartEvaluation ==
    /\ mode = "idle"
    /\ LET rolled == RollPlanEpoch(world, 0)
           settled == Settled(rolled, deferred)
           written == FlushDerivedFrom(ApplyAll(settled, pending, None))
           x == ReconcileInputs(written, memo)
       IN  /\ ~Panics(settled, pending, None)
           /\ \A i \in DOMAIN deferred :
                 ~Panics(Settled(rolled, SubSeq(deferred, 1, i - 1)), deferred[i][2], deferred[i][1])
           /\ world' = x.world /\ held' = x.memo
           /\ gone' = (gone \cup written.removedEntities) \ Alive(x.world)
    /\ memo' = NoMemo /\ pending' = <<>> /\ deferred' = <<>>
    /\ mode' = "normal"
    /\ UNCHANGED <<runs, todo, snap, bound, queued, started>>

\* One invocation starts: it reads the snapshot w and buffers commands; its
\* in-place writes land at once.
Start(w, o, body) ==
    LET buffer == Reserve(world, o, body.commands)
        deps == Deps(w, o.system, o.keys)
    IN  /\ started < MaxRuns /\ started' = started + 1
        /\ buffer.next <= Cardinality(Entities) + 1
        /\ runs' = runs \cup {[owner |-> o, deps |-> deps, commands |-> buffer.ops,
                               writes |-> {<<x[1], x[2]>> : x \in body.writes}]}
        /\ world' = [FoldSet(LAMBDA x, v : WriteInPlace(v, x[1], x[2], x[3]), world, body.writes)
                       EXCEPT !.next = buffer.next]
        /\ UNCHANGED <<memo, held, snap, pending, deferred, mode, bound, gone, queued>>

\* A row has to run unless its memo is current; a row without dependencies
\* (a sweep) always runs.
Due(w, s) == {o \in {Owner(s, k) : k \in Rows(w, s)} :
                ~(o \in DOMAIN held /\ Deps(w, s, o.keys) # {} /\ IsCurrent(w, held[o]))}

Run(o, body) ==
    /\ mode = "normal" /\ \A r \in runs : r.owner # o
    /\ Start(world, o, body)
    /\ UNCHANGED todo

\* commit_system_run of a run whose dependencies moved: the commands are
\* discarded, the in-place writes are not revocable.
CommitStale(r) ==
    /\ ~IsCurrent(world, r.deps)
    /\ world' = ReconcileWritten(world, r.writes)
    /\ runs' = runs \ {r}
    /\ UNCHANGED <<memo, held, todo, snap, pending, deferred, mode, bound, gone, queued, started>>

\* The outputs of a run replace the previous ones of its owner.
Replaced(w, o, cmds) ==
    LET applied == FlushDerivedFrom(ApplyAll(TakeOutputs(w, {o}), cmds, o))
    IN  RemoveDerivedStale(FinishDerivedSpawns(applied, o), OutputsOf(w, {o}))

Commit(r) ==
    /\ IsCurrent(world, r.deps)
    /\ LET now == IF mode = "settle" THEN Immediate(r.commands) ELSE r.commands
           later == IF mode = "settle" THEN Held(r.commands) ELSE <<>>
           written == ReconcileWritten(Replaced(world, r.owner, now), r.writes)
           x == ReconcileCommit(written,
                                (r.owner :> RefreshWritten(written, r.deps, r.writes)) @@ held)
       IN  /\ ~Panics(TakeOutputs(world, {r.owner}), now, r.owner)
           /\ world' = x.world /\ held' = x.memo
           /\ gone' = (gone \cup written.removedEntities) \ Alive(x.world)
           /\ deferred' = IF later = <<>> THEN deferred ELSE Append(deferred, <<r.owner, later>>)
    /\ runs' = runs \ {r}
    /\ UNCHANGED <<memo, todo, snap, pending, mode, bound, queued, started>>

\* The normal phases converged: run_settle_phase takes the memo table over and
\* plans every settle system once, from one snapshot.
BeginSettle ==
    /\ mode = "normal" /\ runs = {}
    /\ \A s \in Systems \ SettleSystems : Due(world, s) = {}
    /\ mode' = "settle" /\ snap' = world
    /\ todo' = UNION {Due(world, s) : s \in SettleSystems}
    /\ UNCHANGED <<world, memo, held, runs, pending, deferred, bound, gone, queued, started>>

RunSettle(o, body) ==
    /\ mode = "settle"
    /\ Start(snap, o, body)
    /\ todo' = todo \ {o}

EndSettle ==
    /\ mode = "settle" /\ runs = {} /\ todo = {}
    /\ mode' = "idle" /\ memo' = held /\ held' = None /\ snap' = None
    /\ UNCHANGED <<world, runs, todo, pending, deferred, bound, gone, queued, started>>

\* BoundEntity::take, or the drain of a dropped handle: cleanup_bound_entities
\* on State::memo, which is empty while an evaluation runs.
CleanupBound(b) ==
    /\ b \in bound /\ bound' = bound \ {b}
    /\ LET x == Cascade([world |-> world, memo |-> memo, retired |-> FALSE], {b}, {}, Systems)
           owners == OwnersOn(x.world, b)
       IN  /\ world' = FoldSet(LAMBDA o, v : RemoveDerivedOwned(v, o), RemoveEntity(x.world, b), owners)
           /\ memo' = Forget(x.memo, owners)
           /\ gone' = (gone \cup {b}) \ Alive(world')
    /\ UNCHANGED <<held, runs, todo, snap, pending, deferred, mode, queued, started>>

Next ==
    \/ \E cmd \in Inputs : Queue(cmd) \/ QueueInsert(cmd)
    \/ StartEvaluation
    \/ /\ held # None
       /\ \E s \in Systems \ SettleSystems : \E o \in Due(world, s) :
             \E body \in Bodies(s, o.keys, world) : Run(o, body)
    \/ \E o \in todo : \E body \in Bodies(o.system, o.keys, snap) : RunSettle(o, body)
    \/ \E r \in runs : CommitStale(r) \/ Commit(r)
    \/ BeginSettle
    \/ EndSettle
    \/ \E b \in bound : CleanupBound(b)

Spec == Init /\ [][Next]_vars

-----------------------------------------------------------------------------
(* Properties *)

\* Every index the engine consults instead of the stores agrees with them, on
\* each path of an entry (insert, overwrite, removal, sweep, cascade): the
\* ownership index (an output it misses is never replaced, one it invents hides
\* a stale output), fingerprint buckets, presence bits, the maintained inverse
\* of a relationship, and the revisions planners compare.
IndexesExact ==
    /\ OwnersExact(world)
    /\ FingerprintsExact(world)
    /\ PresenceExact(world)
    /\ InversesExact(world)
    /\ RevisionsBounded(world)

\* Pair outputs leave with a vanished partner: no output is owned by a join row
\* one of whose entities was removed.
PairOutputsLive ==
    \A out \in world.owned : out[1].system \in PairBound => Range(out[1].keys) \cap gone = {}

\* At most one entity carries a singleton marker, although callers and systems
\* pick the entity of a singleton bundle at different times and removals forget
\* it in between.
SingletonUnique == \A c \in Singletons : Cardinality(DOMAIN world.entries[c]) <= 1

\* What callers queued can be applied: "if singleton T already has an entity:
\* insert/update bundle on that entity" (spec/singletons.md:173).  It fails
\* (facts_singleton_moved): the entity was picked when the insert was queued.
InputsApply == mode = "idle" => ~Panics(Settled(RollPlanEpoch(world, 0), deferred), pending, None)

\* An output that its memoized invocation loses was overwritten by another
\* writer or left with its whole entity, and in the second case, at a commit,
\* the invocation is not a join row: otherwise a row that considers itself
\* current never recreates what was removed.
Lost(o) == {out \in world.owned \ world'.owned : out[1] = o /\ ~Has(world', out[2], out[3])}
Committed(o) == \E r \in runs : r.owner = o /\ r \notin runs'
Bystanders == {o \in DOMAIN Table \cap DOMAIN Table' : ~Committed(o)}
MemoDescribesOutput ==
    [][\A o \in Bystanders : \A out \in Lost(o) :
          /\ out[3] \in gone' \/ (mode # "idle" /\ bound' # bound)
          /\ runs' # runs => o.system \notin PairBound]_vars


\* A rerun keeps the identity of what it spawned: slot i stays the same entity
\* for as long as the invocation keeps that slot, unless it now resolves to the
\* singleton.
SpawnsKeepIdentity ==
    [][\A o \in DOMAIN world.spawns \cap DOMAIN world'.spawns :
          \A i \in DOMAIN world.spawns[o] \cap DOMAIN world'.spawns[o] :
             \/ world.spawns[o][i] = world'.spawns[o][i]
             \/ world'.spawns[o][i] \in Range(world.singletons)]_vars
=============================================================================
