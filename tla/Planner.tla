------------------------------ MODULE Planner -------------------------------
(***************************************************************************)
(* Incremental planning of one normal phase: run_phase_streaming in        *)
(* crates/bowl/src/bowl.rs, the planner state of BoxedSystem in system.rs, *)
(* and the write log of world.rs that its delta cursors point into.        *)
(*                                                                         *)
(* A system has one row per entity that carries every store it reads.  A   *)
(* row is memoized while the revisions it ran against are the live ones.   *)
(* The planner does not look at every row: it skips systems whose stores   *)
(* did not move past a mark, and looks only at entities logged since a     *)
(* cursor.  The question is whether a row that has to run is ever skipped. *)
(*                                                                         *)
(* A revision of 0 stands for an absent component.  The rows written in    *)
(* one lock section share one revision and one entry of the log; cursors   *)
(* are only ever taken between lock sections.                              *)
(***************************************************************************)
EXTENDS Integers, Sequences, FiniteSets

CONSTANTS
    Systems,        \* the systems of this phase
    Entities, Stores,
    Reads,          \* stores of a system's tracked query, its interest
    Mutates,        \* those of them it writes in place (MutRef)
    Emits,          \* stores its commands write
    Delta,          \* delta_eligible systems
    Unbounded,      \* systems without bounded interest
    Batched,        \* systems wrapped by on_start or on_complete
    NoMemo,         \* a row without a memo entry
    LogLimit,       \* log entries kept at a generation start (4096)
    MaxRevision,    \* bound: revisions of the world
    MaxDisturbances \* bound: preemptions, dropped drivers, lost memo entries

ASSUME SystemsAssumption ==
    /\ IsFiniteSet(Systems) /\ IsFiniteSet(Entities)
    /\ Reads \in [Systems -> SUBSET Stores]
    /\ Mutates \in [Systems -> SUBSET Stores]
    /\ Emits \in [Systems -> SUBSET Stores]
    /\ \A s \in Systems : Mutates[s] \subseteq Reads[s]
    /\ Delta \subseteq Systems /\ Unbounded \subseteq Systems /\ Batched \subseteq Systems
    /\ Delta \cap Unbounded = {}
ASSUME LimitsAssumption ==
    LogLimit \in Nat /\ MaxRevision \in Nat /\ MaxDisturbances \in Nat

VARIABLES
    rev,            \* World: the revision of every component
    clock,          \* World::revision
    mark,           \* Store::watermark
    log, epoch,     \* World::write_log, World::plan_epoch
    memo,           \* the memo table
    planned,        \* BoxedSystem::planned_mark; Reset is u64::MAX
    cursor,         \* BoxedSystem::log_pos
    cursorEpoch,    \* BoxedSystem::plan_epoch; Reset is u64::MAX
    forced,         \* BoxedSystem::forced_dirty
    mode,           \* where the driver is in run_phase_streaming
    runs,           \* Reservations and the queues: the runs in flight
    needsPlan, deferredConflicts,
    quiet,          \* the wave found no system to plan
    followup, stale,\* of the batch being committed
    snap, toPlan,   \* the wave's snapshot, and the systems it has left
    allowPreempt, waiting,
    disturbances,   \* bound
    unseen          \* history: somebody wrote since the last look at the world

worldVars == <<rev, clock, mark, log, epoch>>
systemVars == <<planned, cursor, cursorEpoch, forced>>
loopVars == <<needsPlan, deferredConflicts, quiet>>
batchVars == <<followup, stale>>
waveVars == <<snap, toPlan>>
preemptVars == <<allowPreempt, waiting, disturbances>>
vars == <<worldVars, memo, systemVars, mode, runs, loopVars, batchVars, waveVars,
          preemptVars, unseen>>

Reset == -1
Rows == Stores \X Entities
Modes == {"idle", "head", "wave", "await", "batch", "drain", "window"}

-----------------------------------------------------------------------------
(* The world.                                                              *)

\* The revisions a row of s would run against, in the world or a snapshot.
Deps(s, e, r) == [st \in Reads[s] |-> r[st][e]]

\* The row exists: the entity carries every component of the query.
Matches(s, e, r) == \A st \in Reads[s] : r[st][e] # 0

\* One lock section writes: the rows in moved get a new revision, or none
\* if they are removed, and every row in logged is entered in the log.
Write(moved, removed, logged) ==
    /\ rev' = [st \in Stores |-> [e \in Entities |->
                  IF <<st, e>> \notin moved THEN rev[st][e]
                  ELSE IF <<st, e>> \in removed THEN 0 ELSE clock + 1]]
    /\ clock' = IF moved = {} THEN clock ELSE clock + 1
    /\ mark' = [st \in Stores |->
                  IF \E e \in Entities : <<st, e>> \in moved THEN clock + 1 ELSE mark[st]]
    /\ log' = IF logged = {} THEN log ELSE Append(log, logged)
    /\ UNCHANGED epoch

-----------------------------------------------------------------------------
(* BoxedSystem                                                             *)

\* The highest watermark among the stores of interest.
InterestMoved(s, m, p) == \E st \in Reads[s] : m[st] > p
Highest(S) == CHOOSE x \in S : \A y \in S : y <= x
InterestMark(s, m) == IF Reads[s] = {} THEN 0 ELSE Highest({m[st] : st \in Reads[s]})

\* peek_needs_planning
PeekNeedsPlanning(s, m) ==
    \/ forced[s] # {}
    \/ s \in Unbounded
    \/ planned[s] = Reset
    \/ InterestMoved(s, m, planned[s])

\* The entities of interest that were logged behind the system's cursor.
Logged(s, l) ==
    {e \in Entities : \E i \in (cursor[s] + 1)..Len(l) : \E st \in Reads[s] : <<st, e>> \in l[i]}

\* BoxedSystem::compact_plan_log for every system: unread rows are kept.
CompactSystems ==
    LET valid == {s \in Delta : cursorEpoch[s] = epoch}
    IN  /\ forced' = [s \in Systems |->
                         IF s \in valid /\ PeekNeedsPlanning(s, mark)
                         THEN forced[s] \cup Logged(s, log) ELSE forced[s]]
        /\ cursor' = [s \in Systems |-> IF s \in valid THEN 0 ELSE cursor[s]]
        /\ cursorEpoch' = [s \in Systems |-> IF s \in valid THEN epoch + 1 ELSE cursorEpoch[s]]

\* reset_full for every system
ResetAll ==
    /\ planned' = [s \in Systems |-> Reset]
    /\ cursorEpoch' = [s \in Systems |-> Reset]
    /\ UNCHANGED <<cursor, forced>>

-----------------------------------------------------------------------------
(* Invocations.                                                            *)

\* A run in flight: one row, or all the rows of a batched system.
RunOf(s, es, r) == [system |-> s, rows |-> es, deps |-> [e \in es |-> Deps(s, e, r)]]

\* The keys of its owner: a batch has none.
Keys(run) == IF run.system \in Batched THEN {} ELSE run.rows

\* Batches are admitted with an empty access list.
WriteSet(run) == IF run.system \in Batched THEN {} ELSE Mutates[run.system] \X run.rows
AccessSet(run) == IF run.system \in Batched THEN {} ELSE Reads[run.system] \X run.rows
IsWriter(run) == WriteSet(run) # {}

\* The rule that the reservations implement.
Conflicts(a, b) ==
    \/ WriteSet(a) \cap AccessSet(b) # {}
    \/ WriteSet(b) \cap AccessSet(a) # {}

\* The invocation is in flight already; a batch has one owner.
Duplicate(run) ==
    \E other \in runs :
        other.system = run.system /\ (run.system \in Batched \/ other.rows = run.rows)

\* Between two waves no snapshot is kept: it would pin the stores.
NoSnapshot ==
    [rev |-> [st \in Stores |-> [e \in Entities |-> 0]], mark |-> [st \in Stores |-> 0],
     log |-> <<>>, epoch |-> 0]

-----------------------------------------------------------------------------
Init ==
    /\ rev = [st \in Stores |-> [e \in Entities |-> 0]]
    /\ clock = 0 /\ mark = [st \in Stores |-> 0]
    /\ log = <<>> /\ epoch = 0
    /\ memo = [s \in Systems |-> [e \in Entities |-> NoMemo]]
    /\ planned = [s \in Systems |-> Reset]
    /\ cursor = [s \in Systems |-> 0]
    /\ cursorEpoch = [s \in Systems |-> Reset]
    /\ forced = [s \in Systems |-> {}]
    /\ mode = "idle" /\ runs = {}
    /\ needsPlan = TRUE /\ deferredConflicts = FALSE /\ quiet = FALSE
    /\ followup = FALSE /\ stale = FALSE
    /\ snap = NoSnapshot /\ toPlan = {}
    /\ allowPreempt = TRUE /\ waiting = FALSE /\ disturbances = 0
    /\ unseen = FALSE

-----------------------------------------------------------------------------
(* What happens around the phase.                                          *)

\* run_phase_streaming returns or is dropped, and its locals go with it.
LeavePhase ==
    /\ mode' = "idle"
    /\ needsPlan' = TRUE /\ deferredConflicts' = FALSE /\ quiet' = FALSE
    /\ allowPreempt' = TRUE /\ unseen' = FALSE

\* Inputs and other phases write while this phase is not running; for_each
\* and the hooks of another settler write at any time, and mutators in the
\* preemption window.  One row is inserted, replaced or removed.
WriteElsewhere ==
    /\ clock < MaxRevision
    /\ \E x \in Rows : \E removed \in {{}, {x}} :
          /\ removed # {} => rev[x[1]][x[2]] # 0
          /\ Write({x}, removed, {x})
    /\ unseen' = (mode # "idle")
    /\ UNCHANGED <<memo, systemVars, mode, runs, loopVars, batchVars, waveVars, preemptVars>>

\* force_replan for single rows: they join the next hint of their system, or
\* the system plans fully.
ForceRows(rows) ==
    LET reset == {s \in Systems \ Delta : \E e \in Entities : <<s, e>> \in rows}
    IN  /\ forced' = [s \in Systems |->
                         IF s \in Delta THEN forced[s] \cup {e \in Entities : <<s, e>> \in rows}
                         ELSE forced[s]]
        /\ planned' = [s \in Systems |-> IF s \in reset THEN Reset ELSE planned[s]]
        /\ cursorEpoch' = [s \in Systems |-> IF s \in reset THEN Reset ELSE cursorEpoch[s]]
        /\ UNCHANGED cursor

\* force_replan with the keys of a run: a batch has none, and resets its
\* system.
ForceReplan(run) ==
    IF Keys(run) # {} THEN ForceRows({run.system} \X Keys(run))
    ELSE /\ planned' = [planned EXCEPT ![run.system] = Reset]
         /\ cursorEpoch' = [cursorEpoch EXCEPT ![run.system] = Reset]
         /\ UNCHANGED <<cursor, forced>>

\* Invocations that lose their memo entry while the phase is not running:
\* heal_stale_ambient, and start_evaluation when an output was removed.
Invalidate(s, e) ==
    /\ mode = "idle" /\ memo[s][e] # NoMemo
    /\ disturbances < MaxDisturbances
    /\ disturbances' = disturbances + 1
    /\ memo' = [memo EXCEPT ![s][e] = NoMemo]
    /\ ForceRows({<<s, e>>})
    /\ UNCHANGED <<worldVars, mode, runs, loopVars, batchVars, waveVars, allowPreempt,
                   waiting, unseen>>

\* compact_plan_log at the start of a generation.
Compact ==
    /\ mode = "idle" /\ Len(log) > LogLimit
    /\ CompactSystems
    /\ log' = <<>> /\ epoch' = epoch + 1
    /\ UNCHANGED <<rev, clock, mark, memo, planned, mode, runs, loopVars, batchVars,
                   waveVars, preemptVars, unseen>>

\* run_evaluation reaches this phase, with or without preemptions left.
StartPhase ==
    /\ mode = "idle"
    /\ mode' = "head"
    /\ allowPreempt' \in BOOLEAN
    /\ UNCHANGED <<worldVars, memo, systemVars, runs, loopVars, batchVars, waveVars,
                   waiting, disturbances, unseen>>

\* A mutator registers for preemption; a dropped one deregisters.
Register ==
    /\ ~waiting
    /\ mode \notin {"idle", "window"}
    /\ disturbances < MaxDisturbances
    /\ disturbances' = disturbances + 1
    /\ waiting' = TRUE
    /\ UNCHANGED <<worldVars, memo, systemVars, mode, runs, loopVars, batchVars,
                   waveVars, allowPreempt, unseen>>

Deregister ==
    /\ waiting
    /\ waiting' = FALSE
    /\ UNCHANGED <<worldVars, memo, systemVars, mode, runs, loopVars, batchVars,
                   waveVars, allowPreempt, disturbances, unseen>>

\* The driver's future is dropped: EvaluationGuard::drop.
DropDriver ==
    /\ mode # "idle"
    /\ disturbances < MaxDisturbances
    /\ disturbances' = disturbances + 1
    /\ LeavePhase
    /\ runs' = {} /\ toPlan' = {} /\ snap' = NoSnapshot
    /\ followup' = FALSE /\ stale' = FALSE
    /\ ResetAll
    /\ UNCHANGED <<worldVars, memo, waiting>>

-----------------------------------------------------------------------------
(* The loop of run_phase_streaming.                                        *)

\* Tiered preemption: read-only runs are dropped, writers are drained.
Preempt ==
    /\ mode = "head" /\ allowPreempt /\ waiting
    /\ runs' = {run \in runs : IsWriter(run)}
    /\ mode' = "drain"
    /\ UNCHANGED <<worldVars, memo, systemVars, loopVars, batchVars, waveVars,
                   preemptVars, unseen>>

\* Readiness and the snapshot share one lock section.
Look ==
    /\ mode = "head" /\ ~(allowPreempt /\ waiting) /\ needsPlan
    /\ deferredConflicts' = FALSE
    /\ unseen' = FALSE
    /\ IF \E s \in Systems : PeekNeedsPlanning(s, mark)
       THEN /\ snap' = [rev |-> rev, mark |-> mark, log |-> log, epoch |-> epoch]
            /\ toPlan' = Systems
            /\ mode' = "wave" /\ quiet' = FALSE
       ELSE /\ mode' = "await" /\ quiet' = TRUE
            /\ UNCHANGED waveVars
    /\ UNCHANGED <<worldVars, memo, systemVars, runs, needsPlan, batchVars, preemptVars>>

NothingToPlan ==
    /\ mode = "head" /\ ~(allowPreempt /\ waiting) /\ ~needsPlan
    /\ mode' = "await" /\ quiet' = FALSE
    /\ UNCHANGED <<worldVars, memo, systemVars, runs, needsPlan, deferredConflicts,
                   batchVars, waveVars, preemptVars, unseen>>

SkipSystem(s) ==
    /\ mode = "wave" /\ s \in toPlan
    /\ ~PeekNeedsPlanning(s, snap.mark)
    /\ toPlan' = toPlan \ {s}
    /\ UNCHANGED <<worldVars, memo, systemVars, mode, runs, loopVars, batchVars, snap,
                   preemptVars, unseen>>

\* The entities a plan looks at: all of them, or the hint.
Candidates(s) ==
    IF s \in Delta /\ cursorEpoch[s] = snap.epoch
    THEN Logged(s, snap.log) \cup forced[s]
    ELSE Entities

\* plan_invocations: the candidates that match and are not memoized.
PlannedRows(s) ==
    {e \in Candidates(s) : Matches(s, e, snap.rev) /\ memo[s][e] # Deps(s, e, snap.rev)}

\* What a plan becomes: a run per row, or one for the batch.
PlannedRuns(s) ==
    IF s \in Batched
    THEN IF PlannedRows(s) = {} THEN {} ELSE {RunOf(s, PlannedRows(s), snap.rev)}
    ELSE {RunOf(s, {e}, snap.rev) : e \in PlannedRows(s)}

\* Mutant: a row that conflicts is dropped without a trace.
PlanSystemForgetful(s) ==
    LET fresh == {run \in PlannedRuns(s) : ~Duplicate(run)}
        refused == {run \in fresh : \E other \in runs : Conflicts(run, other)}
    IN  /\ mode = "wave" /\ s \in toPlan
        /\ PeekNeedsPlanning(s, snap.mark)
        /\ runs' = runs \cup (fresh \ refused)
        /\ deferredConflicts' = (deferredConflicts \/ refused # {})
        /\ forced' = [forced EXCEPT ![s] = {}]
        /\ planned' = [planned EXCEPT ![s] =
                          IF s \in Unbounded THEN @ ELSE InterestMark(s, snap.mark)]
        /\ cursor' = [cursor EXCEPT ![s] = IF s \in Delta THEN Len(snap.log) ELSE @]
        /\ cursorEpoch' = [cursorEpoch EXCEPT ![s] = IF s \in Delta THEN snap.epoch ELSE @]
        /\ toPlan' = toPlan \ {s}
        /\ UNCHANGED <<worldVars, memo, mode, needsPlan, quiet, batchVars, snap,
                       preemptVars, unseen>>

\* needs_planning, the plan, the cursor, and dispatch_rows: duplicates are
\* skipped, conflicts are forced back, the others are in flight.
PlanSystem(s) ==
    LET fresh == {run \in PlannedRuns(s) : ~Duplicate(run)}
        refused == {run \in fresh : \E other \in runs : Conflicts(run, other)}
        back == UNION {Keys(run) : run \in refused}
        full == refused # {} /\ s \notin Delta
    IN  /\ mode = "wave" /\ s \in toPlan
        /\ PeekNeedsPlanning(s, snap.mark)
        /\ runs' = runs \cup (fresh \ refused)
        /\ deferredConflicts' = (deferredConflicts \/ refused # {})
        /\ forced' = [forced EXCEPT ![s] = IF full THEN {} ELSE back]
        /\ planned' = [planned EXCEPT ![s] =
                          IF full THEN Reset
                          ELSE IF s \in Unbounded THEN @ ELSE InterestMark(s, snap.mark)]
        /\ cursor' = [cursor EXCEPT ![s] = IF s \in Delta THEN Len(snap.log) ELSE @]
        /\ cursorEpoch' = [cursorEpoch EXCEPT ![s] =
                              IF full THEN Reset ELSE IF s \in Delta THEN snap.epoch ELSE @]
        /\ toPlan' = toPlan \ {s}
        /\ UNCHANGED <<worldVars, memo, mode, needsPlan, quiet, batchVars, snap,
                       preemptVars, unseen>>

\* Mutant: rows put off by a conflict are planned again before any run is
\* awaited.
WaveDoneEager ==
    /\ mode = "wave" /\ toPlan = {}
    /\ mode' = (IF deferredConflicts THEN "head" ELSE "await") /\ snap' = NoSnapshot
    /\ UNCHANGED <<worldVars, memo, systemVars, runs, loopVars, batchVars, toPlan,
                   preemptVars, unseen>>

\* The wave is planned and its snapshot let go; the driver awaits a run.
WaveDone ==
    /\ mode = "wave" /\ toPlan = {}
    /\ mode' = "await" /\ snap' = NoSnapshot
    /\ UNCHANGED <<worldVars, memo, systemVars, runs, loopVars, batchVars, toPlan,
                   preemptVars, unseen>>

\* await_next_run: a mutator registered.
AwaitPreempt ==
    /\ mode = "await" /\ allowPreempt /\ waiting
    /\ needsPlan' = FALSE
    /\ mode' = "head"
    /\ UNCHANGED <<worldVars, memo, systemVars, runs, deferredConflicts, quiet,
                   batchVars, waveVars, preemptVars, unseen>>

\* Both queues are empty: the phase is complete.
Drained ==
    /\ mode = "await" /\ runs = {}
    /\ LeavePhase
    /\ UNCHANGED <<worldVars, memo, systemVars, runs, batchVars, waveVars, waiting,
                   disturbances>>

\* MemoEntry::is_current for every row of the run.
IsCurrent(run) == \A e \in run.rows : run.deps[e] = Deps(run.system, e, rev)

\* The rows a run wrote in place that are still there.
Written(run) == {x \in Mutates[run.system] \X run.rows : rev[x[1]][x[2]] # 0}

\* commit_system_run, stale: the commands are discarded, writes in place
\* stay and are reconciled.  The phase loop forces the row back.
CommitStale(run) ==
    /\ ~IsCurrent(run)
    /\ \E moved \in SUBSET Written(run) :
          /\ moved # {} => clock < MaxRevision
          /\ Write(moved, {}, Written(run))
          /\ followup' = (followup \/ moved # {})
    /\ stale' = TRUE
    /\ IF mode = "drain"
       THEN UNCHANGED systemVars
       ELSE ForceReplan(run)
    /\ UNCHANGED <<memo, disturbances>>

\* The memo entry of an accepted row takes over the revisions of its own
\* writes: refresh_written.
Refreshed(run, e) ==
    [st \in Reads[run.system] |->
        IF <<st, e>> \in Written(run) THEN rev'[st][e] ELSE run.deps[e][st]]

\* The memo table after the run is accepted, without the lost entries.
MemoAfter(run, lost) ==
    [s \in Systems |-> [e \in Entities |->
        IF <<s, e>> \in lost THEN NoMemo
        ELSE IF s = run.system /\ e \in run.rows THEN Refreshed(run, e)
        ELSE memo[s][e]]]

\* The outputs that differ move or go, and writes in place are reconciled.
\* An invocation whose output was removed by this one loses its memo entry
\* and is forced back (reconcile_removed_output_owners).
Accept(run, written, emitted, removed, lost) ==
    LET moved == written \cup emitted
    IN  /\ moved # {} => clock < MaxRevision
        /\ \A x \in removed : rev[x[1]][x[2]] # 0
        /\ lost # {} => removed # {}
        /\ \A x \in lost : \/ memo[x[1]][x[2]] # NoMemo
                           \/ x[1] = run.system /\ x[2] \in run.rows
        /\ disturbances' = disturbances + Cardinality(lost)
        /\ disturbances' <= MaxDisturbances
        /\ Write(moved, removed \ written, moved \cup Written(run))
        /\ memo' = MemoAfter(run, lost)
        /\ ForceRows(lost)
        /\ followup' = (followup \/ moved # {})
        /\ UNCHANGED stale

\* Accepted: the inputs are still the ones the run was planned from.
CommitFresh(run) ==
    /\ IsCurrent(run)
    /\ \E written \in SUBSET Written(run), emitted \in SUBSET (Emits[run.system] \X Entities) :
       \E removed \in {{}, emitted}, lost \in SUBSET (Systems \X Entities) :
          Accept(run, written, emitted, removed, lost)

\* A run finishes: the first of a batch, or one more that is ready.
Finish(run) ==
    /\ mode \in {"await", "batch", "drain"} /\ run \in runs
    /\ CommitStale(run) \/ CommitFresh(run)
    /\ runs' = runs \ {run}
    /\ mode' = IF mode = "drain" THEN "drain" ELSE "batch"
    /\ UNCHANGED <<loopVars, waveVars, allowPreempt, waiting, unseen>>

\* Mutant: conflicts that wait for this batch are forgotten.
EndBatchWithoutDeferred ==
    /\ mode = "batch"
    /\ needsPlan' = (quiet \/ followup \/ stale)
    /\ followup' = FALSE /\ stale' = FALSE /\ quiet' = FALSE
    /\ mode' = "head"
    /\ UNCHANGED <<worldVars, memo, systemVars, runs, deferredConflicts, waveVars,
                   preemptVars, unseen>>

\* Replan after a change, a stale run or a conflict; a quiet wave looks again
\* in any case.
EndBatch ==
    /\ mode = "batch"
    /\ needsPlan' = (quiet \/ followup \/ stale \/ deferredConflicts)
    /\ followup' = FALSE /\ stale' = FALSE /\ quiet' = FALSE
    /\ mode' = "head"
    /\ UNCHANGED <<worldVars, memo, systemVars, runs, deferredConflicts, waveVars,
                   preemptVars, unseen>>

OpenWindow ==
    /\ mode = "drain" /\ runs = {}
    /\ followup' = FALSE /\ stale' = FALSE
    /\ mode' = "window"
    /\ UNCHANGED <<worldVars, memo, systemVars, runs, loopVars, waveVars, preemptVars, unseen>>

\* The mutators are gone: the generation restarts, and every system plans
\* fully.
CloseWindow ==
    /\ mode = "window" /\ ~waiting
    /\ ResetAll
    /\ LeavePhase
    /\ UNCHANGED <<worldVars, memo, runs, batchVars, waveVars, waiting, disturbances>>

-----------------------------------------------------------------------------
Loop ==
    \/ Preempt \/ Look \/ NothingToPlan \/ WaveDone \/ AwaitPreempt \/ Drained
    \/ EndBatch \/ OpenWindow \/ CloseWindow
    \/ \E s \in Systems : SkipSystem(s) \/ PlanSystem(s)
    \/ \E run \in runs : Finish(run)

Next ==
    \/ WriteElsewhere \/ Compact \/ StartPhase \/ Register \/ Deregister \/ DropDriver
    \/ \E s \in Systems, e \in Entities : Invalidate(s, e)
    \/ Loop

Spec == Init /\ [][Next]_vars

\* Systems finish, the driver's caller is polled, and mutators reach their
\* boundary.
FairSpec == Spec /\ WF_vars(Loop) /\ WF_vars(Deregister /\ mode = "window")

-----------------------------------------------------------------------------
(* Properties.                                                             *)

DepsOf(s) == [Reads[s] -> Nat]
Revisions == [Stores -> [Entities -> Nat]]

WorldType ==
    /\ rev \in Revisions /\ clock \in Nat /\ mark \in [Stores -> Nat]
    /\ log \in Seq(SUBSET Rows) /\ epoch \in Nat
SystemType ==
    /\ planned \in [Systems -> Nat \cup {Reset}]
    /\ cursor \in [Systems -> Nat]
    /\ cursorEpoch \in [Systems -> Nat \cup {Reset}]
    /\ forced \in [Systems -> SUBSET Entities]
MemoType ==
    /\ DOMAIN memo = Systems
    /\ \A s \in Systems : memo[s] \in [Entities -> DepsOf(s) \cup {NoMemo}]
RunType ==
    \A run \in runs :
        /\ run.system \in Systems /\ run.rows \subseteq Entities
        /\ run.deps \in [run.rows -> DepsOf(run.system)]
LoopType == mode \in Modes /\ disturbances \in Nat /\ toPlan \subseteq Systems
FlagType ==
    /\ needsPlan \in BOOLEAN /\ deferredConflicts \in BOOLEAN /\ quiet \in BOOLEAN
    /\ followup \in BOOLEAN /\ stale \in BOOLEAN
    /\ allowPreempt \in BOOLEAN /\ waiting \in BOOLEAN /\ unseen \in BOOLEAN

\* Types of the planner's state.
TypeOK == WorldType /\ SystemType /\ MemoType /\ RunType /\ LoopType /\ FlagType

\* The row has to run.
Outdated(s, e) == Matches(s, e, rev) /\ memo[s][e] # Deps(s, e, rev)

\* The next plan of s looks at e.
WillPlan(s, e) ==
    /\ PeekNeedsPlanning(s, mark)
    /\ s \in Delta /\ cursorEpoch[s] = epoch => e \in Logged(s, log) \cup forced[s]

InFlight(s, e) == \E run \in runs : run.system = s /\ e \in run.rows

\* No row that has to run is forgotten: it is in flight, or the next plan of
\* its system looks at it, whatever was preempted, dropped, discarded as
\* stale, put off by a conflict, or compacted out of the log.  Rows of
\* batched systems are not covered (see PhaseEndsClean).
NoRowForgotten ==
    \A s \in Systems \ Batched, e \in Entities : Outdated(s, e) =>
        WillPlan(s, e) \/ InFlight(s, e) \/ mode \in {"drain", "window"}

\* A phase runs to quiescence: when it completes, every row is memoized,
\* unless somebody else wrote after its last look at the world.
PhaseEndsClean ==
    [][mode = "await" /\ mode' = "idle" /\ runs = {} /\ ~unseen =>
          \A s \in Systems, e \in Entities : ~Outdated(s, e)]_vars

\* A cursor of the current epoch is inside the log (compact_plan_log asserts
\* "planning cursor exceeds its log").
CursorInLog == \A s \in Systems : cursorEpoch[s] = epoch => cursor[s] <= Len(log)

\* Every phase ends.
PhaseEnds == mode # "idle" ~> mode = "idle"
=============================================================================
