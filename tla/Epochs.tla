------------------------------- MODULE Epochs -------------------------------
(***************************************************************************)
(* The control plane of a Bowl (crates/bowl/src/bowl.rs): who may evaluate, *)
(* which generation every caller waits for, when external input enters the *)
(* world, and when the bowl may call itself settled.                       *)
(*                                                                         *)
(* One action is one critical section of the state lock, which is never    *)
(* held across an await, or one atomic access outside of it.  Callers run  *)
(* settle() (alone, or after the ensure_evaluated of BoundEntity::take),   *)
(* writers insert, remove, despawn or mutate from outside.                 *)
(*                                                                         *)
(* The data plane is abstracted to what the protocol can tell apart: the   *)
(* world's revision counter, and the normal phases that have a runnable    *)
(* row: one that a write or a retired output made runnable ("dirty"), or   *)
(* one that only a removal did, which nothing asks a generation for        *)
(* ("late").  One ambient viewer, a system of Complete with a View, stands *)
(* for the memo entries the healing pass looks at; its own row is never    *)
(* removed.                                                                *)
(***************************************************************************)
EXTENDS Integers, Sequences, FiniteSets

CONSTANTS
    Callers,            \* tasks that call stir, scoop or take
    TakeCallers,        \* those that enter through BoundEntity::take
    Inserts,            \* plain external inserts, removes and despawns
    PreemptInserts,     \* the same with .preempting()
    Muts,               \* external Mut writes, preemptive by default
    DeferredMuts,       \* external Mut writes that wait for a boundary
    NoCaller,           \* the runner lock is free
    HasHooks,           \* some system has an on_settled hook
    HasSettlePhase,     \* some system runs in Phase::Settle
    HasViews,           \* ambient_healing_enabled
    PreemptionBudget,   \* preemptions one generation honours (4 in the code)
    MaxCommits,         \* bound: commits, in-place writes and cleanups that change the world
    MaxGenerations,     \* bound: generations a settler asks for
    MaxCalls,           \* bound: settles started
    MaxCancels          \* bound: futures dropped by their owner

Writers == Inserts \cup PreemptInserts \cup Muts \cup DeferredMuts
Inputs == Inserts \cup PreemptInserts

ASSUME CallersAssumption ==
    /\ IsFiniteSet(Callers)
    /\ NoCaller \notin Callers
    /\ TakeCallers \subseteq Callers
ASSUME WritersAssumption ==
    /\ Inputs \cap (Muts \cup DeferredMuts) = {}
    /\ Inserts \cap PreemptInserts = {}
    /\ Muts \cap DeferredMuts = {}
ASSUME BoundsAssumption ==
    /\ PreemptionBudget \in Nat
    /\ MaxCommits \in Nat
    /\ MaxGenerations \in Nat
    /\ MaxCalls \in Nat
    /\ MaxCancels \in Nat
ASSUME RegistryAssumption ==
    /\ HasHooks \in BOOLEAN
    /\ HasSettlePhase \in BOOLEAN
    /\ HasViews \in BOOLEAN

VARIABLES
    \* State: generations; 0 stands for None in running and pending
    completed, running, pending, next,
    \* State: inputs
    pendingInputs, deferred, inputSeq, deferredSettle,
    \* State: settle bookkeeping
    settling, settledRev, settleEpoch, normalClean,
    \* State and Inner: preemption
    window, restart, registered, startupRan,
    \* Inner: the runner lock, and the evaluation its holder drives
    runner, phase, preemptions, changed, unseen,
    \* the memo table: the viewer's entry in State, and in a caller's hands
    memo, held,
    \* the world
    revision, dirty, late, applied, viewStale,
    \* the tasks: where each is, the generation it waits for, its watermark
    pc, target, watermark, inEpoch, revBefore, wpc, gen,
    \* bounds
    commits, calls, cancels,
    \* history: what a settled read, Startup, healing and reaping owe
    owed, startupOwed, outEpoch

genVars == <<completed, running, pending, next>>
inVars == <<pendingInputs, deferred, inputSeq, deferredSettle>>
setVars == <<settling, settledRev, settleEpoch, normalClean>>
preVars == <<window, restart, registered, startupRan>>
runVars == <<runner, phase, preemptions, changed, unseen>>
memoVars == <<memo, held>>
worldVars == <<revision, dirty, late, applied, viewStale>>
taskVars == <<pc, target, watermark, inEpoch, revBefore>>
writerVars == <<wpc, gen>>
boundVars == <<commits, calls, cancels>>
histVars == <<owed, startupOwed, outEpoch>>

\* What the steps of a caller leave alone most often.
sysVars == <<genVars, inVars, setVars, preVars, runVars, memoVars, worldVars>>
locals == <<target, watermark, inEpoch, revBefore>>
restVars == <<writerVars, boundVars, histVars>>
exceptPc == <<sysVars, locals, restVars>>

vars == <<genVars, inVars, setVars, preVars, runVars, memoVars, worldVars,
          taskVars, writerVars, boundVars, histVars>>

-----------------------------------------------------------------------------
(* Program counters.                                                       *)

\* Inside run_evaluation, with the EvaluationGuard alive.
Evaluating == {"phase", "openWindow", "windowWait", "closeWindow"}

\* Holding the runner lock.
Driving == Evaluating \cup {"start", "complete", "release", "dropRun", "dropRunner"}

\* Between two awaits a future cannot be dropped; everywhere else it can.
Cancellable == Evaluating \cup
    {"start", "complete", "fast", "enter", "loop", "ensure", "tryRun",
     "genReg", "genWait", "check", "heal", "hooks", "hooksRun", "hooksDone", "hooksMore",
     "settle", "settleRun", "settleCommit", "settleDone", "healAgain", "followup", "publish",
     "enqueue", "read"}

PCs == Cancellable \cup Driving \cup {"idle", "exit", "dropEpoch"}
WPCs == {"idle", "try", "wait", "done", "gone"}

NoEntry == -1           \* the viewer has no memo entry
Phases == {"Startup", "Evaluate", "Complete"}
NormalPhases == {"Evaluate", "Complete"}

\* What can come behind the last plan of a running phase: rows that a write
\* or a removal enables, and a move of the store the viewer looks at.
Kinds == {"write", "removal", "view"}

-----------------------------------------------------------------------------
(* Helpers that the lock sections share.                                   *)

Max2(a, b) == IF a > b THEN a ELSE b

GetOrInsert(p, n) == IF p = 0 THEN n ELSE p

Goto(c, l) == pc' = [pc EXCEPT ![c] = l]

\* A local of a caller; it goes back to 0 when its frame returns.
Set(f, c, v) == [f EXCEPT ![c] = v]

\* The locals of run_evaluation die with it.
EndEvaluation ==
    phase' = "Startup" /\ preemptions' = 0 /\ changed' = FALSE /\ unseen' = {}

\* Mutant: the fast path forgets the pending generation.
QuiescentIgnoringPending ==
    /\ running = 0
    /\ revision = settledRev

\* bowl_is_settled
Quiescent ==
    /\ pending = 0
    /\ running = 0
    /\ revision = settledRev

\* The deferred inputs whose arrival tag a watermark covers.
Promotable(w) == {i \in 1..Len(deferred) : deferred[i].tag <= w}

\* promote_deferred_inputs, when it promotes something.
Promote(w) ==
    LET n == Cardinality(Promotable(w))
    IN  /\ n > 0
        /\ pendingInputs' = pendingInputs \cup {deferred[i].input : i \in 1..n}
        /\ deferred' = SubSeq(deferred, n + 1, Len(deferred))
        /\ pending' = GetOrInsert(pending, next)

\* Mutant: only the registered, preemptive, writers are woken.
WakeRegistered ==
    wpc' = [w \in Writers |-> IF wpc[w] = "wait" /\ w \in registered THEN "try" ELSE wpc[w]]

\* Draining boundary_waiters: every sleeping writer looks again.
WakeBoundary == wpc' = [w \in Writers |-> IF wpc[w] = "wait" THEN "try" ELSE wpc[w]]

\* Mutant: waiters for the generation itself sleep on.
WakeBelow(g, c, l) ==
    pc' = [d \in Callers |->
              IF d = c THEN l
              ELSE IF pc[d] = "genWait" /\ target[d] < g THEN "ensure"
              ELSE pc[d]]

\* Sending to the generation waiters whose target is at most g.
WakeUpTo(g, c, l) ==
    pc' = [d \in Callers |->
              IF d = c THEN l
              ELSE IF pc[d] = "genWait" /\ target[d] <= g THEN "ensure"
              ELSE pc[d]]

\* The revision moves, and with it perhaps the store the viewer looks at.
MoveStores ==
    /\ revision' = revision + 1
    /\ viewStale' \in {viewStale, viewStale \/ HasViews}

\* A tracked write makes rows of any normal phase runnable.
MoveWorld ==
    /\ MoveStores
    /\ \E enabled \in SUBSET NormalPhases : dirty' = dirty \cup enabled
    /\ UNCHANGED late

\* A removal does so too: for a TrackedView, a Without or an outer join.
RemoveFromWorld ==
    /\ MoveStores
    /\ \E enabled \in SUBSET NormalPhases : late' = late \cup enabled
    /\ UNCHANGED dirty

Moved(kind) == {kind} \cup (IF viewStale' THEN {"view"} ELSE {})

\* The caller writes without the runner lock: a phase that another caller
\* drives may have planned for the last time.
BehindDriver(kinds) ==
    /\ unseen' = IF running = 0 THEN unseen ELSE unseen \cup kinds
    /\ UNCHANGED <<runner, phase, preemptions, changed>>

\* What a phase leaves runnable when it ends is what it could not plan.
Converged == (phase \in dirty => "write" \in unseen) /\ (phase \in late => "removal" \in unseen)

-----------------------------------------------------------------------------
Init ==
    /\ completed = 0 /\ running = 0 /\ next = 1
    /\ pending = 1      \* register_system enqueues the first generation
    /\ pendingInputs = {} /\ deferred = <<>> /\ inputSeq = 0
    /\ deferredSettle = FALSE
    /\ settling = 0 /\ settledRev = 0 /\ settleEpoch = 0 /\ normalClean = TRUE
    /\ window = FALSE /\ restart = FALSE /\ registered = {} /\ startupRan = FALSE
    /\ runner = NoCaller /\ phase = "Startup" /\ preemptions = 0 /\ changed = FALSE
    /\ unseen = {}
    /\ memo = NoEntry /\ held = [c \in Callers |-> NoEntry]
    /\ revision = 0 /\ dirty = {} /\ late = {} /\ applied = {} /\ viewStale = FALSE
    /\ pc = [c \in Callers |-> "idle"]
    /\ target = [c \in Callers |-> 0]
    /\ watermark = [c \in Callers |-> 0]
    /\ inEpoch = [c \in Callers |-> FALSE]
    /\ revBefore = [c \in Callers |-> 0]
    /\ wpc = [w \in Writers |-> "idle"]
    /\ gen = [w \in Writers |-> 0]
    /\ commits = 0 /\ calls = 0 /\ cancels = 0
    /\ owed = [c \in Callers |-> {}]
    /\ startupOwed = TRUE /\ outEpoch = NoEntry

-----------------------------------------------------------------------------
(* settle(): the epoch loop of one caller.                                 *)

\* A scoop or stir starts; what was accepted before it must be in its result.
CallSettle(c) ==
    /\ pc[c] = "idle" /\ c \notin TakeCallers
    /\ calls < MaxCalls
    /\ calls' = calls + 1
    /\ owed' = Set(owed, c, {w \in Inputs : wpc[w] = "done"})
    /\ Goto(c, "fast")
    /\ UNCHANGED <<sysVars, locals, writerVars, commits, cancels, startupOwed,
                   outEpoch>>

\* BoundEntity::take waits for the generation of its own insert first,
\* outside of any epoch.
CallTake(c) ==
    /\ pc[c] = "idle" /\ c \in TakeCallers
    /\ calls < MaxCalls
    /\ \E w \in Inputs :
          /\ wpc[w] = "done"
          /\ target' = Set(target, c, gen[w])
    /\ calls' = calls + 1
    /\ owed' = Set(owed, c, {w \in Inputs : wpc[w] = "done"})
    /\ Goto(c, "ensure")
    /\ UNCHANGED <<sysVars, watermark, inEpoch, revBefore, writerVars, commits,
                   cancels, startupOwed, outEpoch>>

\* The settled fast path: nothing to drive, no epoch to freeze.
FastPath(c) ==
    /\ pc[c] = "fast"
    /\ Goto(c, IF Quiescent /\ deferred = <<>> THEN "read" ELSE "enter")
    /\ UNCHANGED exceptPc

\* EpochGuard::enter
EnterEpoch(c) ==
    /\ pc[c] = "enter"
    /\ settling' = settling + 1
    /\ watermark' = Set(watermark, c, inputSeq)
    /\ inEpoch' = Set(inEpoch, c, TRUE)
    /\ Goto(c, "loop")
    /\ UNCHANGED <<genVars, inVars, settledRev, settleEpoch, normalClean,
                   preVars, runVars, memoVars, worldVars, target, revBefore,
                   restVars>>

\* Mutant: everything deferred is promoted, whatever its tag.
BoundaryPromoteAll(c) ==
    /\ pc[c] \in {"loop", "check"} /\ Quiescent
    /\ Promote(inputSeq)
    /\ Goto(c, "loop")
    /\ UNCHANGED <<completed, running, next, inputSeq, deferredSettle, setVars,
                   preVars, runVars, memoVars, worldVars, locals, restVars>>

\* Quiescent at the head or the middle of the loop: an epoch boundary.
\* Inputs this settle is responsible for become the next epoch.
BoundaryPromote(c) ==
    /\ pc[c] \in {"loop", "check"} /\ Quiescent
    /\ Promote(watermark[c])
    /\ Goto(c, "loop")
    /\ UNCHANGED <<completed, running, next, inputSeq, deferredSettle, setVars,
                   preVars, runVars, memoVars, worldVars, locals, restVars>>

BoundaryReturn(c) ==
    /\ pc[c] \in {"loop", "check"} /\ Quiescent
    /\ Promotable(watermark[c]) = {}
    /\ Goto(c, "exit")
    /\ UNCHANGED exceptPc

\* The generation to wait for: pending, or else running, or else completed.
PickTarget(c) ==
    /\ pc[c] = "loop" /\ ~Quiescent
    /\ target' = [target EXCEPT ![c] =
                     IF pending # 0 THEN pending
                     ELSE IF running # 0 THEN running ELSE completed]
    /\ Goto(c, "ensure")
    /\ UNCHANGED <<sysVars, watermark, inEpoch, revBefore, restVars>>

\* Mutant: a generation that changed facts counts as clean.
CheckPending(c) ==
    /\ pc[c] = "check" /\ ~Quiescent
    /\ Goto(c, IF pending = 0 /\ running = 0 THEN "heal" ELSE "enqueue")
    /\ UNCHANGED exceptPc

\* After ensure_evaluated: finish the settle only from a clean fixed point.
CheckClean(c) ==
    /\ pc[c] = "check" /\ ~Quiescent
    /\ Goto(c, IF pending = 0 /\ running = 0 /\ normalClean THEN "heal" ELSE "enqueue")
    /\ UNCHANGED exceptPc

\* enqueue_next_generation
Enqueue(c) ==
    /\ pc[c] = "enqueue"
    /\ pending # 0 \/ next <= MaxGenerations
    /\ pending' = GetOrInsert(pending, next)
    /\ Goto(c, "loop")
    /\ UNCHANGED <<completed, running, next, inVars, setVars, preVars, runVars,
                   memoVars, worldVars, locals, restVars>>

\* The viewer committed in this healing epoch, and its View moved since.
Victim == HasViews /\ memo = settleEpoch /\ viewStale

\* heal_stale_ambient, before the hooks and again after the settle phase.
Heal(c) ==
    /\ pc[c] \in {"heal", "healAgain"} /\ Victim
    /\ memo' = NoEntry
    /\ dirty' = dirty \cup {"Complete"}
    /\ BehindDriver({"write"})
    /\ Goto(c, "enqueue")
    /\ UNCHANGED <<genVars, inVars, setVars, preVars, held, revision, late,
                   applied, viewStale, locals, restVars>>

NothingToHeal(c) ==
    /\ pc[c] \in {"heal", "healAgain"} /\ ~Victim
    /\ Goto(c, IF pc[c] = "heal" THEN "hooks" ELSE "followup")
    /\ UNCHANGED exceptPc

\* run_settled_hooks takes the memo table out of the state ...
HooksTake(c) ==
    /\ pc[c] = "hooks"
    /\ IF HasHooks
       THEN /\ held' = Set(held, c, memo)
            /\ memo' = NoEntry
            /\ Goto(c, "hooksRun")
       ELSE /\ UNCHANGED memoVars
            /\ Goto(c, "settle")
    /\ UNCHANGED <<genVars, inVars, setVars, preVars, runVars, worldVars,
                   locals, restVars>>

\* ... runs the hooks and commits their commands, which may enable more work ...
HooksCommit(c) ==
    /\ pc[c] = "hooksRun"
    /\ \/ /\ Goto(c, "hooksDone")
          /\ UNCHANGED <<revision, dirty, late, viewStale, commits, runVars>>
       \/ /\ commits < MaxCommits
          /\ commits' = commits + 1
          /\ MoveWorld /\ BehindDriver(Moved("write"))
          /\ Goto(c, "hooksMore")
    /\ UNCHANGED <<genVars, inVars, setVars, preVars, memoVars,
                   applied, locals, writerVars, calls, cancels, owed,
                   startupOwed, outEpoch>>

\* ... and puts the table back, over whatever the state holds by then.
HooksRestore(c) ==
    /\ pc[c] \in {"hooksDone", "hooksMore"}
    /\ memo' = held[c]
    /\ held' = Set(held, c, NoEntry)
    /\ Goto(c, IF pc[c] = "hooksMore" THEN "enqueue" ELSE "settle")
    /\ UNCHANGED <<genVars, inVars, setVars, preVars, runVars, worldVars,
                   locals, restVars>>

\* run_settle_phase: the same, for the systems of Phase::Settle.
SettleTake(c) ==
    /\ pc[c] = "settle"
    /\ IF HasSettlePhase
       THEN /\ held' = Set(held, c, memo)
            /\ memo' = NoEntry
            /\ revBefore' = Set(revBefore, c, revision)
            /\ Goto(c, "settleRun")
       ELSE /\ UNCHANGED <<memoVars, revBefore>>
            /\ Goto(c, "publish")
    /\ UNCHANGED <<genVars, inVars, setVars, preVars, runVars, worldVars,
                   target, watermark, inEpoch, restVars>>

\* The settle systems plan from a snapshot of its own lock section.
SettlePlan(c) ==
    /\ pc[c] = "settleRun"
    /\ Goto(c, "settleCommit")
    /\ UNCHANGED exceptPc

\* A settle commit removes facts now, and queues its inserts for the next
\* run.  Only a removal that retires memo entries or outputs reopens the
\* normal phases; the rows of any other wait for the next generation.
SettleCommit(c) ==
    /\ pc[c] = "settleCommit"
    /\ \/ UNCHANGED <<revision, dirty, late, viewStale, normalClean, deferredSettle,
                       commits, runVars>>
       \/ /\ commits < MaxCommits
          /\ commits' = commits + 1
          /\ deferredSettle' = TRUE
          /\ UNCHANGED <<revision, dirty, late, viewStale, normalClean, runVars>>
       \/ /\ commits < MaxCommits
          /\ commits' = commits + 1
          /\ \/ MoveWorld /\ BehindDriver(Moved("write")) /\ normalClean' = FALSE
             \/ RemoveFromWorld /\ BehindDriver(Moved("removal")) /\ UNCHANGED normalClean
          /\ UNCHANGED deferredSettle
    /\ Goto(c, "settleDone")
    /\ UNCHANGED <<genVars, pendingInputs, deferred, inputSeq, settling,
                   settledRev, settleEpoch, preVars, memoVars, applied,
                   locals, writerVars, calls, cancels, histVars>>

\* Mutant: the reap is not followed by a second healing pass.
SettleRestoreUnhealed(c) ==
    /\ pc[c] = "settleDone"
    /\ memo' = held[c]
    /\ held' = Set(held, c, NoEntry)
    /\ Goto(c, "publish")
    /\ revBefore' = Set(revBefore, c, 0)
    /\ UNCHANGED <<genVars, inVars, setVars, preVars, runVars, worldVars,
                   target, watermark, inEpoch, restVars>>

\* A settle phase that moved the revision offers healing one more look.
SettleRestore(c) ==
    /\ pc[c] = "settleDone"
    /\ memo' = held[c]
    /\ held' = Set(held, c, NoEntry)
    /\ Goto(c, IF revision # revBefore[c] THEN "healAgain" ELSE "publish")
    /\ revBefore' = Set(revBefore, c, 0)
    /\ UNCHANGED <<genVars, inVars, setVars, preVars, runVars, worldVars,
                   target, watermark, inEpoch, restVars>>

\* A reap that retired normal output gets one more normal generation.
Followup(c) ==
    /\ pc[c] = "followup"
    /\ Goto(c, IF normalClean THEN "publish" ELSE "enqueue")
    /\ UNCHANGED exceptPc

PublishPromote(c) ==
    /\ pc[c] = "publish"
    /\ Promote(watermark[c])
    /\ Goto(c, "loop")
    /\ UNCHANGED <<completed, running, next, inputSeq, deferredSettle, setVars,
                   preVars, runVars, memoVars, worldVars, locals, restVars>>

\* Settle completion: publish_settled_revision closes the healing epoch.
\* Nothing is checked again since CheckClean.
Publish(c) ==
    /\ pc[c] = "publish"
    /\ Promotable(watermark[c]) = {}
    /\ settledRev' = revision
    /\ settleEpoch' = IF settledRev # revision THEN settleEpoch + 1 ELSE settleEpoch
    /\ Goto(c, "exit")
    /\ UNCHANGED <<genVars, inVars, settling, normalClean, preVars, runVars,
                   memoVars, worldVars, locals, restVars>>

\* Drop of the EpochGuard: the last settler promotes everything left, and
\* sleeping mutators get their boundary.
LeaveEpoch(c, l) ==
    /\ settling' = settling - 1
    /\ inEpoch' = Set(inEpoch, c, FALSE)
    /\ watermark' = Set(watermark, c, 0)
    /\ IF settling = 1 /\ deferred # <<>>
       THEN Promote(inputSeq)
       ELSE UNCHANGED <<pendingInputs, deferred, pending>>
    /\ WakeBoundary
    /\ Goto(c, l)
    /\ UNCHANGED <<completed, running, next, inputSeq, deferredSettle, settledRev,
                   settleEpoch, normalClean, preVars, runVars, memoVars, worldVars,
                   target, revBefore, gen, boundVars, histVars>>

ExitEpoch(c) == pc[c] = "exit" /\ LeaveEpoch(c, "read")

\* scoop reads one snapshot of the world; a take may find its entity gone.
Read(c) ==
    /\ pc[c] = "read"
    /\ Goto(c, "idle")
    /\ owed' = Set(owed, c, {})
    /\ UNCHANGED <<sysVars, locals, writerVars, boundVars, startupOwed,
                   outEpoch>>

\* Mutant: nobody is told of the write.
ForEachUntold(c) ==
    /\ pc[c] = "read" /\ c \notin TakeCallers
    /\ commits < MaxCommits
    /\ commits' = commits + 1
    /\ MoveWorld /\ BehindDriver(Moved("write"))
    /\ Goto(c, "idle")
    /\ owed' = Set(owed, c, {})
    /\ UNCHANGED <<genVars, inVars, setVars, preVars, memoVars, applied, locals,
                   writerVars, calls, cancels, startupOwed, outEpoch>>

\* scoop of a Cow: for_each writes rows in place under the state lock, at no
\* boundary, also while another caller drives a generation.
ForEach(c) ==
    /\ pc[c] = "read" /\ c \notin TakeCallers
    /\ commits < MaxCommits
    /\ commits' = commits + 1
    /\ MoveWorld /\ BehindDriver(Moved("write"))
    /\ normalClean' = FALSE
    /\ pending' = GetOrInsert(pending, next)
    /\ Goto(c, "idle")
    /\ owed' = Set(owed, c, {})
    /\ UNCHANGED <<completed, running, next, inVars, settling, settledRev, settleEpoch,
                   preVars, memoVars, applied, locals, writerVars, calls, cancels,
                   startupOwed, outEpoch>>

\* take, drain, or a read that cleans up bound entities dropped before it:
\* entities go with their outputs.  The removal asks for no generation, and a
\* bowl that was settled is published as settled again.
Take(c) ==
    /\ pc[c] = "read"
    /\ commits < MaxCommits
    /\ commits' = commits + 1
    /\ RemoveFromWorld /\ BehindDriver(Moved("removal"))
    /\ IF Quiescent
       THEN settledRev' = revision + 1 /\ settleEpoch' = settleEpoch + 1
       ELSE UNCHANGED <<settledRev, settleEpoch>>
    /\ Goto(c, "idle")
    /\ owed' = Set(owed, c, {})
    /\ UNCHANGED <<genVars, inVars, settling, normalClean, preVars,
                   memoVars, applied, locals, writerVars, calls, cancels,
                   startupOwed, outEpoch>>

-----------------------------------------------------------------------------
(* ensure_evaluated and run_evaluation: the single-flight loop.            *)

\* Mutant: the target itself is not enough (> for >=).
EnsurePast(c) ==
    /\ pc[c] = "ensure"
    /\ Goto(c, IF completed <= target[c] THEN "tryRun"
               ELSE IF inEpoch[c] THEN "check" ELSE "fast")
    /\ target' = IF completed <= target[c] THEN target ELSE Set(target, c, 0)
    /\ UNCHANGED <<sysVars, watermark, inEpoch, revBefore, restVars>>

Ensure(c) ==
    /\ pc[c] = "ensure"
    /\ Goto(c, IF completed < target[c] THEN "tryRun"
               ELSE IF inEpoch[c] THEN "check" ELSE "fast")
    /\ target' = IF completed < target[c] THEN target ELSE Set(target, c, 0)
    /\ UNCHANGED <<sysVars, watermark, inEpoch, revBefore, restVars>>

\* runner.try_lock()
TryRunner(c) ==
    /\ pc[c] = "tryRun"
    /\ IF runner = NoCaller
       THEN runner' = c /\ Goto(c, "start")
       ELSE UNCHANGED runner /\ Goto(c, "genReg")
    /\ UNCHANGED <<genVars, inVars, setVars, preVars, phase, preemptions,
                   changed, unseen, memoVars, worldVars, locals, restVars>>

\* wait_for_generation
WaitGeneration(c) ==
    /\ pc[c] = "genReg"
    /\ Goto(c, IF completed >= target[c] THEN "ensure" ELSE "genWait")
    /\ UNCHANGED exceptPc

\* The pending generation runs, and the one after it is next.
AdvanceGeneration ==
    /\ running' = pending
    /\ next' = pending + 1
    /\ pending' = 0

\* start_evaluation: deferred settle output and pending input enter the
\* world, and the generation takes the memo table.  The first generation
\* does not consume a restart: the `||` never gets to it.
StartEvaluation(c) ==
    /\ pc[c] = "start" /\ pending # 0
    /\ AdvanceGeneration
    /\ applied' = applied \cup pendingInputs
    /\ pendingInputs' = {}
    /\ deferredSettle' = FALSE
    /\ IF pendingInputs # {} \/ deferredSettle
       THEN MoveWorld
       ELSE UNCHANGED <<revision, dirty, late, viewStale>>
    /\ normalClean' = FALSE
    /\ phase' = IF ~startupRan \/ restart THEN "Startup" ELSE "Evaluate"
    /\ startupRan' = TRUE
    /\ restart' = (restart /\ ~startupRan)
    /\ window' = FALSE
    /\ preemptions' = 0
    /\ changed' = FALSE /\ unseen' = {}
    /\ held' = Set(held, c, memo)
    /\ memo' = NoEntry
    /\ Goto(c, "phase")
    /\ UNCHANGED <<completed, deferred, inputSeq, settling, settledRev,
                   settleEpoch, registered, runner, locals, writerVars,
                   boundVars, owed, startupOwed, outEpoch>>

\* Somebody else completed the work in the meantime.
NothingPending(c) ==
    /\ pc[c] = "start" /\ pending = 0
    /\ Goto(c, "release")
    /\ UNCHANGED exceptPc

\* The viewer's row commits: its memo entry is stamped with the epoch.  If
\* the store it looks at moved behind a plan, it may come from that plan.
ViewerCommit(c) ==
    /\ HasViews /\ phase = "Complete"
    /\ held' = Set(held, c, settleEpoch)
    /\ outEpoch' = settleEpoch
    /\ viewStale' \in IF "view" \in unseen THEN BOOLEAN ELSE {FALSE}

\* A viewer without a memo entry is due until it commits.
ViewerDue(c) == HasViews /\ phase = "Complete" /\ held[c] = NoEntry

\* One accepted commit of the running phase.  A quiet commit re-emits what
\* was there (equal fingerprints keep their revisions) ...
QuietCommit(c) ==
    /\ pc[c] = "phase" /\ phase \in dirty \cup late
    /\ dirty' = dirty \ {phase} /\ late' = late \ {phase}
    /\ \/ ViewerCommit(c)
       \/ ~ViewerDue(c) /\ UNCHANGED <<held, outEpoch, viewStale>>
    /\ UNCHANGED <<genVars, inVars, setVars, preVars, runVars, memo, revision, applied,
                   taskVars, writerVars, boundVars, owed, startupOwed>>

\* ... and a loud one moves the world, and can make rows of any normal phase
\* runnable.  It is the viewer's, or it leaves the viewer's row as it was,
\* due or in flight, and may move the store it looks at.
LoudCommit(c) ==
    /\ pc[c] = "phase"
    /\ phase \in dirty \cup late \cup {"Startup"}
    /\ commits < MaxCommits
    /\ commits' = commits + 1
    /\ revision' = revision + 1
    /\ changed' = TRUE
    /\ \/ /\ ViewerCommit(c)
          /\ \E enabled \in SUBSET NormalPhases : dirty' = (dirty \ {phase}) \cup enabled
          /\ late' = late \ {phase}
          /\ unseen' = {}
       \/ /\ \E enabled \in SUBSET NormalPhases : dirty' = (dirty \ {phase}) \cup enabled
          /\ late' = late \ {phase}
          /\ ViewerDue(c) => phase \in dirty'
          /\ viewStale' \in {viewStale, viewStale \/ HasViews}
          /\ unseen' = Moved("write") \ {"write"}
          /\ UNCHANGED <<held, outEpoch>>
    /\ UNCHANGED <<genVars, inVars, setVars, preVars, runner, phase, preemptions, memo,
                   applied, taskVars, writerVars, calls, cancels, owed, startupOwed>>

\* Mid-phase preemption is honoured up to the budget.
AllowPreempt == preemptions < PreemptionBudget

\* Phase::ordered
NextPhase(p) == IF p = "Startup" THEN "Evaluate" ELSE "Complete"

\* The phase converged, or planned for the last time before somebody else
\* wrote, and no mutator asked for a boundary.
PhaseDone(c) ==
    /\ pc[c] = "phase" /\ Converged
    /\ AllowPreempt => registered = {}
    /\ phase' = NextPhase(phase) /\ unseen' = {}
    /\ startupOwed' = (startupOwed /\ phase # "Startup")
    /\ Goto(c, IF phase = "Complete" THEN "complete" ELSE "phase")
    /\ UNCHANGED <<genVars, inVars, setVars, preVars, runner, preemptions,
                   changed, memoVars, worldVars, locals, writerVars, boundVars,
                   owed, outEpoch>>

\* Tiered preemption: readers are dropped, so their rows stay dirty; the
\* writers that are drained commit before this step.
Preempt(c) ==
    /\ pc[c] = "phase" /\ AllowPreempt /\ registered # {}
    /\ Goto(c, "openWindow")
    /\ UNCHANGED exceptPc

\* open_preempt_window
OpenWindow(c) ==
    /\ pc[c] = "openWindow"
    /\ window' = TRUE
    /\ WakeBoundary
    /\ Goto(c, "windowWait")
    /\ UNCHANGED <<genVars, inVars, setVars, restart, registered, startupRan,
                   runVars, memoVars, worldVars, locals, gen, boundVars,
                   histVars>>

WindowDrained(c) ==
    /\ pc[c] = "windowWait" /\ registered = {}
    /\ Goto(c, "closeWindow")
    /\ UNCHANGED exceptPc

\* Mutant: the restart skips Startup.
CloseWindowIntoEvaluate(c) ==
    /\ pc[c] = "closeWindow"
    /\ window' = FALSE
    /\ restart' = FALSE
    /\ preemptions' = preemptions + 1 /\ unseen' = {}
    /\ phase' = "Evaluate"
    /\ Goto(c, "phase")
    /\ UNCHANGED <<genVars, inVars, setVars, registered, startupRan, runner,
                   changed, memoVars, worldVars, locals, restVars>>

\* Back in run_evaluation the generation restarts through Startup.  No
\* writer can reach a boundary between the two lock sections merged here.
CloseWindow(c) ==
    /\ pc[c] = "closeWindow"
    /\ window' = FALSE
    /\ restart' = FALSE
    /\ preemptions' = preemptions + 1 /\ unseen' = {}
    /\ phase' = "Startup"
    /\ Goto(c, "phase")
    /\ UNCHANGED <<genVars, inVars, setVars, registered, startupRan, runner,
                   changed, memoVars, worldVars, locals, restVars>>

\* Mutant: the completed generation is still marked as running.
CompleteStillRunning(c) ==
    /\ pc[c] = "complete"
    /\ memo' = held[c]
    /\ held' = Set(held, c, NoEntry)
    /\ normalClean' = ~changed
    /\ completed' = running
    /\ EndEvaluation
    /\ WakeBoundary
    /\ WakeUpTo(running, c, "release")
    /\ UNCHANGED <<running, pending, next, inVars, settling, settledRev,
                   settleEpoch, preVars, runner, worldVars, locals, gen,
                   boundVars, histVars>>

\* The generation completes; satisfied waiters and boundary waiters wake.
CompleteGeneration(c) ==
    /\ pc[c] = "complete"
    /\ memo' = held[c]
    /\ held' = Set(held, c, NoEntry)
    /\ normalClean' = ~changed
    /\ completed' = running
    /\ running' = 0
    /\ EndEvaluation
    /\ WakeBoundary
    /\ WakeUpTo(running, c, "release")
    /\ UNCHANGED <<pending, next, inVars, settling, settledRev, settleEpoch,
                   preVars, runner, worldVars, locals, gen, boundVars, histVars>>

ReleaseRunner(c) ==
    /\ pc[c] = "release"
    /\ runner' = NoCaller
    /\ Goto(c, "ensure")
    /\ UNCHANGED <<genVars, inVars, setVars, preVars, phase, preemptions,
                   changed, unseen, memoVars, worldVars, locals, restVars>>

-----------------------------------------------------------------------------
(* External writers.                                                       *)

\* insert_inner, remove_component_inner, despawn_inner outside of any epoch:
\* the input joins the pending generation.
InsertIdle(w) ==
    /\ w \in Inputs /\ wpc[w] = "idle" /\ settling = 0
    /\ pendingInputs' = pendingInputs \cup {w}
    /\ pending' = GetOrInsert(pending, next)
    /\ gen' = [gen EXCEPT ![w] = GetOrInsert(pending, next)]
    /\ wpc' = [wpc EXCEPT ![w] = "done"]
    /\ UNCHANGED <<completed, running, next, deferred, inputSeq, deferredSettle, setVars,
                   preVars, runVars, memoVars, worldVars, taskVars, boundVars, histVars>>

\* During an epoch it waits for the next one, and records a generation that
\* is already complete.
InsertDeferred(w) ==
    /\ w \in Inserts /\ wpc[w] = "idle" /\ settling # 0
    /\ inputSeq' = inputSeq + 1
    /\ deferred' = Append(deferred, [tag |-> inputSeq + 1, input |-> w])
    /\ gen' = [gen EXCEPT ![w] = completed]
    /\ wpc' = [wpc EXCEPT ![w] = "done"]
    /\ UNCHANGED <<genVars, pendingInputs, deferredSettle, setVars, preVars, runVars,
                   memoVars, worldVars, taskVars, boundVars, histVars>>

\* With .preempting() it goes for a boundary instead.
InsertPreempting(w) ==
    /\ w \in PreemptInserts /\ wpc[w] = "idle" /\ settling # 0
    /\ wpc' = [wpc EXCEPT ![w] = "try"]
    /\ UNCHANGED <<sysVars, taskVars, gen, boundVars, histVars>>

\* with_component_mut, with_component_original
BeginMut(w) ==
    /\ w \in Muts \cup DeferredMuts /\ wpc[w] = "idle"
    /\ wpc' = [wpc EXCEPT ![w] = "try"]
    /\ UNCHANGED <<sysVars, taskVars, gen, boundVars, histVars>>

\* PreemptWaiter::boundary_reached: the bowl is idle, between generations,
\* or paused at an opened window.  Except on an idle bowl the next phases
\* restart through Startup.  Then PreemptWaiter::finish.
AtBoundary(w) ==
    /\ wpc[w] = "try"
    /\ running = 0 \/ window
    /\ restart' = (restart \/ settling # 0 \/ running # 0)
    /\ startupOwed' = (startupOwed \/ settling # 0 \/ running # 0)
    /\ registered' = registered \ {w}
    /\ wpc' = [wpc EXCEPT ![w] = "done"]

PreemptingInsertLands(w) ==
    /\ w \in PreemptInserts
    /\ AtBoundary(w)
    /\ pendingInputs' = pendingInputs \cup {w}
    /\ pending' = GetOrInsert(pending, next)
    /\ gen' = [gen EXCEPT ![w] = GetOrInsert(pending, next)]
    /\ UNCHANGED <<completed, running, next, deferred, inputSeq, deferredSettle, setVars,
                   window, startupRan, runVars, memoVars, worldVars, taskVars, boundVars,
                   owed, outEpoch>>

\* apply_component_mutation: a write that changed the value moves the world
\* and asks for a generation; an equal fingerprint changes nothing.
MutLands(w) ==
    /\ w \in Muts \cup DeferredMuts
    /\ AtBoundary(w)
    /\ \/ /\ MoveWorld
          /\ normalClean' = FALSE
          /\ pending' = GetOrInsert(pending, next)
       \/ UNCHANGED <<revision, dirty, late, viewStale, normalClean, pending>>
    /\ UNCHANGED <<completed, running, next, inVars, settling, settledRev, settleEpoch,
                   window, startupRan, runVars, memoVars, applied, taskVars, gen,
                   boundVars, owed, outEpoch>>

\* with_component_original: the value moved since the caller read it, so the
\* write is given up before any boundary.
MutStale(w) ==
    /\ w \in Muts \cup DeferredMuts
    /\ wpc[w] = "try"
    /\ registered' = registered \ {w}
    /\ wpc' = [wpc EXCEPT ![w] = "done"]
    /\ UNCHANGED <<genVars, inVars, setVars, window, restart, startupRan, runVars,
                   memoVars, worldVars, taskVars, gen, boundVars, histVars>>

\* TryUpdate::Busy: somebody holds the cell.  The writer yields and tries
\* again, still registered; the restart it asked for stands.
MutBusy(w) ==
    /\ w \in Muts \cup DeferredMuts
    /\ wpc[w] = "try"
    /\ running = 0 \/ window
    /\ restart' = (restart \/ settling # 0 \/ running # 0)
    /\ UNCHANGED <<genVars, inVars, setVars, window, registered, startupRan, runVars,
                   memoVars, worldVars, taskVars, writerVars, boundVars, histVars>>

\* Mutant: the mutator registers outside of the lock section that found no
\* boundary, when the generation may be complete.
AwaitBoundaryLate(w) ==
    /\ wpc[w] = "try"
    /\ ~window
    /\ registered' = IF w \in DeferredMuts THEN registered ELSE registered \cup {w}
    /\ wpc' = [wpc EXCEPT ![w] = "wait"]
    /\ UNCHANGED <<genVars, inVars, setVars, window, restart, startupRan, runVars,
                   memoVars, worldVars, taskVars, gen, boundVars, histVars>>

\* No boundary yet: register for preemption (unless deferred) and sleep.
AwaitBoundary(w) ==
    /\ wpc[w] = "try"
    /\ running # 0 /\ ~window
    /\ registered' = IF w \in DeferredMuts THEN registered ELSE registered \cup {w}
    /\ wpc' = [wpc EXCEPT ![w] = "wait"]
    /\ UNCHANGED <<genVars, inVars, setVars, window, restart, startupRan, runVars,
                   memoVars, worldVars, taskVars, gen, boundVars, histVars>>

-----------------------------------------------------------------------------
(* Futures dropped by their owners.                                        *)

\* A dropped caller loses the memo table it holds, unless the
\* EvaluationGuard still owns it.  Guards are dropped innermost first.
Cancel(c) ==
    /\ cancels < MaxCancels
    /\ pc[c] \in Cancellable
    /\ cancels' = cancels + 1
    /\ held' = IF pc[c] \in Evaluating THEN held ELSE Set(held, c, NoEntry)
    /\ Goto(c, IF pc[c] \in Evaluating THEN "dropRun"
               ELSE IF pc[c] \in {"start", "complete"} THEN "dropRunner"
               ELSE IF inEpoch[c] THEN "dropEpoch"
               ELSE "idle")
    /\ IF runner = c THEN EndEvaluation ELSE UNCHANGED <<phase, preemptions, changed, unseen>>
    /\ target' = Set(target, c, 0)
    /\ revBefore' = Set(revBefore, c, 0)
    /\ owed' = Set(owed, c, {})
    /\ UNCHANGED <<genVars, inVars, setVars, preVars, runner, memo, worldVars,
                   watermark, inEpoch, writerVars, commits, calls,
                   startupOwed, outEpoch>>

\* Mutant: the abandoned generation is not requeued.
DropEvaluationLost(c) ==
    /\ pc[c] = "dropRun"
    /\ memo' = held[c]
    /\ held' = Set(held, c, NoEntry)
    /\ running' = 0
    /\ pc' = [d \in Callers |-> IF d = c THEN "dropRunner"
                                ELSE IF pc[d] = "genWait" THEN "ensure"
                                ELSE pc[d]]
    /\ UNCHANGED <<completed, pending, next, inVars, setVars, preVars, runVars,
                   worldVars, locals, restVars>>

\* Drop of the EvaluationGuard: requeue the generation, wake every waiter.
DropEvaluation(c) ==
    /\ pc[c] = "dropRun"
    /\ memo' = held[c]
    /\ held' = Set(held, c, NoEntry)
    /\ running' = 0
    /\ pending' = GetOrInsert(pending, running)
    /\ pc' = [d \in Callers |-> IF d = c THEN "dropRunner"
                                ELSE IF pc[d] = "genWait" THEN "ensure"
                                ELSE pc[d]]
    /\ UNCHANGED <<completed, next, inVars, setVars, preVars, runVars,
                   worldVars, locals, restVars>>

\* Mutant: the runner lock leaks.
DropRunnerLeaked(c) ==
    /\ pc[c] = "dropRunner"
    /\ Goto(c, IF inEpoch[c] THEN "dropEpoch" ELSE "idle")
    /\ UNCHANGED exceptPc

\* The runner's MutexGuard is dropped after it.
DropRunner(c) ==
    /\ pc[c] = "dropRunner"
    /\ runner' = NoCaller
    /\ Goto(c, IF inEpoch[c] THEN "dropEpoch" ELSE "idle")
    /\ UNCHANGED <<genVars, inVars, setVars, preVars, phase, preemptions,
                   changed, unseen, memoVars, worldVars, locals, restVars>>

\* Mutant: a dropped settle leaves deferred inputs behind.
DropEpochUnpromoted(c) ==
    /\ pc[c] = "dropEpoch"
    /\ settling' = settling - 1
    /\ inEpoch' = Set(inEpoch, c, FALSE)
    /\ watermark' = Set(watermark, c, 0)
    /\ WakeBoundary
    /\ Goto(c, "idle")
    /\ UNCHANGED <<genVars, inVars, settledRev, settleEpoch, normalClean, preVars, runVars,
                   memoVars, worldVars, target, revBefore, gen, boundVars, histVars>>

DropEpoch(c) == pc[c] = "dropEpoch" /\ LeaveEpoch(c, "idle")

\* Drop of a PreemptWaiter deregisters it.
CancelWriter(w) ==
    /\ cancels < MaxCancels
    /\ wpc[w] \in {"try", "wait"}
    /\ cancels' = cancels + 1
    /\ registered' = registered \ {w}
    /\ wpc' = [wpc EXCEPT ![w] = "gone"]
    /\ UNCHANGED <<genVars, inVars, setVars, window, restart, startupRan, runVars,
                   memoVars, worldVars, taskVars, gen, commits, calls, histVars>>

-----------------------------------------------------------------------------
SettleStep(c) ==
    \/ FastPath(c) \/ EnterEpoch(c) \/ BoundaryPromote(c) \/ BoundaryReturn(c)
    \/ PickTarget(c) \/ CheckClean(c) \/ Enqueue(c) \/ Heal(c) \/ NothingToHeal(c)
    \/ HooksTake(c) \/ HooksCommit(c) \/ HooksRestore(c)
    \/ SettleTake(c) \/ SettlePlan(c) \/ SettleCommit(c) \/ SettleRestore(c)
    \/ Followup(c) \/ PublishPromote(c) \/ Publish(c) \/ ExitEpoch(c)
    \/ Read(c) \/ ForEach(c) \/ Take(c)

DriveStep(c) ==
    \/ Ensure(c) \/ TryRunner(c) \/ WaitGeneration(c)
    \/ StartEvaluation(c) \/ NothingPending(c)
    \/ QuietCommit(c) \/ LoudCommit(c) \/ PhaseDone(c)
    \/ Preempt(c) \/ OpenWindow(c) \/ WindowDrained(c) \/ CloseWindow(c)
    \/ CompleteGeneration(c) \/ ReleaseRunner(c)

DropStep(c) == DropEvaluation(c) \/ DropRunner(c) \/ DropEpoch(c)

CallerStep(c) == SettleStep(c) \/ DriveStep(c) \/ DropStep(c)

WriterStep(w) ==
    \/ InsertIdle(w) \/ InsertDeferred(w) \/ InsertPreempting(w) \/ BeginMut(w)
    \/ PreemptingInsertLands(w) \/ MutLands(w) \/ MutStale(w) \/ AwaitBoundary(w)

\* Every call returned: the program may stop here.  A writer that starves
\* is what MutatorHasWaker and WritesLand look for.
Finished ==
    /\ \A c \in Callers : pc[c] = "idle"
    /\ UNCHANGED vars

\* The instance's bound on generations is used up.
OutOfBounds ==
    /\ \E c \in Callers : pc[c] = "enqueue" /\ pending = 0 /\ next > MaxGenerations
    /\ UNCHANGED vars

Next ==
    \/ \E c \in Callers : CallSettle(c) \/ CallTake(c) \/ CallerStep(c) \/ Cancel(c)
    \/ \E w \in Writers : WriterStep(w) \/ MutBusy(w) \/ CancelWriter(w)
    \/ Finished
    \/ OutOfBounds

Spec == Init /\ [][Next]_vars

\* The executor polls a woken task again, and the state lock is only held
\* for short sections.  Nobody is obliged to call, to drop a future, or to
\* hold a component cell for ever (MutBusy).
Fairness ==
    /\ \A c \in Callers : WF_vars(CallerStep(c))
    /\ \A w \in Writers : WF_vars(WriterStep(w))

FairSpec == Spec /\ Fairness

-----------------------------------------------------------------------------
(* Properties.                                                             *)

Input == [tag : Nat, input : Inputs]

GenType ==
    completed \in Nat /\ running \in Nat /\ pending \in Nat /\ next \in Nat
InputType ==
    /\ pendingInputs \subseteq Inputs
    /\ deferred \in Seq(Input)
    /\ inputSeq \in Nat /\ deferredSettle \in BOOLEAN
SettleType ==
    /\ settling \in Int /\ settledRev \in Nat /\ settleEpoch \in Nat
    /\ normalClean \in BOOLEAN
PreemptType ==
    /\ window \in BOOLEAN /\ restart \in BOOLEAN /\ startupRan \in BOOLEAN
    /\ registered \subseteq Writers
RunType ==
    /\ runner \in Callers \cup {NoCaller}
    /\ phase \in Phases /\ preemptions \in Nat /\ changed \in BOOLEAN /\ unseen \subseteq Kinds
MemoType == memo \in Int /\ held \in [Callers -> Int]
WorldType ==
    /\ revision \in Nat /\ dirty \subseteq NormalPhases /\ late \subseteq NormalPhases
    /\ applied \subseteq Inputs /\ viewStale \in BOOLEAN
TaskType ==
    /\ pc \in [Callers -> PCs]
    /\ target \in [Callers -> Nat] /\ watermark \in [Callers -> Nat]
    /\ inEpoch \in [Callers -> BOOLEAN] /\ revBefore \in [Callers -> Nat]
WriterType == wpc \in [Writers -> WPCs] /\ gen \in [Writers -> Nat]
BoundType == commits \in Nat /\ calls \in Nat /\ cancels \in Nat
HistType ==
    /\ owed \in [Callers -> SUBSET Inputs]
    /\ startupOwed \in BOOLEAN /\ outEpoch \in Int

\* Types of the state, of every task's program counter and of its locals.
TypeOK ==
    /\ GenType /\ InputType /\ SettleType /\ PreemptType /\ RunType /\ MemoType
    /\ WorldType /\ TaskType /\ WriterType /\ BoundType /\ HistType

\* Generations are numbered in order: a running or pending generation is
\* newer than every completed one, and numbers are never reused by two
\* generations that both complete (start_evaluation, EvaluationGuard::drop).
GenerationOrder ==
    /\ completed < next
    /\ running \in {0, next - 1}
    /\ pending \in {0, next} \/ (running = 0 /\ pending = next - 1)
    /\ running # 0 => completed < running
    /\ pending # 0 => completed < pending

\* Nobody waits for a generation that never materializes: the target of
\* ensure_evaluated is completed, running or pending, also after a driver
\* was dropped.  A later target would spin in ensure_evaluated for ever.
TargetMaterializes ==
    \A c \in Callers : target[c] <= Max2(completed, Max2(running, pending))

\* Deferral never becomes loss (EpochGuard): an accepted input is in exactly
\* one of the two queues or in the world, a queued input has a generation
\* that will drain it, and a deferred one has a settler that promotes it.
AcceptedInputsKept ==
    LET deferredInputs == {deferred[i].input : i \in 1..Len(deferred)}
    IN  /\ {w \in Inputs : wpc[w] = "done"} = pendingInputs \cup deferredInputs \cup applied
        /\ pendingInputs \cap deferredInputs = {}
        /\ (pendingInputs \cup deferredInputs) \cap applied = {}
        /\ Cardinality(deferredInputs) = Len(deferred)
        /\ pendingInputs # {} => pending # 0
        /\ deferred # <<>> => settling > 0

\* The epoch count is the number of live EpochGuards: while it is positive
\* inputs are deferred, and the guard that brings it to zero promotes them.
EpochsCounted == settling = Cardinality({c \in Callers : inEpoch[c]})

\* A settled read sees every input accepted before it was called, whoever
\* drove the generations, promoted the inputs or was dropped meanwhile.
ReadYourWrites == \A c \in Callers : pc[c] = "read" => owed[c] \subseteq applied

\* Epochs run against a frozen input set, also when settles overlap: what
\* arrived after every settle that goes on stays deferred, whichever of them
\* leaves or reaches a boundary (promote_deferred_inputs, EpochGuard::drop).
EpochIsFrozen ==
    [][LET going == {c \in Callers : inEpoch[c] /\ inEpoch'[c]}
       IN  \A i \in 1..Len(deferred) :
              /\ going # {}
              /\ \A c \in going : deferred[i].tag > watermark[c]
              => deferred[i].input \notin pendingInputs']_vars

\* The runner's pause in open_preempt_window ends: only writers that are
\* still on their way to the boundary hold it open.
OnlyWaitersRegistered ==
    registered \subseteq {w \in PreemptInserts \cup Muts : wpc[w] \in {"try", "wait"}}

\* Holding the runner guard is the authority for being the evaluator.
SingleFlight == \A c \in Callers : pc[c] \in Driving <=> runner = c

\* A running generation has a live driver: an abandoned run restores the
\* state so that any waiter can be promoted to a new driver (EvaluationGuard).
DriverAlive ==
    running # 0 => \E c \in Callers : runner = c /\ pc[c] \in Evaluating \cup {"complete", "dropRun"}

\* A caller asleep in wait_for_generation has somebody left to wake it
\* (EvaluationGuard: "so another caller can drive it").
WaiterHasDriver ==
    (\E c \in Callers : pc[c] = "genWait") => \E d \in Callers : pc[d] \notin {"idle", "genWait"}

\* A mutator asleep on a boundary has somebody left to wake it.
MutatorHasWaker ==
    (\E w \in Writers : wpc[w] = "wait") => \E c \in Callers : pc[c] # "idle"

\* Startup runs first in the first generation and after every preemption:
\* no Evaluate or Complete row runs while that Startup is outstanding.
StartupFirst ==
    \A c \in Callers : pc[c] = "phase" /\ phase \in NormalPhases => ~startupOwed

\* A bowl that takes its last generation for clean is: else a row that a
\* write or a retired output enabled has a caller on its way to ask for the
\* next generation, however settles, takes and in-place writes overlap.
CleanIsFixpoint ==
    pending = 0 /\ running = 0 /\ normalClean =>
        dirty = {} \/ \E c \in Callers : pc[c] \in {"hooksMore", "enqueue"}

\* A bowl that calls itself settled has run what hooks, reaps that retire
\* output, healing, preemption and in-place writes enabled.  Only rows that a
\* mere removal enabled are left: "the Settle phase runs after that boundary
\* and cannot advance normal phases" (spec/formal-semantics.md), and cleanup
\* "does not unsettle a settled bowl" (drain_deferred_bound_cleanup).
SettledIsFixpoint == Quiescent => dirty = {}

\* External callers "wait until no normal phase can make progress" and
\* "cleanup has run" (spec/formal-semantics.md), rows enabled by removals
\* included.  Not so: see epochs_reaped.cfg.
ReadsAtFixpoint ==
    \A c \in Callers : pc[c] = "read" /\ Quiescent => dirty \cup late = {}

\* No settle completes over output that a View consumer computed in this
\* settle from facts that moved afterwards (heal_stale_ambient).
HealedBeforeSettled ==
    [][~Quiescent /\ Quiescent' => ~(outEpoch' = settleEpoch /\ viewStale')]_vars

\* Every settle returns, and every epoch ends.
SettleReturns == \A c \in Callers : pc[c] # "idle" ~> pc[c] = "idle"

\* Every external write lands, however often it was sent back to sleep.
WritesLand == \A w \in Writers : wpc[w] \in {"try", "wait"} ~> wpc[w] = "done"
=============================================================================
