--------------------------- MODULE PlannerProofs ----------------------------
(***************************************************************************)
(* Proofs about Planner: its types; that a planning cursor is always       *)
(* inside the log of its epoch, so that compact_plan_log never asserts;    *)
(* that no row that has to run is forgotten; and that a phase which        *)
(* completes has run them all.                                             *)
(***************************************************************************)
EXTENDS Planner, FiniteSetTheorems, WellFoundedInduction, TLAPS

\* No watermark is ahead of the world's revision.
WorldInv == WorldType /\ \A st \in Stores : mark[st] <= clock

\* A wave plans from an earlier state of the world, under the current log.
SnapInv ==
    mode = "wave" =>
        /\ snap.rev \in Revisions /\ snap.mark \in [Stores -> Nat]
        /\ \A st \in Stores : snap.mark[st] <= clock
        /\ snap.log \in Seq(SUBSET Rows) /\ snap.epoch = epoch
        /\ Len(snap.log) <= Len(log)

\* No cursor is ahead of the log: neither of its epoch nor of its end.
CursorInv ==
    /\ \A s \in Systems : cursorEpoch[s] <= epoch
    /\ CursorInLog

IInv == TypeOK /\ WorldInv /\ SnapInv /\ CursorInv

\* What a step that does not compact the log does to it.
LogGrows == epoch' = epoch /\ clock <= clock' /\ Len(log) <= Len(log')

-----------------------------------------------------------------------------
\* A lock section that writes keeps the types, and the log only grows.
LEMMA WriteGrows ==
  ASSUME WorldInv, NEW M \in SUBSET Rows, NEW R, NEW L \in SUBSET Rows, Write(M, R, L)
  PROVE  WorldInv' /\ LogGrows
<1>1. clock' \in Nat /\ clock <= clock' /\ mark' \in [Stores -> Nat]
  BY DEF Write, WorldInv, WorldType
<1>2. \A st \in Stores : mark'[st] <= clock'
  <2> SUFFICES ASSUME NEW st \in Stores PROVE mark'[st] <= clock'
    OBVIOUS
  <2>1. mark[st] \in Nat /\ clock \in Nat /\ mark[st] <= clock
    BY DEF WorldInv, WorldType
  <2>2. CASE \E e \in Entities : <<st, e>> \in M
    <3>1. M # {}
      BY <2>2
    <3> QED BY <2>1, <2>2, <3>1 DEF Write
  <2>3. CASE ~ \E e \in Entities : <<st, e>> \in M
    <3>1. mark'[st] = mark[st]
      BY <2>3 DEF Write
    <3> QED BY <1>1, <2>1, <3>1
  <2> QED BY <2>2, <2>3
<1>3. rev' \in Revisions
  <2> DEFINE New(st, e) == IF <<st, e>> \notin M THEN rev[st][e]
                           ELSE IF <<st, e>> \in R THEN 0 ELSE clock + 1
  <2>1. \A st \in Stores, e \in Entities : New(st, e) \in Nat
    BY DEF WorldInv, WorldType, Revisions
  <2>2. rev' = [st \in Stores |-> [e \in Entities |-> New(st, e)]]
    BY DEF Write
  <2> HIDE DEF New
  <2> QED BY <2>1, <2>2 DEF Revisions
<1>4. log' \in Seq(SUBSET Rows) /\ Len(log) <= Len(log')
  BY DEF Write, WorldInv, WorldType
<1> QED BY <1>1, <1>2, <1>3, <1>4 DEF Write, WorldInv, WorldType, LogGrows

\* A log that grows under the same epoch disturbs no cursor and no snapshot.
LEMMA CursorsKept ==
  ASSUME WorldInv, WorldInv', SnapInv, CursorInv, LogGrows,
         SystemType, UNCHANGED <<cursor, cursorEpoch>>
  PROVE  CursorInv'
BY DEF CursorInv, CursorInLog, SystemType, WorldInv, WorldType, LogGrows, Reset

\* A snapshot stays behind a log that grows.
LEMMA SnapKept ==
  ASSUME WorldInv, WorldInv', SnapInv, LogGrows,
         mode' = "wave" => mode = "wave" /\ snap' = snap
  PROVE  SnapInv'
<1> SUFFICES ASSUME mode' = "wave"
      PROVE  /\ snap'.rev \in Revisions /\ snap'.mark \in [Stores -> Nat]
             /\ \A st \in Stores : snap'.mark[st] <= clock'
             /\ snap'.log \in Seq(SUBSET Rows) /\ snap'.epoch = epoch'
             /\ Len(snap'.log) <= Len(log')
  BY DEF SnapInv
<1>1. Len(snap.log) \in Nat /\ \A st \in Stores : snap.mark[st] \in Nat
  BY DEF SnapInv
<1>2. \A st \in Stores : snap.mark[st] <= clock'
  BY <1>1 DEF SnapInv, WorldInv, WorldType, LogGrows
<1> QED BY <1>1, <1>2 DEF SnapInv, WorldInv, WorldType, LogGrows

\* The planner starts with empty logs and reset cursors.
LEMMA InitInv == Init => IInv
<1> SUFFICES ASSUME Init PROVE IInv
  OBVIOUS
<1>1. WorldInv
  BY DEF Init, WorldInv, WorldType, Revisions
<1>2. SystemType
  BY DEF Init, SystemType
<1>3. MemoType /\ RunType
  BY DEF Init, MemoType, RunType
<1>4. LoopType
  BY DEF Init, LoopType, Modes
<1>5. FlagType
  BY Zenon DEF Init, FlagType
<1>6. SnapInv /\ CursorInv
  BY DEF Init, SnapInv, CursorInv, CursorInLog, Reset
<1> QED BY <1>1, <1>2, <1>3, <1>4, <1>5, <1>6 DEF IInv, TypeOK, WorldInv

\* Highest finds the greatest element of a bounded set.
LEMMA HighestBounded ==
  ASSUME NEW S \in SUBSET Nat, NEW b \in Nat, S # {}, \A x \in S : x <= b
  PROVE  Highest(S) \in S /\ \A y \in S : y <= Highest(S)
<1> DEFINE Gaps == {b - x : x \in S}
<1>1. Gaps \subseteq Nat /\ Gaps # {}
  <2>1. \A x \in S : b - x \in Nat
    OBVIOUS
  <2>2. PICK x \in S : TRUE
    OBVIOUS
  <2>3. b - x \in Gaps
    BY <2>2
  <2> QED BY <2>1, <2>3
<1> DEFINE Less == OpToRel(<, Nat)
<1>2. \A m, n \in Nat : <<m, n>> \in Less <=> m < n
  BY DEF OpToRel
<1>3. IsWellFoundedOn(Less, Nat)
  BY NatLessThanWellFounded
<1> HIDE DEF Less
<1>4. PICK d \in Gaps : \A g \in Gaps : ~(<<g, d>> \in Less)
  <2> HIDE DEF Gaps
  <2> QED BY <1>1, <1>3, WFMin
<1>5. PICK x \in S : d = b - x
  BY <1>4
<1>6. \A y \in S : y <= x
  <2> SUFFICES ASSUME NEW y \in S PROVE y <= x
    OBVIOUS
  <2>1. ~(b - y < b - x)
    BY <1>1, <1>2, <1>4, <1>5
  <2> QED BY <2>1
<1> QED BY <1>5, <1>6 DEF Highest

\* The log does not move.
LEMMA WorldKept ==
  ASSUME WorldInv, UNCHANGED worldVars
  PROVE  WorldInv' /\ LogGrows
BY DEF WorldInv, WorldType, worldVars, LogGrows

\* The rows a run wrote in place are rows of the world.
LEMMA WrittenRows ==
  ASSUME RunType, NEW run \in runs
  PROVE  Written(run) \subseteq Rows
BY SystemsAssumption DEF Written, Rows, RunType

\* Forced rows and resets keep the types, and move no cursor forwards.
LEMMA ForceRowsType ==
  ASSUME SystemType, NEW X, ForceRows(X)
  PROVE  /\ SystemType'
         /\ cursor' = cursor
         /\ \A s \in Systems : cursorEpoch'[s] = cursorEpoch[s] \/ cursorEpoch'[s] = Reset
<1>1. planned' \in [Systems -> Nat \cup {Reset}] /\ cursorEpoch' \in [Systems -> Nat \cup {Reset}]
  BY DEF ForceRows, SystemType
<1>2. forced' \in [Systems -> SUBSET Entities]
  BY DEF ForceRows, SystemType
<1>3. \A s \in Systems : cursorEpoch'[s] = cursorEpoch[s] \/ cursorEpoch'[s] = Reset
  BY DEF ForceRows
<1> QED BY <1>1, <1>2, <1>3 DEF ForceRows, SystemType

\* Forcing a run back is forcing its rows, or resetting its system.
LEMMA ForceReplanType ==
  ASSUME SystemType, NEW run, run.system \in Systems, ForceReplan(run)
  PROVE  /\ SystemType'
         /\ cursor' = cursor
         /\ \A s \in Systems : cursorEpoch'[s] = cursorEpoch[s] \/ cursorEpoch'[s] = Reset
<1>1. CASE Keys(run) # {}
  BY <1>1, ForceRowsType DEF ForceReplan
<1>2. CASE Keys(run) = {}
  BY <1>2 DEF ForceReplan, SystemType
<1> QED BY <1>1, <1>2

\* Cursors that stay or are reset are still inside a log that grew.
LEMMA CursorsReset ==
  ASSUME WorldInv, WorldInv', CursorInv, LogGrows,
         SystemType, SystemType', cursor' = cursor,
         \A s \in Systems : cursorEpoch'[s] = cursorEpoch[s] \/ cursorEpoch'[s] = Reset
  PROVE  CursorInv'
<1> SUFFICES ASSUME NEW s \in Systems
      PROVE  cursorEpoch'[s] <= epoch' /\ (cursorEpoch'[s] = epoch' => cursor'[s] <= Len(log'))
  BY DEF CursorInv, CursorInLog
<1>1. cursor[s] \in Nat /\ Len(log) \in Nat /\ Len(log') \in Nat /\ epoch \in Nat
  BY DEF SystemType, WorldInv, WorldType
<1>2. cursorEpoch[s] <= epoch /\ (cursorEpoch[s] = epoch => cursor[s] <= Len(log))
  BY DEF CursorInv, CursorInLog
<1>3. CASE cursorEpoch'[s] = cursorEpoch[s]
  BY <1>1, <1>2, <1>3 DEF LogGrows
<1>4. CASE cursorEpoch'[s] = Reset
  BY <1>1, <1>4 DEF Reset, LogGrows
<1> QED BY <1>3, <1>4

\* The mark a plan stores is a watermark, and covers every store of interest.
LEMMA InterestMarkIsMark ==
  ASSUME NEW s \in Systems, NEW m \in [Stores -> Nat], clock \in Nat,
         \A st \in Stores : m[st] <= clock
  PROVE  InterestMark(s, m) \in Nat /\ ~InterestMoved(s, m, InterestMark(s, m))
<1>1. CASE Reads[s] = {}
  BY <1>1 DEF InterestMark, InterestMoved
<1>2. CASE Reads[s] # {}
  <2> DEFINE S == {m[st] : st \in Reads[s]}
  <2>1. S \in SUBSET Nat /\ S # {} /\ \A x \in S : x <= clock
    BY <1>2, SystemsAssumption
  <2>2. Highest(S) \in S /\ \A y \in S : y <= Highest(S)
    <3> HIDE DEF S
    <3> QED BY <2>1, HighestBounded
  <2>3. InterestMark(s, m) = Highest(S)
    BY <1>2 DEF InterestMark
  <2>4. \A st \in Reads[s] : m[st] <= InterestMark(s, m) /\ m[st] \in Nat
    BY <2>1, <2>2, <2>3
  <2> QED BY <2>1, <2>2, <2>3, <2>4 DEF InterestMoved
<1> QED BY <1>1, <1>2

\* What a plan yields are runs over revisions of its snapshot.
LEMMA PlannedType ==
  ASSUME NEW s \in Systems, SystemType, SnapInv, mode = "wave"
  PROVE  \A run \in PlannedRuns(s) :
            /\ run.system = s /\ run.rows \subseteq Entities
            /\ run.deps \in [run.rows -> DepsOf(run.system)]
<1>1. PlannedRows(s) \subseteq Entities
  BY DEF PlannedRows, Candidates, Logged, SystemType
<1>2. \A e \in Entities : Deps(s, e, snap.rev) \in DepsOf(s)
  BY SystemsAssumption DEF Deps, DepsOf, SnapInv, Revisions
<1>3. ASSUME NEW es \in SUBSET Entities
      PROVE  /\ RunOf(s, es, snap.rev).system = s /\ RunOf(s, es, snap.rev).rows = es
             /\ RunOf(s, es, snap.rev).deps \in [es -> DepsOf(s)]
  BY <1>2 DEF RunOf
<1>4. ASSUME NEW run \in PlannedRuns(s)
      PROVE  \E es \in SUBSET Entities : run = RunOf(s, es, snap.rev)
  BY <1>1, <1>4 DEF PlannedRuns
<1> QED BY <1>3, <1>4

\* A step of the phase loop that touches neither the world nor the planner
\* state.
LEMMA QuietStep ==
  ASSUME IInv, UNCHANGED <<worldVars, memo, systemVars>>, runs' \subseteq runs,
         LoopType', FlagType', mode' = "wave" => mode = "wave" /\ snap' = snap
  PROVE  IInv'
<1>0. WorldInv /\ SystemType /\ MemoType /\ RunType /\ SnapInv /\ CursorInv
  BY DEF IInv, TypeOK
<1>1. WorldInv' /\ LogGrows
  BY <1>0, WorldKept
<1>2. SystemType' /\ CursorInv'
  BY <1>0, <1>1, CursorsKept DEF systemVars, SystemType
<1>3. MemoType' /\ RunType'
  BY <1>0 DEF MemoType, RunType
<1>4. SnapInv'
  BY <1>0, <1>1, SnapKept
<1> QED BY <1>1, <1>2, <1>3, <1>4 DEF IInv, TypeOK, WorldInv

-----------------------------------------------------------------------------
\* Every step keeps the types, the snapshot behind the log, and the cursors
\* inside it.
LEMMA StepInv == IInv /\ [Next]_vars => IInv'
<1> SUFFICES ASSUME IInv, [Next]_vars PROVE IInv'
  OBVIOUS
<1>0. WorldInv /\ WorldType /\ SystemType /\ MemoType /\ RunType /\ LoopType /\ FlagType
      /\ SnapInv /\ CursorInv
  BY DEF IInv, TypeOK, WorldInv
<1> USE DEF IInv, TypeOK
<1>StartPhase. CASE StartPhase
  <2>1. LoopType'
    BY <1>0, <1>StartPhase DEF StartPhase, LoopType, Modes, waveVars, preemptVars, LeavePhase
  <2>2. FlagType'
    BY Zenon, <1>0, <1>StartPhase DEF StartPhase, FlagType, loopVars, batchVars, preemptVars, LeavePhase
  <2> QED BY <1>StartPhase, <2>1, <2>2, QuietStep DEF StartPhase, LeavePhase, waveVars
<1>Register. CASE Register
  <2>1. LoopType'
    BY <1>0, <1>Register DEF Register, LoopType, Modes, waveVars, preemptVars, LeavePhase
  <2>2. FlagType'
    BY Zenon, <1>0, <1>Register DEF Register, FlagType, loopVars, batchVars, preemptVars, LeavePhase
  <2> QED BY <1>Register, <2>1, <2>2, QuietStep DEF Register, LeavePhase, waveVars
<1>Deregister. CASE Deregister
  <2>1. LoopType'
    BY <1>0, <1>Deregister DEF Deregister, LoopType, Modes, waveVars, preemptVars, LeavePhase
  <2>2. FlagType'
    BY Zenon, <1>0, <1>Deregister DEF Deregister, FlagType, loopVars, batchVars, preemptVars, LeavePhase
  <2> QED BY <1>Deregister, <2>1, <2>2, QuietStep DEF Deregister, LeavePhase, waveVars
<1>Preempt. CASE Preempt
  <2>1. LoopType'
    BY <1>0, <1>Preempt DEF Preempt, LoopType, Modes, waveVars, preemptVars, LeavePhase
  <2>2. FlagType'
    BY Zenon, <1>0, <1>Preempt DEF Preempt, FlagType, loopVars, batchVars, preemptVars, LeavePhase
  <2> QED BY <1>Preempt, <2>1, <2>2, QuietStep DEF Preempt, LeavePhase, waveVars
<1>NothingToPlan. CASE NothingToPlan
  <2>1. LoopType'
    BY <1>0, <1>NothingToPlan DEF NothingToPlan, LoopType, Modes, waveVars, preemptVars, LeavePhase
  <2>2. FlagType'
    BY Zenon, <1>0, <1>NothingToPlan DEF NothingToPlan, FlagType, loopVars, batchVars, preemptVars, LeavePhase
  <2> QED BY <1>NothingToPlan, <2>1, <2>2, QuietStep DEF NothingToPlan, LeavePhase, waveVars
<1>WaveDone. CASE WaveDone
  <2>1. LoopType'
    BY <1>0, <1>WaveDone DEF WaveDone, LoopType, Modes, waveVars, preemptVars, LeavePhase
  <2>2. FlagType'
    BY Zenon, <1>0, <1>WaveDone DEF WaveDone, FlagType, loopVars, batchVars, preemptVars, LeavePhase
  <2> QED BY <1>WaveDone, <2>1, <2>2, QuietStep DEF WaveDone, LeavePhase, waveVars
<1>AwaitPreempt. CASE AwaitPreempt
  <2>1. LoopType'
    BY <1>0, <1>AwaitPreempt DEF AwaitPreempt, LoopType, Modes, waveVars, preemptVars, LeavePhase
  <2>2. FlagType'
    BY Zenon, <1>0, <1>AwaitPreempt DEF AwaitPreempt, FlagType, loopVars, batchVars, preemptVars, LeavePhase
  <2> QED BY <1>AwaitPreempt, <2>1, <2>2, QuietStep DEF AwaitPreempt, LeavePhase, waveVars
<1>Drained. CASE Drained
  <2>1. LoopType'
    BY <1>0, <1>Drained DEF Drained, LoopType, Modes, waveVars, preemptVars, LeavePhase
  <2>2. FlagType'
    BY Zenon, <1>0, <1>Drained DEF Drained, FlagType, loopVars, batchVars, preemptVars, LeavePhase
  <2> QED BY <1>Drained, <2>1, <2>2, QuietStep DEF Drained, LeavePhase, waveVars
<1>EndBatch. CASE EndBatch
  <2>1. LoopType'
    BY <1>0, <1>EndBatch DEF EndBatch, LoopType, Modes, waveVars, preemptVars, LeavePhase
  <2>2. FlagType'
    BY Zenon, <1>0, <1>EndBatch DEF EndBatch, FlagType, loopVars, batchVars, preemptVars, LeavePhase
  <2> QED BY <1>EndBatch, <2>1, <2>2, QuietStep DEF EndBatch, LeavePhase, waveVars
<1>OpenWindow. CASE OpenWindow
  <2>1. LoopType'
    BY <1>0, <1>OpenWindow DEF OpenWindow, LoopType, Modes, waveVars, preemptVars, LeavePhase
  <2>2. FlagType'
    BY Zenon, <1>0, <1>OpenWindow DEF OpenWindow, FlagType, loopVars, batchVars, preemptVars, LeavePhase
  <2> QED BY <1>OpenWindow, <2>1, <2>2, QuietStep DEF OpenWindow, LeavePhase, waveVars
<1>WriteElsewhere. CASE WriteElsewhere
  <2>1. PICK x \in Rows : \E removed \in {{}, {x}} : Write({x}, removed, {x})
    BY <1>WriteElsewhere DEF WriteElsewhere
  <2>2. WorldInv' /\ LogGrows
    BY <1>0, <2>1, WriteGrows
  <2>3. SystemType' /\ CursorInv'
    BY <1>0, <1>WriteElsewhere, <2>2, CursorsKept DEF WriteElsewhere, systemVars, SystemType
  <2>4. MemoType' /\ RunType'
    BY <1>0, <1>WriteElsewhere DEF WriteElsewhere, MemoType, RunType
  <2>5. LoopType'
    BY <1>0, <1>WriteElsewhere DEF WriteElsewhere, LoopType, waveVars, preemptVars
  <2>6. FlagType'
    BY Zenon, <1>0, <1>WriteElsewhere DEF WriteElsewhere, FlagType, loopVars, batchVars, preemptVars
  <2>7. SnapInv'
    BY <1>0, <1>WriteElsewhere, <2>2, SnapKept DEF WriteElsewhere, waveVars
  <2> QED BY <2>2, <2>3, <2>4, <2>5, <2>6, <2>7 DEF WorldInv
<1>Invalidate. ASSUME NEW s \in Systems, NEW e \in Entities, Invalidate(s, e) PROVE IInv'
  <2>1. WorldInv' /\ LogGrows
    BY <1>0, <1>Invalidate, WorldKept DEF Invalidate
  <2>2. SystemType' /\ CursorInv'
    BY <1>0, <1>Invalidate, <2>1, ForceRowsType, CursorsReset DEF Invalidate
  <2>3. MemoType'
    BY <1>0, <1>Invalidate DEF Invalidate, MemoType
  <2>4. RunType'
    BY <1>0, <1>Invalidate DEF Invalidate, RunType
  <2>5. LoopType'
    BY <1>0, <1>Invalidate DEF Invalidate, LoopType, waveVars
  <2>6. FlagType'
    BY Zenon, <1>0, <1>Invalidate DEF Invalidate, FlagType, loopVars, batchVars
  <2>7. SnapInv'
    BY <1>0, <1>Invalidate, <2>1, SnapKept DEF Invalidate, waveVars
  <2> QED BY <2>1, <2>2, <2>3, <2>4, <2>5, <2>6, <2>7 DEF WorldInv
<1>Compact. CASE Compact
  <2>1. WorldInv'
    BY <1>0, <1>Compact DEF Compact, WorldInv, WorldType
  <2>2. cursor' \in [Systems -> Nat] /\ cursorEpoch' \in [Systems -> Nat \cup {Reset}]
    BY <1>0, <1>Compact DEF Compact, CompactSystems, SystemType, WorldType
  <2>3. forced' \in [Systems -> SUBSET Entities]
    BY <1>0, <1>Compact DEF Compact, CompactSystems, SystemType, Logged
  <2>4. SystemType'
    BY <1>0, <1>Compact, <2>2, <2>3 DEF Compact, SystemType
  <2>5. CursorInv'
    <3> SUFFICES ASSUME NEW s \in Systems
          PROVE  cursorEpoch'[s] <= epoch' /\ (cursorEpoch'[s] = epoch' => cursor'[s] <= Len(log'))
      BY DEF CursorInv, CursorInLog
    <3>1. cursorEpoch[s] <= epoch /\ epoch \in Nat /\ cursorEpoch[s] \in Int
      BY <1>0 DEF CursorInv, WorldType, SystemType, Reset
    <3>2. epoch' = epoch + 1 /\ Len(log') = 0
      BY <1>Compact DEF Compact
    <3>3. \/ cursorEpoch'[s] = cursorEpoch[s]
          \/ cursorEpoch'[s] = epoch + 1 /\ cursor'[s] = 0
      BY <1>Compact DEF Compact, CompactSystems
    <3> QED BY <3>1, <3>2, <3>3
  <2>6. MemoType' /\ RunType'
    BY <1>0, <1>Compact DEF Compact, MemoType, RunType
  <2>7. LoopType' /\ SnapInv'
    BY <1>0, <1>Compact DEF Compact, LoopType, SnapInv, waveVars, preemptVars
  <2>8. FlagType'
    BY Zenon, <1>0, <1>Compact DEF Compact, FlagType, loopVars, batchVars, preemptVars
  <2> QED BY <2>1, <2>4, <2>5, <2>6, <2>7, <2>8 DEF WorldInv
<1>DropDriver. CASE DropDriver
  <2>1. WorldInv' /\ LogGrows
    BY <1>0, <1>DropDriver, WorldKept DEF DropDriver
  <2>2. SystemType' /\ CursorInv'
    BY <1>0, <1>DropDriver, <2>1, CursorsReset DEF DropDriver, ResetAll, SystemType
  <2>3. MemoType' /\ RunType'
    BY <1>0, <1>DropDriver DEF DropDriver, MemoType, RunType
  <2>4. LoopType'
    BY <1>0, <1>DropDriver DEF DropDriver, LoopType, LeavePhase, Modes, waveVars
  <2>5. FlagType'
    BY Zenon, <1>0, <1>DropDriver DEF DropDriver, FlagType, LeavePhase, batchVars
  <2>6. SnapInv'
    BY <1>DropDriver DEF DropDriver, LeavePhase, SnapInv
  <2> QED BY <2>1, <2>2, <2>3, <2>4, <2>5, <2>6 DEF WorldInv
<1>CloseWindow. CASE CloseWindow
  <2>1. WorldInv' /\ LogGrows
    BY <1>0, <1>CloseWindow, WorldKept DEF CloseWindow
  <2>2. SystemType' /\ CursorInv'
    BY <1>0, <1>CloseWindow, <2>1, CursorsReset DEF CloseWindow, ResetAll, SystemType
  <2>3. MemoType' /\ RunType'
    BY <1>0, <1>CloseWindow DEF CloseWindow, MemoType, RunType
  <2>4. LoopType'
    BY <1>0, <1>CloseWindow DEF CloseWindow, LoopType, LeavePhase, Modes, waveVars
  <2>5. FlagType'
    BY Zenon, <1>0, <1>CloseWindow DEF CloseWindow, FlagType, LeavePhase, batchVars
  <2>6. SnapInv'
    BY <1>CloseWindow DEF CloseWindow, LeavePhase, SnapInv
  <2> QED BY <2>1, <2>2, <2>3, <2>4, <2>5, <2>6 DEF WorldInv
<1>Look. CASE Look
  <2>1. WorldInv' /\ LogGrows
    BY <1>0, <1>Look, WorldKept DEF Look
  <2>2. SystemType' /\ CursorInv'
    BY <1>0, <1>Look, <2>1, CursorsKept DEF Look, systemVars, SystemType
  <2>3. MemoType' /\ RunType'
    BY <1>0, <1>Look DEF Look, MemoType, RunType
  <2>4. LoopType'
    BY <1>0, <1>Look DEF Look, LoopType, Modes, waveVars, preemptVars
  <2>5. FlagType'
    BY Zenon, <1>0, <1>Look DEF Look, FlagType, batchVars, preemptVars
  <2>6. SnapInv'
    BY <1>0, <1>Look DEF Look, SnapInv, WorldInv, WorldType, worldVars
  <2> QED BY <2>1, <2>2, <2>3, <2>4, <2>5, <2>6 DEF WorldInv
<1>SkipSystem. ASSUME NEW s \in Systems, SkipSystem(s) PROVE IInv'
  <2>1. WorldInv' /\ LogGrows
    BY <1>0, <1>SkipSystem, WorldKept DEF SkipSystem
  <2>2. SystemType' /\ CursorInv'
    BY <1>0, <1>SkipSystem, <2>1, CursorsKept DEF SkipSystem, systemVars, SystemType
  <2>3. MemoType' /\ RunType'
    BY <1>0, <1>SkipSystem DEF SkipSystem, MemoType, RunType
  <2>4. LoopType'
    BY <1>0, <1>SkipSystem DEF SkipSystem, LoopType, preemptVars
  <2>5. FlagType'
    BY Zenon, <1>0, <1>SkipSystem DEF SkipSystem, FlagType, loopVars, batchVars, preemptVars
  <2>6. SnapInv'
    BY <1>0, <1>SkipSystem, <2>1, SnapKept DEF SkipSystem
  <2> QED BY <2>1, <2>2, <2>3, <2>4, <2>5, <2>6 DEF WorldInv
<1>PlanSystem. ASSUME NEW s \in Systems, PlanSystem(s) PROVE IInv'
  <2>1. WorldInv' /\ LogGrows
    BY <1>0, <1>PlanSystem, WorldKept DEF PlanSystem
  <2>2. mode = "wave" /\ mode' = "wave" /\ snap' = snap
    BY <1>PlanSystem DEF PlanSystem
  <2>3. InterestMark(s, snap.mark) \in Nat
    BY <1>0, <2>2, InterestMarkIsMark DEF SnapInv, WorldType
  <2>4. SystemType'
    <3>1. planned' \in [Systems -> Nat \cup {Reset}]
      BY <1>0, <1>PlanSystem, <2>3 DEF PlanSystem, SystemType
    <3>2. cursor' \in [Systems -> Nat]
      BY <1>0, <1>PlanSystem, <2>2 DEF PlanSystem, SystemType, SnapInv
    <3>3. cursorEpoch' \in [Systems -> Nat \cup {Reset}]
      BY <1>0, <1>PlanSystem, <2>2 DEF PlanSystem, SystemType, SnapInv, WorldType
    <3>4. forced' \in [Systems -> SUBSET Entities]
      <4>1. UNION {Keys(run) : run \in PlannedRuns(s)} \subseteq Entities
        BY PlannedType, <1>0, <2>2 DEF Keys
      <4> QED BY <1>0, <1>PlanSystem, <4>1 DEF PlanSystem, SystemType
    <3> QED BY <3>1, <3>2, <3>3, <3>4 DEF SystemType
  <2>5. CursorInv'
    <3> SUFFICES ASSUME NEW t \in Systems
          PROVE  cursorEpoch'[t] <= epoch' /\ (cursorEpoch'[t] = epoch' => cursor'[t] <= Len(log'))
      BY DEF CursorInv, CursorInLog
    <3>1. epoch \in Nat /\ epoch' = epoch /\ log' = log /\ snap.epoch = epoch /\ Len(snap.log) <= Len(log)
      BY <1>0, <1>PlanSystem, <2>2 DEF PlanSystem, SnapInv, WorldType, worldVars
    <3>2. cursorEpoch[t] <= epoch /\ (cursorEpoch[t] = epoch => cursor[t] <= Len(log))
      BY <1>0 DEF CursorInv, CursorInLog
    <3>3. \/ cursorEpoch'[t] = Reset
          \/ cursorEpoch'[t] = snap.epoch /\ cursor'[t] = Len(snap.log)
          \/ cursorEpoch'[t] = cursorEpoch[t] /\ cursor'[t] = cursor[t]
      BY <1>0, <1>PlanSystem DEF PlanSystem, SystemType
    <3> QED BY <3>1, <3>2, <3>3 DEF Reset
  <2>6. MemoType'
    BY <1>0, <1>PlanSystem DEF PlanSystem, MemoType
  <2>7. RunType'
    <3>1. runs' \subseteq runs \cup PlannedRuns(s)
      BY <1>PlanSystem DEF PlanSystem
    <3> QED BY <1>0, <2>2, <3>1, PlannedType DEF RunType
  <2>8. LoopType'
    BY <1>0, <1>PlanSystem DEF PlanSystem, LoopType, preemptVars
  <2>9. FlagType'
    BY Zenon, <1>0, <1>PlanSystem DEF PlanSystem, FlagType, batchVars, preemptVars
  <2>10. SnapInv'
    BY <1>0, <2>1, <2>2, SnapKept
  <2> QED BY <2>1, <2>4, <2>5, <2>6, <2>7, <2>8, <2>9, <2>10 DEF WorldInv
<1>Finish. ASSUME NEW run \in runs, Finish(run) PROVE IInv'
  <2>0. run.system \in Systems /\ run.rows \subseteq Entities
        /\ run.deps \in [run.rows -> DepsOf(run.system)] /\ Written(run) \subseteq Rows
    BY <1>0, WrittenRows DEF RunType
  <2> DEFINE Committed ==
        /\ WorldInv' /\ LogGrows /\ SystemType' /\ CursorInv' /\ MemoType' /\ disturbances' \in Nat
        /\ followup' \in BOOLEAN /\ stale' \in BOOLEAN
  <2>1. ASSUME CommitStale(run) PROVE Committed
    <3>1. PICK moved \in SUBSET Written(run) : Write(moved, {}, Written(run))
      BY <2>1 DEF CommitStale
    <3>2. WorldInv' /\ LogGrows
      BY <1>0, <2>0, <3>1, WriteGrows
    <3>3. /\ SystemType'
          /\ cursor' = cursor
          /\ \A s \in Systems : cursorEpoch'[s] = cursorEpoch[s] \/ cursorEpoch'[s] = Reset
      <4>1. CASE UNCHANGED systemVars
        BY <1>0, <4>1 DEF systemVars, SystemType
      <4>2. CASE ForceReplan(run)
        BY <1>0, <2>0, <4>2, ForceReplanType
      <4> QED BY <2>1, <4>1, <4>2 DEF CommitStale
    <3>4. CursorInv'
      BY <1>0, <3>2, <3>3, CursorsReset
    <3>5. MemoType'
      BY <1>0, <2>1 DEF CommitStale, MemoType
    <3>6. disturbances' \in Nat
      BY <1>0, <2>1 DEF CommitStale, LoopType
    <3>7. followup' \in BOOLEAN /\ stale' \in BOOLEAN
      BY Zenon, <2>1 DEF CommitStale
    <3> QED BY <3>2, <3>3, <3>4, <3>5, <3>6, <3>7
  <2>2. ASSUME CommitFresh(run) PROVE Committed
    <3>1. PICK written \in SUBSET Written(run), emitted \in SUBSET (Emits[run.system] \X Entities) :
             \E removed \in {{}, emitted}, lost \in SUBSET (Systems \X Entities) :
                Accept(run, written, emitted, removed, lost)
      BY <2>2 DEF CommitFresh
    <3>0. PICK removed \in {{}, emitted}, lost \in SUBSET (Systems \X Entities) :
             Accept(run, written, emitted, removed, lost)
      BY <3>1
    <3>2. WorldInv' /\ LogGrows
      <4>1. written \cup emitted \subseteq Rows /\ written \cup emitted \cup Written(run) \subseteq Rows
        BY <2>0, SystemsAssumption DEF Rows
      <4> QED BY <1>0, <3>0, <4>1, WriteGrows DEF Accept
    <3>3. /\ SystemType'
          /\ cursor' = cursor
          /\ \A s \in Systems : cursorEpoch'[s] = cursorEpoch[s] \/ cursorEpoch'[s] = Reset
      BY <1>0, <3>0, ForceRowsType DEF Accept
    <3>4. CursorInv'
      BY <1>0, <3>2, <3>3, CursorsReset
    <3>5. MemoType'
      <4>1. \A e \in run.rows : Refreshed(run, e) \in DepsOf(run.system)
        BY <2>0, <3>2, SystemsAssumption DEF Refreshed, DepsOf, WorldInv, WorldType, Revisions
      <4>2. \A s \in Systems, e \in Entities : memo[s][e] \in DepsOf(s) \cup {NoMemo}
        BY <1>0 DEF MemoType
      <4>3. ASSUME NEW s \in Systems PROVE memo'[s] \in [Entities -> DepsOf(s) \cup {NoMemo}]
        BY <3>0, <4>1, <4>2 DEF Accept, MemoAfter
      <4>4. DOMAIN memo' = Systems
        BY <3>0 DEF Accept, MemoAfter
      <4> QED BY <4>3, <4>4 DEF MemoType
    <3>6. disturbances' \in Nat
      <4>1. IsFiniteSet(lost)
        BY SystemsAssumption, FS_Product, FS_Subset
      <4>2. Cardinality(lost) \in Nat
        BY <4>1, FS_CardinalityType
      <4> QED BY <1>0, <3>0, <4>2 DEF Accept, LoopType
    <3>7. followup' \in BOOLEAN /\ stale' \in BOOLEAN
      BY Zenon, <1>0, <3>0 DEF Accept, FlagType
    <3> QED BY <3>2, <3>3, <3>4, <3>5, <3>6, <3>7
  <2>3. Committed
    <3> HIDE DEF Committed
    <3> QED BY <1>Finish, <2>1, <2>2 DEF Finish
  <2>4. RunType'
    BY <1>0, <1>Finish DEF Finish, RunType
  <2>5. LoopType'
    BY <1>0, <1>Finish, <2>3 DEF Finish, LoopType, Modes, waveVars
  <2>6. FlagType'
    BY Zenon, <1>0, <1>Finish, <2>3 DEF Finish, FlagType, loopVars
  <2>7. SnapInv'
    BY <1>0, <1>Finish, <2>3, SnapKept DEF Finish
  <2> QED BY <2>3, <2>4, <2>5, <2>6, <2>7 DEF WorldInv
<1>Stutter. CASE UNCHANGED vars
  BY <1>0, <1>Stutter DEF vars, worldVars, systemVars, loopVars, batchVars, waveVars, preemptVars,
     WorldInv, WorldType, SystemType, MemoType, RunType, LoopType, FlagType, SnapInv, CursorInv,
     CursorInLog
<1> QED
  BY <1>WriteElsewhere, <1>Compact, <1>StartPhase, <1>Register, <1>Deregister, <1>DropDriver,
     <1>Invalidate, <1>Preempt, <1>Look, <1>NothingToPlan, <1>WaveDone, <1>AwaitPreempt,
     <1>Drained, <1>EndBatch, <1>OpenWindow, <1>CloseWindow, <1>SkipSystem, <1>PlanSystem,
     <1>Finish, <1>Stutter
     DEF Next, Loop

-----------------------------------------------------------------------------
\* The inductive invariant holds in every behaviour.
THEOREM Invariant == Spec => []IInv
<1>1. Init => IInv
  BY InitInv
<1>2. IInv /\ [Next]_vars => IInv'
  BY StepInv
<1> QED BY <1>1, <1>2, PTL DEF Spec

\* The planner's state keeps its types: marks, cursors and memo entries, for
\* any registry of systems and any interleaving of run_phase_streaming with
\* writers, preemptions and dropped drivers.
THEOREM PlannerTypes == Spec => []TypeOK
<1>1. IInv => TypeOK
  BY DEF IInv
<1> QED BY <1>1, Invariant, PTL

\* A cursor of the current epoch is inside the log: the assertion of
\* BoxedSystem::compact_plan_log never fails, and no hint is cut short.
THEOREM CursorsValid == Spec => []CursorInLog
<1>1. IInv => CursorInLog
  BY DEF IInv, CursorInv
<1> QED BY <1>1, Invariant, PTL

-----------------------------------------------------------------------------
(* No row is forgotten.  The invariant needs to know what the snapshot of  *)
(* a wave still owes: everything that moved since is logged behind it and  *)
(* above its marks, and everything that was outdated in it is in flight or *)
(* among the candidates of a system still to plan.                         *)

\* No system has planned past the world's revision.
PlannedInv == \A s \in Systems : planned[s] <= clock

\* The row <<st, e>> was logged after the snapshot was taken.
LoggedSince(st, e) ==
    \E i \in (Len(snap.log) + 1)..Len(log) : <<st, e>> \in log[i]

\* What moved since the snapshot is behind its log and above its marks.
SnapBehind ==
    mode = "wave" => \A st \in Stores, e \in Entities : rev[st][e] # snap.rev[st][e] =>
        LoggedSince(st, e) /\ \A st2 \in Stores : snap.mark[st2] < mark[st]

\* The row has to run, as far as the snapshot shows.
SnapOutdated(s, e) == Matches(s, e, snap.rev) /\ memo[s][e] # Deps(s, e, snap.rev)

\* What the wave has left to plan covers every outdated row.
WaveCovers ==
    mode = "wave" => \A s \in toPlan \ Batched, e \in Entities :
        SnapOutdated(s, e) => InFlight(s, e) \/ e \in Candidates(s)

RowInv == NoRowForgotten /\ PlannedInv /\ SnapBehind /\ WaveCovers

-----------------------------------------------------------------------------
\* A write that changes a revision is logged at the end and moves the mark.
LEMMA WriteCovers ==
  ASSUME WorldInv, NEW M \in SUBSET Rows, NEW R, NEW L \in SUBSET Rows, M \subseteq L,
         Write(M, R, L), NEW st \in Stores, NEW e \in Entities, rev'[st][e] # rev[st][e]
  PROVE  /\ Len(log') = Len(log) + 1 /\ <<st, e>> \in log'[Len(log) + 1]
         /\ mark'[st] = clock + 1
<1>1. <<st, e>> \in M
  BY DEF Write, WorldInv, WorldType, Revisions
<1>2. L # {} /\ <<st, e>> \in L
  BY <1>1
<1>3. log' = Append(log, L)
  BY <1>2 DEF Write
<1>4. Len(log') = Len(log) + 1 /\ log'[Len(log) + 1] = L
  BY <1>3 DEF WorldInv, WorldType
<1>5. mark'[st] = clock + 1
  BY <1>1 DEF Write
<1> QED BY <1>2, <1>4, <1>5

\* The entries of the log stay where they are, and no mark moves back.
LEMMA WriteKeeps ==
  ASSUME WorldInv, NEW M \in SUBSET Rows, NEW R, NEW L \in SUBSET Rows, Write(M, R, L)
  PROVE  /\ \A i \in 1..Len(log) : log'[i] = log[i]
         /\ \A st \in Stores : mark[st] <= mark'[st]
<1>1. \A i \in 1..Len(log) : log'[i] = log[i]
  BY DEF Write, WorldInv, WorldType
<1>2. \A st \in Stores : mark[st] <= mark'[st]
  <2> SUFFICES ASSUME NEW st \in Stores PROVE mark[st] <= mark'[st]
    OBVIOUS
  <2>1. mark[st] \in Nat /\ clock \in Nat /\ mark[st] <= clock
    BY DEF WorldInv, WorldType
  <2>2. mark'[st] = clock + 1 \/ mark'[st] = mark[st]
    BY DEF Write
  <2> QED BY <2>1, <2>2
<1> QED BY <1>1, <1>2

\* A row that the next plan looks at, or that moves now, is looked at after
\* the write, whatever rows are forced and whichever systems are reset.
LEMMA WriteWillPlan ==
  ASSUME IInv, PlannedInv, WorldInv', SystemType',
         NEW M \in SUBSET Rows, NEW R, NEW L \in SUBSET Rows, M \subseteq L, Write(M, R, L),
         NEW s \in Systems, NEW e \in Entities,
         cursor' = cursor,
         cursorEpoch'[s] = cursorEpoch[s] \/ cursorEpoch'[s] = Reset,
         planned'[s] = planned[s] \/ planned'[s] = Reset,
         forced[s] \subseteq forced'[s],
         WillPlan(s, e) \/ Deps(s, e, rev') # Deps(s, e, rev)
  PROVE  WillPlan(s, e)'
<1>0. /\ WorldInv /\ WorldType /\ SystemType /\ CursorInv /\ epoch' = epoch
      /\ Reads[s] \subseteq Stores
  BY SystemsAssumption DEF IInv, TypeOK, Write
<1>1. /\ clock \in Nat /\ epoch \in Nat /\ Len(log) \in Nat /\ cursor[s] \in Nat
      /\ \A st \in Stores : mark[st] \in Nat /\ mark'[st] \in Nat
      /\ planned[s] \in Int /\ planned[s] <= clock
  BY <1>0 DEF WorldInv, WorldType, SystemType, PlannedInv, Reset
<1>2. cursorEpoch'[s] = epoch' => cursorEpoch[s] = epoch /\ cursor[s] <= Len(log)
  BY <1>0, <1>1 DEF CursorInv, CursorInLog, Reset
<1>3. CASE Deps(s, e, rev') # Deps(s, e, rev)
  <2>1. PICK st \in Reads[s] : rev'[st][e] # rev[st][e]
    BY <1>3 DEF Deps
  <2>2. /\ Len(log') = Len(log) + 1 /\ <<st, e>> \in log'[Len(log) + 1]
        /\ mark'[st] = clock + 1
    BY <1>0, <2>1, WriteCovers
  <2>3. PeekNeedsPlanning(s, mark)'
    BY <1>1, <2>1, <2>2 DEF PeekNeedsPlanning, InterestMoved
  <2>4. cursor'[s] <= Len(log) => e \in Logged(s, log)'
    BY <1>1, <2>1, <2>2 DEF Logged
  <2> QED BY <1>2, <2>3, <2>4 DEF WillPlan
<1>4. CASE WillPlan(s, e)
  <2>0. /\ \A i \in 1..Len(log) : log'[i] = log[i]
        /\ \A st \in Stores : mark[st] <= mark'[st]
        /\ Len(log) <= Len(log') /\ Len(log') \in Nat
    <3>1. LogGrows
      BY <1>0, WriteGrows
    <3>2. Len(log') \in Nat
      BY DEF WorldInv, WorldType
    <3> QED BY <1>0, <3>1, <3>2, WriteKeeps DEF LogGrows
  <2>1. PeekNeedsPlanning(s, mark)'
    <3>1. InterestMoved(s, mark, planned[s]) => InterestMoved(s, mark', planned[s])
      BY <1>0, <1>1, <2>0 DEF InterestMoved
    <3> QED BY <1>4, <3>1 DEF WillPlan, PeekNeedsPlanning
  <2>2. Logged(s, log) \subseteq Logged(s, log)'
    <3> SUFFICES ASSUME NEW d \in Logged(s, log) PROVE d \in Logged(s, log)'
      OBVIOUS
    <3>1. PICK i \in (cursor[s] + 1)..Len(log) : \E st \in Reads[s] : <<st, d>> \in log[i]
      BY DEF Logged
    <3>2. i \in 1..Len(log) /\ i \in (cursor'[s] + 1)..Len(log')
      BY <1>1, <2>0
    <3>3. log'[i] = log[i]
      BY <2>0, <3>2
    <3> QED BY <3>1, <3>2, <3>3 DEF Logged
  <2> QED BY <1>2, <1>4, <2>1, <2>2 DEF WillPlan
<1> QED BY <1>3, <1>4

\* What a wave leaves in the snapshot's marks: the mark a plan stores is one
\* of them.
LEMMA InterestMarkIsOne ==
  ASSUME NEW s \in Systems, NEW m \in [Stores -> Nat], clock \in Nat,
         \A st \in Stores : m[st] <= clock
  PROVE  /\ InterestMark(s, m) <= clock
         /\ Reads[s] # {} => \E st \in Reads[s] : InterestMark(s, m) = m[st]
<1>1. CASE Reads[s] = {}
  BY <1>1 DEF InterestMark
<1>2. CASE Reads[s] # {}
  <2> DEFINE S == {m[st] : st \in Reads[s]}
  <2>1. S \in SUBSET Nat /\ S # {} /\ \A x \in S : x <= clock
    BY <1>2, SystemsAssumption
  <2>2. Highest(S) \in S
    <3> HIDE DEF S
    <3> QED BY <2>1, HighestBounded
  <2>3. InterestMark(s, m) = Highest(S)
    BY <1>2 DEF InterestMark
  <2> QED BY <2>1, <2>2, <2>3
<1> QED BY <1>1, <1>2

\* A row that does not change its memo entry while somebody writes is still
\* covered.
LEMMA WriteRow ==
  ASSUME IInv, PlannedInv, NoRowForgotten, WorldInv', SystemType',
         NEW M \in SUBSET Rows, NEW R, NEW L \in SUBSET Rows, M \subseteq L, Write(M, R, L),
         NEW s \in Systems \ Batched, NEW e \in Entities,
         cursor' = cursor,
         cursorEpoch'[s] = cursorEpoch[s] \/ cursorEpoch'[s] = Reset,
         planned'[s] = planned[s] \/ planned'[s] = Reset,
         forced[s] \subseteq forced'[s],
         memo'[s][e] = memo[s][e], mode \notin {"drain", "window"}, Outdated(s, e)'
  PROVE  WillPlan(s, e)' \/ InFlight(s, e)
<1>1. CASE Deps(s, e, rev') # Deps(s, e, rev)
  BY <1>1, WriteWillPlan
<1>2. CASE Deps(s, e, rev') = Deps(s, e, rev)
  <2>1. \A st \in Reads[s] : rev'[st][e] = rev[st][e]
    BY <1>2 DEF Deps
  <2>2. Outdated(s, e)
    BY <1>2, <2>1 DEF Outdated, Matches
  <2>3. WillPlan(s, e) \/ InFlight(s, e)
    BY <2>2 DEF NoRowForgotten
  <2> QED BY <2>3, WriteWillPlan
<1> QED BY <1>1, <1>2

\* A step that leaves the world alone writes nothing.
LEMMA NoWrite ==
  ASSUME WorldInv, UNCHANGED worldVars
  PROVE  Write({}, {}, {})
<1>1. rev' = [st \in Stores |-> [e \in Entities |-> rev[st][e]]]
  BY DEF WorldInv, WorldType, Revisions, worldVars
<1>2. mark' = [st \in Stores |-> mark[st]]
  BY DEF WorldInv, WorldType, worldVars
<1> QED BY <1>1, <1>2 DEF Write, worldVars

\* A row that is forced back is looked at by the next plan.
LEMMA ForcedRow ==
  ASSUME SystemType, NEW X, ForceRows(X), NEW s \in Systems, NEW e \in Entities, <<s, e>> \in X
  PROVE  WillPlan(s, e)'
<1>1. CASE s \in Delta
  <2>1. e \in forced'[s]
    BY <1>1 DEF ForceRows
  <2> QED BY <2>1 DEF WillPlan, PeekNeedsPlanning
<1>2. CASE s \notin Delta
  <2>1. planned'[s] = Reset
    BY <1>2 DEF ForceRows
  <2> QED BY <1>2, <2>1 DEF WillPlan, PeekNeedsPlanning
<1> QED BY <1>1, <1>2

\* Forcing rows back takes nothing away from the other rows.
LEMMA ForceRowsKeeps ==
  ASSUME SystemType, NEW X, ForceRows(X), NEW s \in Systems
  PROVE  /\ cursor' = cursor
         /\ cursorEpoch'[s] = cursorEpoch[s] \/ cursorEpoch'[s] = Reset
         /\ planned'[s] = planned[s] \/ planned'[s] = Reset
         /\ forced[s] \subseteq forced'[s]
BY DEF ForceRows, SystemType

\* A system that is reset plans every row.
LEMMA ResetCovers ==
  ASSUME IInv', ResetAll, NEW s \in Systems
  PROVE  (\A e \in Entities : WillPlan(s, e)') /\ planned'[s] <= clock'
<1>1. planned'[s] = Reset /\ cursorEpoch'[s] = Reset
  BY DEF ResetAll
<1>2. epoch' \in Nat /\ clock' \in Nat
  BY DEF IInv, WorldInv, WorldType
<1> QED BY <1>1, <1>2 DEF WillPlan, PeekNeedsPlanning, Reset

\* What is left of a wave stays covered by the snapshot and the runs.
LEMMA WaveKept ==
  ASSUME WaveCovers, UNCHANGED <<memo, cursor, cursorEpoch, forced>>,
         mode' = "wave" => /\ mode = "wave" /\ snap' = snap
                           /\ toPlan' \subseteq toPlan /\ runs' = runs
  PROVE  WaveCovers'
<1> SUFFICES ASSUME mode' = "wave", NEW s \in toPlan' \ Batched, NEW e \in Entities,
                    SnapOutdated(s, e)'
      PROVE  InFlight(s, e)' \/ e \in Candidates(s)'
  BY DEF WaveCovers
<1>1. mode = "wave" /\ snap' = snap /\ s \in toPlan \ Batched /\ runs' = runs
  OBVIOUS
<1>2. SnapOutdated(s, e)
  BY <1>1 DEF SnapOutdated, Matches, Deps
<1>3. InFlight(s, e) \/ e \in Candidates(s)
  BY <1>1, <1>2 DEF WaveCovers
<1> QED BY <1>1, <1>3 DEF InFlight, Candidates, Logged

\* The phase loop moves on: neither the world nor the planner state changes,
\* and runs are dropped only on the way into the preemption window.
LEMMA RowsQuiet ==
  ASSUME RowInv, UNCHANGED <<worldVars, memo, systemVars>>,
         \/ mode' \in {"drain", "window"}
         \/ mode \notin {"drain", "window"} /\ runs' = runs,
         mode' = "wave" => mode = "wave" /\ snap' = snap /\ toPlan' \subseteq toPlan
  PROVE  RowInv'
<1>0. UNCHANGED <<rev, clock, mark, log, epoch, memo, planned, cursor, cursorEpoch, forced>>
  BY DEF worldVars, systemVars
<1>1. NoRowForgotten'
  <2> SUFFICES ASSUME NEW s \in Systems \ Batched, NEW e \in Entities, Outdated(s, e)',
                      mode' \notin {"drain", "window"}
        PROVE  WillPlan(s, e)' \/ InFlight(s, e)'
    BY DEF NoRowForgotten
  <2>1. Outdated(s, e)
    BY <1>0 DEF Outdated, Matches, Deps
  <2>2. WillPlan(s, e) \/ InFlight(s, e)
    BY <2>1 DEF RowInv, NoRowForgotten
  <2>3. WillPlan(s, e) => WillPlan(s, e)'
    BY <1>0 DEF WillPlan, PeekNeedsPlanning, InterestMoved, Logged
  <2>4. InFlight(s, e) => InFlight(s, e)'
    BY DEF InFlight
  <2> QED BY <2>2, <2>3, <2>4
<1>2. PlannedInv'
  BY <1>0 DEF RowInv, PlannedInv
<1>3. SnapBehind'
  BY <1>0 DEF RowInv, SnapBehind, LoggedSince
<1>4. WaveCovers'
  BY <1>0, WaveKept DEF RowInv
<1> QED BY <1>1, <1>2, <1>3, <1>4 DEF RowInv

-----------------------------------------------------------------------------
\* A writer outside the phase: whatever it moves is logged and above every
\* mark, behind the snapshot of a wave too.
LEMMA WriteElsewhereRows ==
  ASSUME IInv, IInv', RowInv, WriteElsewhere
  PROVE  RowInv'
<1>0. WorldInv /\ WorldInv' /\ SystemType' /\ PlannedInv /\ NoRowForgotten
  BY DEF IInv, TypeOK, RowInv
<1>1. PICK x \in Rows : \E removed \in {{}, {x}} : Write({x}, removed, {x})
  BY DEF WriteElsewhere
<1>2. UNCHANGED <<planned, cursor, cursorEpoch, forced, memo, mode, runs, snap, toPlan>>
  BY DEF WriteElsewhere, systemVars, waveVars
<1>3. LogGrows
  BY <1>0, <1>1, WriteGrows
<1>4. NoRowForgotten'
  <2> SUFFICES ASSUME NEW s \in Systems \ Batched, NEW e \in Entities, Outdated(s, e)',
                      mode' \notin {"drain", "window"}
        PROVE  WillPlan(s, e)' \/ InFlight(s, e)'
    BY DEF NoRowForgotten
  <2>1. WillPlan(s, e)' \/ InFlight(s, e)
    BY <1>0, <1>1, <1>2, WriteRow
  <2> QED BY <1>2, <2>1 DEF InFlight
<1>5. PlannedInv'
  <2> SUFFICES ASSUME NEW s \in Systems PROVE planned'[s] <= clock'
    BY DEF PlannedInv
  <2>1. clock \in Nat /\ clock' \in Nat /\ planned'[s] \in Int /\ planned[s] <= clock
    BY <1>0, <1>2 DEF WorldInv, WorldType, SystemType, PlannedInv, Reset
  <2> QED BY <1>2, <1>3, <2>1 DEF LogGrows
<1>6. SnapBehind'
  <2> SUFFICES ASSUME mode' = "wave", NEW st \in Stores, NEW e \in Entities,
                      rev'[st][e] # snap'.rev[st][e]
        PROVE  LoggedSince(st, e)' /\ \A st2 \in Stores : snap'.mark[st2] < mark'[st]
    BY DEF SnapBehind
  <2>1. /\ Len(snap.log) \in Nat /\ Len(log) \in Nat /\ Len(log') \in Nat
        /\ Len(snap.log) <= Len(log) /\ Len(log) <= Len(log')
        /\ clock \in Nat /\ mark[st] \in Nat /\ mark'[st] \in Nat
        /\ \A st2 \in Stores : snap.mark[st2] \in Nat /\ snap.mark[st2] <= clock
    BY <1>0, <1>2, <1>3 DEF IInv, SnapInv, WorldInv, WorldType, LogGrows
  <2>2. CASE rev'[st][e] # rev[st][e]
    <3>1. /\ Len(log') = Len(log) + 1 /\ <<st, e>> \in log'[Len(log) + 1]
          /\ mark'[st] = clock + 1
      BY <1>0, <1>1, <2>2, WriteCovers
    <3> QED BY <1>2, <2>1, <3>1 DEF LoggedSince
  <2>3. CASE rev'[st][e] = rev[st][e]
    <3>1. LoggedSince(st, e) /\ \A st2 \in Stores : snap.mark[st2] < mark[st]
      BY <1>2, <2>3 DEF RowInv, SnapBehind
    <3>2. /\ \A i \in 1..Len(log) : log'[i] = log[i]
          /\ mark[st] <= mark'[st]
      BY <1>0, <1>1, WriteKeeps
    <3>3. LoggedSince(st, e)'
      <4>1. PICK i \in (Len(snap.log) + 1)..Len(log) : <<st, e>> \in log[i]
        BY <3>1 DEF LoggedSince
      <4>2. i \in 1..Len(log) /\ i \in (Len(snap.log) + 1)..Len(log')
        BY <2>1
      <4> QED BY <1>2, <3>2, <4>1, <4>2 DEF LoggedSince
    <3> QED BY <1>2, <2>1, <3>1, <3>2, <3>3
  <2> QED BY <2>2, <2>3
<1>7. WaveCovers'
  BY <1>2, WaveKept DEF RowInv
<1> QED BY <1>4, <1>5, <1>6, <1>7 DEF RowInv

\* A lost memo entry comes with its row forced back.
LEMMA InvalidateRows ==
  ASSUME IInv, IInv', RowInv, NEW s0 \in Systems, NEW e0 \in Entities, Invalidate(s0, e0)
  PROVE  RowInv'
<1>0. WorldInv /\ WorldInv' /\ SystemType /\ SystemType' /\ MemoType /\ PlannedInv /\ NoRowForgotten
  BY DEF IInv, TypeOK, RowInv
<1>1. /\ ForceRows({<<s0, e0>>}) /\ UNCHANGED worldVars /\ runs' = runs
      /\ mode = "idle" /\ mode' = "idle"
  BY DEF Invalidate
<1>2. Write({}, {}, {})
  BY <1>0, <1>1, NoWrite
<1>3. NoRowForgotten'
  <2> SUFFICES ASSUME NEW s \in Systems \ Batched, NEW e \in Entities, Outdated(s, e)'
        PROVE  WillPlan(s, e)' \/ InFlight(s, e)'
    BY DEF NoRowForgotten
  <2>1. CASE s = s0 /\ e = e0
    BY <1>0, <1>1, <2>1, ForcedRow
  <2>2. CASE ~(s = s0 /\ e = e0)
    <3>1. memo'[s][e] = memo[s][e]
      BY <1>0, <2>2 DEF Invalidate, MemoType
    <3>2. /\ cursor' = cursor
          /\ cursorEpoch'[s] = cursorEpoch[s] \/ cursorEpoch'[s] = Reset
          /\ planned'[s] = planned[s] \/ planned'[s] = Reset
          /\ forced[s] \subseteq forced'[s]
      BY <1>0, <1>1, ForceRowsKeeps
    <3>3. WillPlan(s, e)' \/ InFlight(s, e)
      BY <1>0, <1>1, <1>2, <3>1, <3>2, WriteRow
    <3> QED BY <1>1, <3>3 DEF InFlight
  <2> QED BY <2>1, <2>2
<1>4. PlannedInv'
  <2> SUFFICES ASSUME NEW s \in Systems PROVE planned'[s] <= clock'
    BY DEF PlannedInv
  <2>1. planned'[s] = planned[s] \/ planned'[s] = Reset
    BY <1>0, <1>1, ForceRowsKeeps
  <2> QED BY <1>0, <1>1, <2>1 DEF PlannedInv, worldVars, WorldInv, WorldType, Reset
<1>5. SnapBehind' /\ WaveCovers'
  BY <1>1 DEF SnapBehind, WaveCovers
<1> QED BY <1>3, <1>4, <1>5 DEF RowInv

\* Compaction keeps the unread rows of the log it cuts.
LEMMA CompactRows ==
  ASSUME IInv, IInv', RowInv, Compact
  PROVE  RowInv'
<1>0. WorldType /\ SystemType /\ CursorInv /\ NoRowForgotten /\ PlannedInv
  BY DEF IInv, TypeOK, RowInv
<1>1. /\ mode = "idle" /\ mode' = "idle" /\ runs' = runs /\ CompactSystems
      /\ UNCHANGED <<rev, clock, mark, memo, planned>> /\ epoch' = epoch + 1
  BY DEF Compact
<1>2. NoRowForgotten'
  <2> SUFFICES ASSUME NEW s \in Systems \ Batched, NEW e \in Entities, Outdated(s, e)'
        PROVE  WillPlan(s, e)' \/ InFlight(s, e)'
    BY DEF NoRowForgotten
  <2>1. Outdated(s, e)
    BY <1>1 DEF Outdated, Matches, Deps
  <2>2. WillPlan(s, e) \/ InFlight(s, e)
    BY <1>0, <1>1, <2>1 DEF NoRowForgotten
  <2>3. CASE InFlight(s, e)
    BY <1>1, <2>3 DEF InFlight
  <2>4. CASE WillPlan(s, e)
    <3>1. forced[s] \subseteq forced'[s]
      BY <1>1 DEF CompactSystems
    <3>2. PeekNeedsPlanning(s, mark)'
      BY <1>1, <2>4, <3>1 DEF WillPlan, PeekNeedsPlanning, InterestMoved
    <3>3. ASSUME s \in Delta, cursorEpoch'[s] = epoch' PROVE e \in forced'[s]
      <4>1. cursorEpoch[s] <= epoch /\ epoch \in Nat /\ cursorEpoch[s] \in Int
        BY <1>0 DEF CursorInv, WorldType, SystemType, Reset
      <4>2. cursorEpoch[s] = epoch
        BY <1>1, <3>3, <4>1 DEF CompactSystems
      <4>3. forced'[s] = forced[s] \cup Logged(s, log)
        BY <1>1, <2>4, <3>3, <4>2 DEF CompactSystems, WillPlan
      <4> QED BY <2>4, <3>3, <4>2, <4>3 DEF WillPlan
    <3> QED BY <3>2, <3>3 DEF WillPlan
  <2> QED BY <2>2, <2>3, <2>4
<1>3. PlannedInv'
  BY <1>0, <1>1 DEF PlannedInv
<1>4. SnapBehind' /\ WaveCovers'
  BY <1>1 DEF SnapBehind, WaveCovers
<1> QED BY <1>2, <1>3, <1>4 DEF RowInv

\* The snapshot of a wave is the world: it shows every row that is covered.
LEMMA LookRows ==
  ASSUME IInv, RowInv, Look
  PROVE  RowInv'
<1>0. NoRowForgotten /\ PlannedInv
  BY DEF RowInv
<1>1. /\ UNCHANGED <<rev, clock, mark, log, epoch, memo, planned, cursor, cursorEpoch, forced, runs>>
      /\ mode = "head" /\ mode' \in {"wave", "await"}
  BY DEF Look, worldVars, systemVars
<1>2. CASE mode' = "await"
  BY <1>1, <1>2, RowsQuiet DEF worldVars, systemVars
<1>3. CASE mode' = "wave"
  <2>1. snap' = [rev |-> rev, mark |-> mark, log |-> log, epoch |-> epoch] /\ toPlan' = Systems
    BY <1>3 DEF Look
  <2>2. NoRowForgotten'
    BY <1>0, <1>1, <1>3 DEF NoRowForgotten, Outdated, Matches, Deps, WillPlan, InFlight,
       PeekNeedsPlanning, InterestMoved, Logged
  <2>3. PlannedInv'
    BY <1>0, <1>1 DEF PlannedInv
  <2>4. SnapBehind'
    BY <1>1, <2>1 DEF SnapBehind
  <2>5. WaveCovers'
    <3> SUFFICES ASSUME NEW s \in Systems \ Batched, NEW e \in Entities, SnapOutdated(s, e)'
          PROVE  InFlight(s, e)' \/ e \in Candidates(s)'
      BY <2>1 DEF WaveCovers
    <3>1. Outdated(s, e)
      BY <1>1, <2>1 DEF SnapOutdated, Outdated, Matches, Deps
    <3>2. WillPlan(s, e) \/ InFlight(s, e)
      BY <1>0, <1>1, <3>1 DEF NoRowForgotten
    <3>3. InFlight(s, e) => InFlight(s, e)'
      BY <1>1 DEF InFlight
    <3>4. WillPlan(s, e) => e \in Candidates(s)'
      BY <1>1, <2>1 DEF WillPlan, Candidates, Logged
    <3> QED BY <3>2, <3>3, <3>4
  <2> QED BY <2>2, <2>3, <2>4, <2>5 DEF RowInv
<1> QED BY <1>1, <1>2, <1>3

\* A system plans: every outdated row of it is in flight, is forced back, or
\* was moved behind the wave's snapshot and is found by the next one.
LEMMA PlanRows ==
  ASSUME IInv, IInv', RowInv, NEW s \in Systems, PlanSystem(s)
  PROVE  RowInv'
<1> DEFINE fresh == {run \in PlannedRuns(s) : ~Duplicate(run)}
           refused == {run \in fresh : \E other \in runs : Conflicts(run, other)}
           back == UNION {Keys(run) : run \in refused}
           full == refused # {} /\ s \notin Delta
<1>0. WorldType /\ SystemType /\ NoRowForgotten /\ PlannedInv /\ SnapBehind /\ WaveCovers
  BY DEF IInv, TypeOK, RowInv
<1>1. /\ UNCHANGED <<rev, clock, mark, log, epoch, memo, mode, snap>>
      /\ mode = "wave" /\ s \in toPlan /\ toPlan' = toPlan \ {s}
      /\ runs' = runs \cup (fresh \ refused)
  BY DEF PlanSystem, worldVars
<1>2. /\ forced' = [forced EXCEPT ![s] = IF full THEN {} ELSE back]
      /\ planned' = [planned EXCEPT ![s] =
                        IF full THEN Reset
                        ELSE IF s \in Unbounded THEN @ ELSE InterestMark(s, snap.mark)]
      /\ cursor' = [cursor EXCEPT ![s] = IF s \in Delta THEN Len(snap.log) ELSE @]
      /\ cursorEpoch' = [cursorEpoch EXCEPT ![s] =
                            IF full THEN Reset ELSE IF s \in Delta THEN snap.epoch ELSE @]
  BY DEF PlanSystem
<1> HIDE DEF back, full
<1>3. \A t \in Systems : t # s =>
         /\ forced'[t] = forced[t] /\ planned'[t] = planned[t]
         /\ cursor'[t] = cursor[t] /\ cursorEpoch'[t] = cursorEpoch[t]
  BY <1>0, <1>2 DEF SystemType
<1>4. /\ forced'[s] = IF full THEN {} ELSE back
      /\ full => planned'[s] = Reset
      /\ ~full /\ s \notin Unbounded => planned'[s] = InterestMark(s, snap.mark)
      /\ ~full /\ s \in Unbounded => planned'[s] = planned[s]
      /\ s \in Delta => cursor'[s] = Len(snap.log)
  BY <1>0, <1>2 DEF SystemType
<1>5. \A t, e : InFlight(t, e) => InFlight(t, e)'
  BY <1>1 DEF InFlight
<1>6. /\ InterestMark(s, snap.mark) <= clock
      /\ Reads[s] # {} => \E st \in Reads[s] : InterestMark(s, snap.mark) = snap.mark[st]
  BY <1>0, <1>1, InterestMarkIsOne DEF IInv, SnapInv, WorldType
<1>7. ASSUME NEW e \in Entities, s \notin Batched, Outdated(s, e)
      PROVE  WillPlan(s, e)' \/ InFlight(s, e)'
  <2>1. CASE Deps(s, e, rev) = Deps(s, e, snap.rev)
    <3>1. \A st \in Reads[s] : rev[st][e] = snap.rev[st][e]
      BY <2>1 DEF Deps
    <3>2. SnapOutdated(s, e)
      BY <1>7, <2>1, <3>1 DEF Outdated, SnapOutdated, Matches
    <3>3. InFlight(s, e) \/ e \in Candidates(s)
      BY <1>0, <1>1, <1>7, <3>2 DEF WaveCovers
    <3>4. CASE e \in Candidates(s)
      <4> DEFINE run == RunOf(s, {e}, snap.rev)
      <4>1. run \in PlannedRuns(s)
        BY <1>7, <3>2, <3>4 DEF PlannedRuns, PlannedRows, SnapOutdated
      <4>2. run.system = s /\ run.rows = {e} /\ Keys(run) = {e}
        BY <1>7 DEF RunOf, Keys
      <4> HIDE DEF run
      <4>3. CASE Duplicate(run)
        <5>1. InFlight(s, e)
          BY <1>7, <4>2, <4>3 DEF Duplicate, InFlight
        <5> QED BY <1>5, <5>1
      <4>4. CASE run \in refused
        <5>1. CASE s \in Delta
          <6>1. ~full /\ e \in back
            BY <4>2, <4>4, <5>1 DEF full, back
          <6>2. e \in forced'[s]
            BY <1>4, <6>1
          <6> QED BY <6>2 DEF WillPlan, PeekNeedsPlanning
        <5>2. CASE s \notin Delta
          <6>1. full
            BY <4>4, <5>2 DEF full
          <6> QED BY <1>4, <5>2, <6>1 DEF WillPlan, PeekNeedsPlanning
        <5> QED BY <5>1, <5>2
      <4>5. CASE ~Duplicate(run) /\ run \notin refused
        <5>1. run \in runs'
          BY <1>1, <4>1, <4>5
        <5> QED BY <4>2, <5>1 DEF InFlight
      <4> QED BY <4>3, <4>4, <4>5
    <3> QED BY <1>5, <3>3, <3>4
  <2>2. CASE Deps(s, e, rev) # Deps(s, e, snap.rev)
    <3>1. PICK st \in Reads[s] : rev[st][e] # snap.rev[st][e]
      BY <2>2 DEF Deps
    <3>2. st \in Stores
      BY SystemsAssumption
    <3>3. LoggedSince(st, e) /\ \A st2 \in Stores : snap.mark[st2] < mark[st]
      BY <1>0, <1>1, <3>1, <3>2 DEF SnapBehind
    <3>4. InterestMark(s, snap.mark) < mark[st]
      BY <1>6, <3>3, SystemsAssumption
    <3>5. PeekNeedsPlanning(s, mark)'
      BY <1>1, <1>4, <3>4 DEF PeekNeedsPlanning, InterestMoved
    <3>6. s \in Delta => e \in Logged(s, log)'
      BY <1>1, <1>4, <3>3 DEF Logged, LoggedSince
    <3> QED BY <3>5, <3>6 DEF WillPlan
  <2> QED BY <2>1, <2>2
<1>8. NoRowForgotten'
  <2> SUFFICES ASSUME NEW t \in Systems \ Batched, NEW e \in Entities, Outdated(t, e)'
        PROVE  WillPlan(t, e)' \/ InFlight(t, e)'
    BY DEF NoRowForgotten
  <2>1. Outdated(t, e)
    BY <1>1 DEF Outdated, Matches, Deps
  <2>2. CASE t = s
    BY <1>7, <2>1, <2>2
  <2>3. CASE t # s
    <3>1. WillPlan(t, e) \/ InFlight(t, e)
      BY <1>0, <1>1, <2>1 DEF NoRowForgotten
    <3>2. WillPlan(t, e) => WillPlan(t, e)'
      BY <1>1, <1>3, <2>3 DEF WillPlan, PeekNeedsPlanning, InterestMoved, Logged
    <3> QED BY <1>5, <3>1, <3>2
  <2> QED BY <2>2, <2>3
<1>9. PlannedInv'
  <2> SUFFICES ASSUME NEW t \in Systems PROVE planned'[t] <= clock
    BY <1>1 DEF PlannedInv
  <2>1. planned[t] <= clock /\ clock \in Nat
    BY <1>0 DEF PlannedInv, WorldType
  <2> QED BY <1>3, <1>4, <1>6, <2>1 DEF Reset
<1>10. SnapBehind'
  BY <1>0, <1>1 DEF SnapBehind, LoggedSince
<1>11. WaveCovers'
  <2> SUFFICES ASSUME NEW t \in toPlan' \ Batched, NEW e \in Entities, SnapOutdated(t, e)'
        PROVE  InFlight(t, e)' \/ e \in Candidates(t)'
    BY DEF WaveCovers
  <2>1. t \in toPlan \ Batched /\ t # s /\ t \in Systems
    BY <1>1 DEF IInv, TypeOK, LoopType
  <2>2. SnapOutdated(t, e)
    BY <1>1 DEF SnapOutdated, Matches, Deps
  <2>3. InFlight(t, e) \/ e \in Candidates(t)
    BY <1>0, <1>1, <2>1, <2>2 DEF WaveCovers
  <2>4. Candidates(t)' = Candidates(t)
    BY <1>1, <1>3, <2>1 DEF Candidates, Logged
  <2> QED BY <1>5, <2>3, <2>4
<1> QED BY <1>8, <1>9, <1>10, <1>11 DEF RowInv

\* A run that is not stale memoizes what it read, and its own writes; one that
\* is stale is forced back.
LEMMA FinishRows ==
  ASSUME IInv, IInv', RowInv, NEW run \in runs, Finish(run)
  PROVE  RowInv'
<1>0. /\ WorldInv /\ WorldInv' /\ SystemType /\ SystemType' /\ MemoType
      /\ NoRowForgotten /\ PlannedInv
  BY DEF IInv, TypeOK, RowInv
<1>1. /\ run.system \in Systems /\ run.rows \subseteq Entities
      /\ run.deps \in [run.rows -> DepsOf(run.system)] /\ Written(run) \subseteq Rows
  BY WrittenRows DEF IInv, TypeOK, RunType
<1>2. /\ runs' = runs \ {run} /\ mode \in {"await", "batch", "drain"}
      /\ mode' \in {"batch", "drain"} /\ (mode = "drain" => mode' = "drain")
  BY DEF Finish
<1>3. ASSUME NEW s, NEW e, InFlight(s, e), ~(s = run.system /\ e \in run.rows)
      PROVE  InFlight(s, e)'
  BY <1>2, <1>3 DEF InFlight
<1>4. ASSUME CommitStale(run), mode # "drain", NEW s \in Systems \ Batched, NEW e \in Entities,
             Outdated(s, e)'
      PROVE  WillPlan(s, e)' \/ InFlight(s, e)'
  <2>1. PICK moved \in SUBSET Written(run) : Write(moved, {}, Written(run))
    BY <1>4 DEF CommitStale
  <2>2. ForceReplan(run) /\ memo' = memo
    BY <1>4 DEF CommitStale
  <2>3. CASE s = run.system /\ e \in run.rows
    <3>1. <<s, e>> \in {run.system} \X Keys(run) /\ Keys(run) # {}
      BY <2>3 DEF Keys
    <3>2. ForceRows({run.system} \X Keys(run))
      BY <2>2, <3>1 DEF ForceReplan
    <3> QED BY <1>0, <3>1, <3>2, ForcedRow
  <2>4. CASE ~(s = run.system /\ e \in run.rows)
    <3>1. /\ cursor' = cursor
          /\ cursorEpoch'[s] = cursorEpoch[s] \/ cursorEpoch'[s] = Reset
          /\ planned'[s] = planned[s] \/ planned'[s] = Reset
          /\ forced[s] \subseteq forced'[s]
      <4>1. CASE Keys(run) # {}
        <5>1. ForceRows({run.system} \X Keys(run))
          BY <2>2, <4>1 DEF ForceReplan
        <5> QED BY <1>0, <5>1, ForceRowsKeeps
      <4>2. CASE Keys(run) = {}
        BY <1>0, <1>1, <2>2, <4>2 DEF ForceReplan, SystemType
      <4> QED BY <4>1, <4>2
    <3>2. WillPlan(s, e)' \/ InFlight(s, e)
      BY <1>0, <1>1, <1>2, <1>4, <2>1, <2>2, <3>1, WriteRow
    <3> QED BY <1>3, <2>4, <3>2
  <2> QED BY <2>3, <2>4
<1>5. ASSUME CommitFresh(run), mode # "drain", NEW s \in Systems \ Batched, NEW e \in Entities,
             Outdated(s, e)'
      PROVE  WillPlan(s, e)' \/ InFlight(s, e)'
  <2>1. PICK written \in SUBSET Written(run), emitted \in SUBSET (Emits[run.system] \X Entities) :
           \E removed \in {{}, emitted}, lost \in SUBSET (Systems \X Entities) :
              Accept(run, written, emitted, removed, lost)
    BY <1>5 DEF CommitFresh
  <2>2. PICK removed \in {{}, emitted}, lost \in SUBSET (Systems \X Entities) :
           Accept(run, written, emitted, removed, lost)
    BY <2>1
  <2> DEFINE M == written \cup emitted
             R == removed \ written
             L == M \cup Written(run)
  <2>3. M \in SUBSET Rows /\ L \in SUBSET Rows /\ M \subseteq L
    BY <1>1, SystemsAssumption DEF Rows
  <2>4. Write(M, R, L) /\ memo' = MemoAfter(run, lost) /\ ForceRows(lost)
    BY <2>2 DEF Accept
  <2> HIDE DEF M, R, L
  <2>5. /\ cursor' = cursor
        /\ cursorEpoch'[s] = cursorEpoch[s] \/ cursorEpoch'[s] = Reset
        /\ planned'[s] = planned[s] \/ planned'[s] = Reset
        /\ forced[s] \subseteq forced'[s]
    BY <1>0, <2>4, ForceRowsKeeps
  <2>6. CASE <<s, e>> \in lost
    BY <1>0, <2>4, <2>6, ForcedRow
  <2>7. CASE <<s, e>> \notin lost /\ s = run.system /\ e \in run.rows
    <3>1. memo'[s][e] = Refreshed(run, e)
      BY <2>4, <2>7 DEF MemoAfter
    <3>2. run.deps[e] = Deps(s, e, rev)
      BY <1>5, <2>7 DEF CommitFresh, IsCurrent
    <3>3. PICK st \in Reads[s] : rev'[st][e] # Refreshed(run, e)[st]
      <4>1. Refreshed(run, e) # [st \in Reads[s] |-> rev'[st][e]]
        BY <1>5, <3>1 DEF Outdated, Deps
      <4>2. Refreshed(run, e) = [st \in Reads[s] |-> Refreshed(run, e)[st]]
        BY <2>7 DEF Refreshed
      <4> QED BY <4>1, <4>2
    <3>4. rev'[st][e] # rev[st][e]
      BY <2>7, <3>2, <3>3 DEF Refreshed, Deps
    <3>5. Deps(s, e, rev') # Deps(s, e, rev)
      BY <3>4 DEF Deps
    <3> QED BY <1>0, <2>3, <2>4, <2>5, <3>5, WriteWillPlan
  <2>8. CASE <<s, e>> \notin lost /\ ~(s = run.system /\ e \in run.rows)
    <3>1. memo'[s][e] = memo[s][e]
      BY <2>4, <2>8 DEF MemoAfter
    <3>2. WillPlan(s, e)' \/ InFlight(s, e)
      BY <1>0, <1>2, <1>5, <2>3, <2>4, <2>5, <3>1, WriteRow
    <3> QED BY <1>3, <2>8, <3>2
  <2> QED BY <2>6, <2>7, <2>8
<1>6. NoRowForgotten'
  <2>1. mode' # "drain" => mode # "drain"
    BY <1>2
  <2> QED BY <1>4, <1>5, <2>1 DEF NoRowForgotten, Finish
<1>7. PlannedInv'
  <2> SUFFICES ASSUME NEW s \in Systems PROVE planned'[s] <= clock'
    BY DEF PlannedInv
  <2>1. planned'[s] = planned[s] \/ planned'[s] = Reset
    <3>1. CASE CommitStale(run)
      BY <1>0, <1>1, <3>1, ForceRowsKeeps DEF CommitStale, ForceReplan, systemVars, SystemType
    <3>2. CASE CommitFresh(run)
      <4>1. \E X : ForceRows(X)
        BY <3>2 DEF CommitFresh, Accept
      <4> QED BY <1>0, <4>1, ForceRowsKeeps
    <3> QED BY <3>1, <3>2 DEF Finish
  <2>2. clock <= clock'
    BY <1>0 DEF Finish, CommitStale, CommitFresh, Accept, Write, WorldInv, WorldType
  <2>3. clock \in Nat /\ clock' \in Nat /\ planned[s] \in Int /\ planned[s] <= clock
    BY <1>0 DEF WorldInv, WorldType, SystemType, PlannedInv, Reset
  <2> QED BY <2>1, <2>2, <2>3 DEF Reset
<1>8. SnapBehind' /\ WaveCovers'
  BY <1>2 DEF SnapBehind, WaveCovers
<1> QED BY <1>6, <1>7, <1>8 DEF RowInv

-----------------------------------------------------------------------------
\* Nothing is planned yet, and every system plans fully.
LEMMA InitRows == Init => RowInv
<1> SUFFICES ASSUME Init PROVE RowInv
  OBVIOUS
<1>1. NoRowForgotten
  BY DEF Init, NoRowForgotten, WillPlan, PeekNeedsPlanning, Reset
<1>2. PlannedInv
  BY DEF Init, PlannedInv, Reset
<1>3. SnapBehind /\ WaveCovers
  BY DEF Init, SnapBehind, WaveCovers
<1> QED BY <1>1, <1>2, <1>3 DEF RowInv

\* Every step keeps the rows covered.
LEMMA StepRows == IInv /\ IInv' /\ RowInv /\ [Next]_vars => RowInv'
<1> SUFFICES ASSUME IInv, IInv', RowInv, [Next]_vars PROVE RowInv'
  OBVIOUS
<1>WriteElsewhere. CASE WriteElsewhere
  BY <1>WriteElsewhere, WriteElsewhereRows
<1>Compact. CASE Compact
  BY <1>Compact, CompactRows
<1>StartPhase. CASE StartPhase
  BY <1>StartPhase, RowsQuiet DEF StartPhase
<1>Register. CASE Register
  BY <1>Register, RowsQuiet DEF Register, waveVars
<1>Deregister. CASE Deregister
  BY <1>Deregister, RowsQuiet DEF Deregister, waveVars
<1>Invalidate. ASSUME NEW s \in Systems, NEW e \in Entities, Invalidate(s, e) PROVE RowInv'
  BY <1>Invalidate, InvalidateRows
<1>Reset. CASE DropDriver \/ CloseWindow
  <2>1. ResetAll /\ mode' = "idle"
    BY <1>Reset DEF DropDriver, CloseWindow, LeavePhase
  <2>2. NoRowForgotten' /\ PlannedInv'
    BY <2>1, ResetCovers DEF NoRowForgotten, PlannedInv
  <2>3. SnapBehind' /\ WaveCovers'
    BY <2>1 DEF SnapBehind, WaveCovers
  <2> QED BY <2>2, <2>3 DEF RowInv
<1>Preempt. CASE Preempt
  BY <1>Preempt, RowsQuiet DEF Preempt
<1>Look. CASE Look
  BY <1>Look, LookRows
<1>NothingToPlan. CASE NothingToPlan
  BY <1>NothingToPlan, RowsQuiet DEF NothingToPlan
<1>WaveDone. CASE WaveDone
  BY <1>WaveDone, RowsQuiet DEF WaveDone
<1>AwaitPreempt. CASE AwaitPreempt
  BY <1>AwaitPreempt, RowsQuiet DEF AwaitPreempt
<1>Drained. CASE Drained
  BY <1>Drained, RowsQuiet DEF Drained, LeavePhase
<1>EndBatch. CASE EndBatch
  BY <1>EndBatch, RowsQuiet DEF EndBatch
<1>OpenWindow. CASE OpenWindow
  BY <1>OpenWindow, RowsQuiet DEF OpenWindow
<1>SkipSystem. ASSUME NEW s \in Systems, SkipSystem(s) PROVE RowInv'
  BY <1>SkipSystem, RowsQuiet DEF SkipSystem
<1>PlanSystem. ASSUME NEW s \in Systems, PlanSystem(s) PROVE RowInv'
  BY <1>PlanSystem, PlanRows
<1>Finish. ASSUME NEW run \in runs, Finish(run) PROVE RowInv'
  BY <1>Finish, FinishRows
<1>Stutter. CASE UNCHANGED vars
  BY <1>Stutter, RowsQuiet DEF vars, waveVars
<1> QED
  BY <1>WriteElsewhere, <1>Compact, <1>StartPhase, <1>Register, <1>Deregister, <1>Invalidate,
     <1>Reset, <1>Preempt, <1>Look, <1>NothingToPlan, <1>WaveDone, <1>AwaitPreempt, <1>Drained,
     <1>EndBatch, <1>OpenWindow, <1>SkipSystem, <1>PlanSystem, <1>Finish, <1>Stutter
     DEF Next, Loop

\* No row that has to run is ever forgotten by the incremental planner: for
\* any registry of systems, delta-eligible or not, and any interleaving of
\* run_phase_streaming with writers, conflicts, stale runs, compactions,
\* preemptions and dropped drivers.
THEOREM RowsKept == Spec => []NoRowForgotten
<1>1. Init => RowInv
  BY InitRows
<1>2. IInv /\ IInv' /\ RowInv /\ [Next]_vars => RowInv'
  BY StepRows
<1>3. RowInv => NoRowForgotten
  BY DEF RowInv
<1> QED BY <1>1, <1>2, <1>3, Invariant, PTL DEF Spec

-----------------------------------------------------------------------------
(* When a phase completes, it is clean.                                    *)

\* A phase starts with a look at the world.
IdlePlans == mode = "idle" => needsPlan

\* The snapshot of a wave is the world until somebody writes.
SnapExact == mode = "wave" /\ ~unseen => snap.rev = rev /\ snap.mark = mark

\* The loop of run_phase_streaming comes back to s: it looks at the world
\* next, s is still to be planned in this wave, the batch has changed or
\* discarded something, or a row was put off and the run in its way is
\* still to be awaited.
ComesBack(s) ==
    \/ mode = "head" /\ needsPlan
    \/ mode = "wave" /\ s \in toPlan
    \/ mode = "batch" /\ (followup \/ stale \/ deferredConflicts)
    \/ mode \in {"head", "wave", "await"} /\ deferredConflicts /\ runs # {}

\* Inside the loop, and unless somebody else wrote, a row that has to run is
\* in flight or the loop comes back to it: WillPlan alone is not enough, as
\* nobody may be left to plan.
RowsAhead ==
    mode \notin {"idle", "drain", "window"} /\ ~unseen =>
        \A s \in Systems \ Batched, e \in Entities :
            Outdated(s, e) => InFlight(s, e) \/ ComesBack(s)

CleanInv == IdlePlans /\ SnapExact /\ RowsAhead

\* A phase has not started yet.
LEMMA InitClean == Init => CleanInv
BY DEF Init, CleanInv, IdlePlans, SnapExact, RowsAhead

\* The loop moves on without touching the world, the memo table or the runs,
\* and still comes back to whatever it came back to before.
LEMMA CleanQuiet ==
  ASSUME CleanInv, UNCHANGED <<worldVars, memo, runs, unseen>>,
         mode' # "idle", mode' = "wave" => mode = "wave" /\ snap' = snap,
         mode' \notin {"drain", "window"} => mode \notin {"idle", "drain", "window"},
         mode' \notin {"drain", "window"} =>
             \A s \in Systems \ Batched : ComesBack(s) => ComesBack(s)'
  PROVE  CleanInv'
<1>0. UNCHANGED <<rev, mark, memo, runs, unseen>>
  BY DEF worldVars
<1>1. IdlePlans'
  BY DEF IdlePlans
<1>2. SnapExact'
  BY <1>0 DEF CleanInv, SnapExact
<1>3. RowsAhead'
  <2> SUFFICES ASSUME mode' \notin {"idle", "drain", "window"}, ~unseen',
                      NEW s \in Systems \ Batched, NEW e \in Entities, Outdated(s, e)'
        PROVE  InFlight(s, e)' \/ ComesBack(s)'
    BY DEF RowsAhead
  <2>1. Outdated(s, e)
    BY <1>0 DEF Outdated, Matches, Deps
  <2>2. InFlight(s, e) \/ ComesBack(s)
    BY <1>0, <2>1 DEF CleanInv, RowsAhead
  <2> QED BY <1>0, <2>2 DEF InFlight
<1> QED BY <1>1, <1>2, <1>3 DEF CleanInv

\* A wave that looks at nothing has nothing to look at.
LEMMA LookClean ==
  ASSUME RowInv, Look
  PROVE  CleanInv'
<1>0. /\ UNCHANGED <<rev, mark, memo, planned, forced, cursor, cursorEpoch, log, epoch, runs>>
      /\ mode = "head" /\ mode' \in {"wave", "await"}
  BY DEF Look, worldVars, systemVars
<1>1. IdlePlans'
  BY <1>0 DEF IdlePlans
<1>2. SnapExact'
  BY <1>0 DEF Look, SnapExact
<1>3. RowsAhead'
  <2> SUFFICES ASSUME NEW s \in Systems \ Batched, NEW e \in Entities, Outdated(s, e)'
        PROVE  InFlight(s, e)' \/ ComesBack(s)'
    BY DEF RowsAhead
  <2>1. Outdated(s, e)
    BY <1>0 DEF Outdated, Matches, Deps
  <2>2. CASE \E t \in Systems : PeekNeedsPlanning(t, mark)
    <3>1. mode' = "wave" /\ toPlan' = Systems
      BY <2>2 DEF Look
    <3> QED BY <3>1 DEF ComesBack
  <2>3. CASE ~ \E t \in Systems : PeekNeedsPlanning(t, mark)
    <3>1. ~WillPlan(s, e)
      BY <2>3 DEF WillPlan
    <3>2. InFlight(s, e)
      BY <1>0, <2>1, <3>1 DEF RowInv, NoRowForgotten
    <3> QED BY <1>0, <3>2 DEF InFlight
  <2> QED BY <2>2, <2>3
<1> QED BY <1>1, <1>2, <1>3 DEF CleanInv

\* A system is skipped only if all its outdated rows are in flight.
LEMMA SkipClean ==
  ASSUME RowInv, CleanInv, NEW s0 \in Systems, SkipSystem(s0)
  PROVE  CleanInv'
<1>0. /\ UNCHANGED <<rev, mark, memo, runs, unseen, mode, snap, deferredConflicts>>
      /\ mode = "wave" /\ toPlan' = toPlan \ {s0} /\ ~PeekNeedsPlanning(s0, snap.mark)
  BY DEF SkipSystem, worldVars, loopVars
<1>1. IdlePlans' /\ SnapExact'
  BY <1>0 DEF CleanInv, IdlePlans, SnapExact
<1>2. RowsAhead'
  <2> SUFFICES ASSUME ~unseen', NEW s \in Systems \ Batched, NEW e \in Entities, Outdated(s, e)'
        PROVE  InFlight(s, e)' \/ ComesBack(s)'
    BY DEF RowsAhead
  <2>1. Outdated(s, e)
    BY <1>0 DEF Outdated, Matches, Deps
  <2>2. CASE s = s0
    <3>1. ~WillPlan(s, e)
      BY <1>0, <2>2 DEF CleanInv, SnapExact, WillPlan
    <3>2. InFlight(s, e)
      BY <1>0, <2>1, <3>1 DEF RowInv, NoRowForgotten
    <3> QED BY <1>0, <3>2 DEF InFlight
  <2>3. CASE s # s0
    <3>1. InFlight(s, e) \/ ComesBack(s)
      BY <1>0, <2>1 DEF CleanInv, RowsAhead
    <3>2. ComesBack(s) => ComesBack(s)'
      BY <1>0, <2>3 DEF ComesBack
    <3> QED BY <1>0, <3>1, <3>2 DEF InFlight
  <2> QED BY <2>2, <2>3
<1> QED BY <1>1, <1>2 DEF CleanInv

\* A plan leaves each outdated row in flight, or put off behind a run that is
\* in flight.
LEMMA PlanClean ==
  ASSUME RowInv, CleanInv, NEW s0 \in Systems, PlanSystem(s0)
  PROVE  CleanInv'
<1> DEFINE fresh == {run \in PlannedRuns(s0) : ~Duplicate(run)}
           refused == {run \in fresh : \E other \in runs : Conflicts(run, other)}
<1>0. /\ UNCHANGED <<rev, mark, memo, unseen, mode, snap>>
      /\ mode = "wave" /\ s0 \in toPlan /\ toPlan' = toPlan \ {s0}
      /\ runs' = runs \cup (fresh \ refused)
      /\ deferredConflicts' = (deferredConflicts \/ refused # {})
  BY DEF PlanSystem, worldVars
<1>1. IdlePlans' /\ SnapExact'
  BY <1>0 DEF CleanInv, IdlePlans, SnapExact
<1>2. \A t, e : InFlight(t, e) => InFlight(t, e)'
  BY <1>0 DEF InFlight
<1>3. RowsAhead'
  <2> SUFFICES ASSUME ~unseen', NEW s \in Systems \ Batched, NEW e \in Entities, Outdated(s, e)'
        PROVE  InFlight(s, e)' \/ ComesBack(s)'
    BY DEF RowsAhead
  <2>1. Outdated(s, e)
    BY <1>0 DEF Outdated, Matches, Deps
  <2>2. CASE s = s0
    <3>1. SnapOutdated(s, e)
      BY <1>0, <2>1 DEF CleanInv, SnapExact, SnapOutdated, Outdated
    <3>2. CASE e \in Candidates(s)
      <4> DEFINE run == RunOf(s, {e}, snap.rev)
      <4>1. run \in PlannedRuns(s)
        BY <3>1, <3>2 DEF PlannedRuns, PlannedRows, SnapOutdated
      <4>2. run.system = s /\ run.rows = {e}
        BY DEF RunOf
      <4> HIDE DEF run
      <4>3. CASE Duplicate(run)
        <5>1. InFlight(s, e)
          BY <4>2, <4>3 DEF Duplicate, InFlight
        <5> QED BY <1>2, <5>1
      <4>4. CASE run \in refused
        <5>1. runs' # {} /\ deferredConflicts'
          BY <1>0, <4>4
        <5> QED BY <1>0, <5>1 DEF ComesBack
      <4>5. CASE ~Duplicate(run) /\ run \notin refused
        <5>1. run \in runs'
          BY <1>0, <2>2, <4>1, <4>5
        <5> QED BY <4>2, <5>1 DEF InFlight
      <4> QED BY <4>3, <4>4, <4>5
    <3>3. InFlight(s, e) \/ e \in Candidates(s)
      BY <1>0, <2>2, <3>1 DEF RowInv, WaveCovers
    <3> QED BY <1>2, <3>2, <3>3
  <2>3. CASE s # s0
    <3>1. InFlight(s, e) \/ ComesBack(s)
      BY <1>0, <2>1 DEF CleanInv, RowsAhead
    <3>2. ComesBack(s) => ComesBack(s)'
      BY <1>0, <2>3 DEF ComesBack
    <3> QED BY <1>2, <3>1, <3>2
  <2> QED BY <2>2, <2>3
<1> QED BY <1>1, <1>3 DEF CleanInv

\* A run that moved nothing and lost nobody's memo entry leaves its rows
\* memoized; any other makes the loop look again.
LEMMA FinishClean ==
  ASSUME IInv, CleanInv, NEW run \in runs, Finish(run)
  PROVE  CleanInv'
<1>0. /\ mode \in {"await", "batch", "drain"} /\ runs' = runs \ {run}
      /\ mode' = (IF mode = "drain" THEN "drain" ELSE "batch")
      /\ UNCHANGED <<unseen, deferredConflicts>>
      /\ followup \in BOOLEAN /\ stale \in BOOLEAN
  BY DEF Finish, loopVars, IInv, TypeOK, FlagType
<1>1. IdlePlans' /\ SnapExact'
  BY <1>0 DEF IdlePlans, SnapExact
<1>2. RowsAhead'
  <2> SUFFICES ASSUME mode # "drain", ~unseen, ~stale', ~followup', ~deferredConflicts,
                      NEW s \in Systems \ Batched, NEW e \in Entities, Outdated(s, e)'
        PROVE  InFlight(s, e)'
    BY <1>0 DEF RowsAhead, ComesBack
  <2>1. CommitFresh(run)
    BY DEF Finish, CommitStale
  <2>2. PICK written \in SUBSET Written(run),
             emitted \in SUBSET (Emits[run.system] \X Entities) :
           \E removed \in {{}, emitted}, lost \in SUBSET (Systems \X Entities) :
              Accept(run, written, emitted, removed, lost)
    BY <2>1 DEF CommitFresh
  <2>3. PICK removed \in {{}, emitted}, lost \in SUBSET (Systems \X Entities) :
           Accept(run, written, emitted, removed, lost)
    BY <2>2
  <2>4. written \cup emitted = {} /\ lost = {} /\ ~followup /\ ~stale
    BY <1>0, <2>3 DEF Accept
  <2>5. rev' = rev
    <3>1. rev' = [st \in Stores |-> [d \in Entities |-> rev[st][d]]]
      BY <2>3, <2>4 DEF Accept, Write
    <3> QED BY <3>1 DEF IInv, TypeOK, WorldType, Revisions
  <2>6. memo'[s][e] = IF s = run.system /\ e \in run.rows THEN Refreshed(run, e) ELSE memo[s][e]
    BY <2>3, <2>4 DEF Accept, MemoAfter
  <2>7. CASE s = run.system /\ e \in run.rows
    <3>1. run.deps[e] = Deps(s, e, rev)
      BY <2>1, <2>7 DEF CommitFresh, IsCurrent
    <3>2. Refreshed(run, e) = Deps(s, e, rev')
      BY <2>5, <2>7, <3>1 DEF Refreshed, Deps
    <3> QED BY <2>6, <2>7, <3>2 DEF Outdated
  <2>8. CASE ~(s = run.system /\ e \in run.rows)
    <3>1. Outdated(s, e)
      BY <2>5, <2>6, <2>8 DEF Outdated, Matches, Deps
    <3>2. ~ComesBack(s)
      BY <1>0, <2>4 DEF ComesBack
    <3>3. InFlight(s, e)
      BY <1>0, <3>1, <3>2 DEF CleanInv, RowsAhead
    <3> QED BY <1>0, <2>8, <3>3 DEF InFlight
  <2> QED BY <2>7, <2>8
<1> QED BY <1>1, <1>2 DEF CleanInv

\* Every step keeps it.
LEMMA StepClean == IInv /\ RowInv /\ CleanInv /\ [Next]_vars => CleanInv'
<1> SUFFICES ASSUME IInv, RowInv, CleanInv, [Next]_vars PROVE CleanInv'
  OBVIOUS
<1>0. /\ mode \in Modes /\ unseen \in BOOLEAN /\ IdlePlans /\ SnapExact /\ RowsAhead
  BY DEF IInv, TypeOK, LoopType, FlagType, CleanInv
<1>WriteElsewhere. CASE WriteElsewhere
  <2>1. UNCHANGED <<mode, needsPlan>> /\ unseen' = (mode # "idle")
    BY <1>WriteElsewhere DEF WriteElsewhere, loopVars
  <2> QED BY <1>0, <2>1 DEF CleanInv, IdlePlans, SnapExact, RowsAhead
<1>Idle. CASE Compact \/ (\E s \in Systems, e \in Entities : Invalidate(s, e))
  <2>1. mode' = "idle" /\ mode = "idle" /\ needsPlan' = needsPlan
    BY <1>Idle DEF Compact, Invalidate, loopVars
  <2> QED BY <1>0, <2>1 DEF CleanInv, IdlePlans, SnapExact, RowsAhead
<1>StartPhase. CASE StartPhase
  <2>1. mode = "idle" /\ mode' = "head" /\ needsPlan' = needsPlan
    BY <1>StartPhase DEF StartPhase, loopVars
  <2> QED BY <1>0, <2>1 DEF CleanInv, IdlePlans, SnapExact, RowsAhead, ComesBack
<1>Register. CASE Register \/ Deregister
  <2>1. UNCHANGED <<rev, mark, memo, runs, unseen, mode, snap, toPlan, needsPlan,
                    deferredConflicts, followup, stale>>
    BY <1>Register DEF Register, Deregister, worldVars, waveVars, loopVars, batchVars
  <2> QED
    BY <1>0, <2>1 DEF CleanInv, IdlePlans, SnapExact, RowsAhead, ComesBack, Outdated,
       Matches, Deps, InFlight
<1>Leave. CASE DropDriver \/ Drained \/ CloseWindow
  <2>1. mode' = "idle" /\ needsPlan'
    BY <1>Leave DEF DropDriver, Drained, CloseWindow, LeavePhase
  <2> QED BY <2>1 DEF CleanInv, IdlePlans, SnapExact, RowsAhead
<1>Window. CASE Preempt \/ OpenWindow
  <2>1. mode' \in {"drain", "window"}
    BY <1>Window DEF Preempt, OpenWindow
  <2> QED BY <2>1 DEF CleanInv, IdlePlans, SnapExact, RowsAhead
<1>Look. CASE Look
  BY <1>Look, LookClean
<1>NothingToPlan. CASE NothingToPlan
  BY <1>NothingToPlan, CleanQuiet DEF NothingToPlan, ComesBack
<1>WaveDone. CASE WaveDone
  BY <1>WaveDone, CleanQuiet DEF WaveDone, ComesBack, loopVars
<1>AwaitPreempt. CASE AwaitPreempt
  BY <1>AwaitPreempt, CleanQuiet DEF AwaitPreempt, ComesBack
<1>EndBatch. CASE EndBatch
  BY <1>EndBatch, CleanQuiet DEF EndBatch, ComesBack
<1>SkipSystem. ASSUME NEW s \in Systems, SkipSystem(s) PROVE CleanInv'
  BY <1>SkipSystem, SkipClean
<1>PlanSystem. ASSUME NEW s \in Systems, PlanSystem(s) PROVE CleanInv'
  BY <1>PlanSystem, PlanClean
<1>Finish. ASSUME NEW run \in runs, Finish(run) PROVE CleanInv'
  BY <1>Finish, FinishClean
<1>Stutter. CASE UNCHANGED vars
  <2>1. UNCHANGED <<rev, mark, memo, runs, unseen, mode, snap, toPlan, needsPlan,
                    deferredConflicts, followup, stale>>
    BY <1>Stutter DEF vars, worldVars, waveVars, loopVars, batchVars
  <2> QED
    BY <1>0, <2>1 DEF CleanInv, IdlePlans, SnapExact, RowsAhead, ComesBack, Outdated,
       Matches, Deps, InFlight
<1> QED
  BY <1>WriteElsewhere, <1>Idle, <1>StartPhase, <1>Register, <1>Leave, <1>Window, <1>Look,
     <1>NothingToPlan, <1>WaveDone, <1>AwaitPreempt, <1>EndBatch, <1>SkipSystem,
     <1>PlanSystem, <1>Finish, <1>Stutter
     DEF Next, Loop

\* A phase that completes leaves no row to run, for any registry without
\* wrapped systems: whatever was put off by a conflict, discarded as stale,
\* or made runnable by a commit of the phase was planned again before
\* run_phase_streaming returned.  With on_start or on_complete it fails
\* (planner_batched).
THEOREM PhasesEndClean ==
  ASSUME Batched = {}
  PROVE  Spec => PhaseEndsClean
<1> DEFINE I == IInv /\ RowInv /\ CleanInv
<1>1. Init => I
  BY InitInv, InitRows, InitClean
<1>2. I /\ [Next]_vars => I'
  BY StepInv, StepRows, StepClean
<1>3. I /\ [Next]_vars =>
        [mode = "await" /\ mode' = "idle" /\ runs = {} /\ ~unseen =>
            \A s \in Systems, e \in Entities : ~Outdated(s, e)]_vars
  <2> SUFFICES ASSUME CleanInv, mode = "await", runs = {}, ~unseen,
                      NEW s \in Systems, NEW e \in Entities, Outdated(s, e)
        PROVE  FALSE
    OBVIOUS
  <2>1. ~InFlight(s, e) /\ ~ComesBack(s)
    BY DEF InFlight, ComesBack
  <2> QED BY <2>1 DEF CleanInv, RowsAhead
<1> QED BY <1>1, <1>2, <1>3, PTL DEF Spec, PhaseEndsClean
=============================================================================
