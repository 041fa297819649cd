---------------------------- MODULE EpochsProofs ----------------------------
(***************************************************************************)
(* Types and safety of the single-flight protocol of Epochs, for every     *)
(* number of callers and writers and with futures dropped at any await.    *)
(*                                                                         *)
(* One inductive invariant, ControlInv, carries the four results: the      *)
(* order of generations, the runner lock, the count of epoch guards, and   *)
(* the bound on what a caller may wait for.                                *)
(***************************************************************************)
EXTENDS Epochs, FiniteSetTheorems, FunctionTheorems, SequenceTheorems, TLAPS

USE DEF genVars, inVars, setVars, preVars, runVars, memoVars, worldVars, taskVars,
        writerVars, boundVars, histVars, sysVars, locals, restVars, exceptPc, vars

-----------------------------------------------------------------------------
(* Types: one step per action, and under it one per part of TypeOK that    *)
(* the action can disturb.                                                 *)

\* The cardinality of the indices of a sequence.
LEMMA IntervalCardinality ==
  ASSUME NEW k \in Nat
  PROVE  IsFiniteSet(1..k) /\ Cardinality(1..k) = k
<1>1. 1 \in Int /\ k \in Int
  OBVIOUS
<1>2. IsFiniteSet(1..k) /\ Cardinality(1..k) = IF 1 > k THEN 0 ELSE k - 1 + 1
  BY ONLY <1>1, FS_Interval
<1> QED BY <1>2

\* What promote_deferred_inputs moves is a prefix of the deferred queue.
LEMMA PromoteType ==
  ASSUME InputType, NEW v, Promote(v)
  PROVE  pendingInputs' \subseteq Inputs /\ deferred' \in Seq(Input)
<1> DEFINE n == Cardinality(Promotable(v))
<1>1. Len(deferred) \in Nat /\ Promotable(v) \subseteq 1..Len(deferred)
  BY DEF InputType, Promotable
<1>2. IsFiniteSet(1..Len(deferred)) /\ Cardinality(1..Len(deferred)) = Len(deferred)
  BY <1>1, IntervalCardinality
<1>3. n \in Nat /\ n <= Len(deferred)
  BY <1>1, <1>2, FS_Subset, FS_CardinalityType
<1>4. SubSeq(deferred, n + 1, Len(deferred)) \in Seq(Input)
  BY <1>1, <1>3, SubSeqProperties DEF InputType
<1>5. \A i \in 1..n : deferred[i].input \in Inputs
  <2> SUFFICES ASSUME NEW i \in 1..n PROVE deferred[i].input \in Inputs
    OBVIOUS
  <2>1. i \in 1..Len(deferred)
    BY <1>1, <1>3
  <2>2. deferred[i] \in Input
    BY <2>1, ElementOfSeq DEF InputType
  <2> QED BY <2>2 DEF Input
<1> QED BY <1>4, <1>5 DEF Promote, InputType

\* A move of the world keeps the types of the world.
LEMMA MoveWorldType ==
  ASSUME WorldType, MoveWorld \/ RemoveFromWorld
  PROVE  /\ revision' \in Nat /\ viewStale' \in BOOLEAN
         /\ dirty' \subseteq NormalPhases /\ late' \subseteq NormalPhases
<1>1. MoveStores
  BY DEF MoveWorld, RemoveFromWorld
<1>2. revision' \in Nat /\ viewStale' \in BOOLEAN
  BY <1>1, RegistryAssumption DEF MoveStores, WorldType
<1>3. dirty' \subseteq NormalPhases /\ late' \subseteq NormalPhases
  BY DEF MoveWorld, RemoveFromWorld, WorldType
<1> QED BY <1>2, <1>3

\* Bowl::new and register_system establish the types.
LEMMA TypeInit == Init => TypeOK
<1> SUFFICES ASSUME Init PROVE TypeOK
  OBVIOUS
<1>1. GenType
  BY DEF Init, GenType
<1>2. InputType
  <2>1. deferred \in Seq(Input)
    BY DEF Init
  <2>2. deferredSettle \in BOOLEAN
    BY Zenon DEF Init
  <2> QED BY <2>1, <2>2 DEF Init, InputType
<1>3. SettleType
  BY DEF Init, SettleType
<1>4. PreemptType
  BY DEF Init, PreemptType, Writers
<1>5. RunType
  BY DEF Init, RunType, Phases
<1>6. MemoType
  BY DEF Init, MemoType, NoEntry
<1>7. WorldType
  BY DEF Init, WorldType, NormalPhases
<1>8. TaskType
  BY DEF Init, TaskType, PCs, Cancellable, Evaluating, Driving
<1>9. WriterType
  BY DEF Init, WriterType, WPCs
<1>10. BoundType
  BY DEF Init, BoundType
<1>11. HistType
  <2>1. owed \in [Callers -> SUBSET Inputs] /\ outEpoch \in Int
    BY DEF Init, NoEntry
  <2>2. startupOwed \in BOOLEAN
    BY Zenon DEF Init
  <2> QED BY <2>1, <2>2 DEF HistType
<1> QED BY <1>1, <1>2, <1>3, <1>4, <1>5, <1>6, <1>7, <1>8, <1>9, <1>10, <1>11 DEF TypeOK

\* A write behind the driver keeps the driver's types.
LEMMA BehindDriverType ==
  ASSUME RunType, NEW K \in SUBSET Kinds, BehindDriver(K)
  PROVE  RunType'
<1>1. unseen' = unseen \/ unseen' = unseen \cup K
  BY Zenon DEF BehindDriver
<1>2. unseen' \subseteq Kinds
  BY <1>1 DEF RunType
<1> QED BY <1>2 DEF RunType, BehindDriver

\* The kinds of a move are kinds.
LEMMA MovedType ==
  ASSUME NEW k \in Kinds
  PROVE  Moved(k) \in SUBSET Kinds
<1>1. Moved(k) = {k} \cup {"view"} \/ Moved(k) = {k} \cup {}
  BY Zenon DEF Moved
<1> QED BY <1>1 DEF Kinds

\* The viewer's commit stamps its memo entry with the epoch.
LEMMA ViewerType ==
  ASSUME MemoType, SettleType, NEW c \in Callers, ViewerCommit(c), memo' = memo
  PROVE  MemoType' /\ outEpoch' \in Int /\ viewStale' \in BOOLEAN
<1>1. viewStale' \in BOOLEAN
  BY DEF ViewerCommit
<1> QED BY <1>1 DEF ViewerCommit, Set, MemoType, SettleType

\* Every critical section keeps them.
LEMMA TypeStep == TypeOK /\ [Next]_vars => TypeOK'
<1> SUFFICES ASSUME TypeOK, [Next]_vars PROVE TypeOK'
  OBVIOUS
<1> USE DEF TypeOK
<1>CallSettle. ASSUME NEW c \in Callers, CallSettle(c) PROVE TypeOK'
  <2>1. TaskType'
    BY <1>CallSettle DEF CallSettle, Set, Goto, TaskType, GenType, InputType,
       WorldType, WriterType, PCs, Cancellable, Evaluating, Driving
  <2>2. BoundType'
    BY <1>CallSettle DEF CallSettle, Set, BoundType
  <2>3. HistType'
    BY <1>CallSettle DEF CallSettle, Set, HistType, SettleType, MemoType
  <2> QED
    BY <2>1, <2>2, <2>3, <1>CallSettle DEF CallSettle, GenType, InputType,
       SettleType, PreemptType, RunType, MemoType, WorldType, WriterType
<1>CallTake. ASSUME NEW c \in Callers, CallTake(c) PROVE TypeOK'
  <2>1. TaskType'
    <3>1. PICK w \in Inputs : target' = Set(target, c, gen[w])
      BY <1>CallTake DEF CallTake
    <3>2. gen[w] \in Nat
      BY WritersAssumption DEF WriterType, Writers, Inputs
    <3> QED BY <1>CallTake, <3>1, <3>2 DEF CallTake, Set, Goto, TaskType, PCs, Cancellable
  <2>2. BoundType'
    BY <1>CallTake DEF CallTake, Set, BoundType
  <2>3. HistType'
    BY <1>CallTake DEF CallTake, Set, HistType, SettleType, MemoType
  <2> QED
    BY <2>1, <2>2, <2>3, <1>CallTake DEF CallTake, GenType, InputType,
       SettleType, PreemptType, RunType, MemoType, WorldType, WriterType
<1>FastPath. ASSUME NEW c \in Callers, FastPath(c) PROVE TypeOK'
  BY <1>FastPath DEF FastPath, Goto, GenType, InputType, SettleType,
     PreemptType, RunType, MemoType, WorldType, TaskType, WriterType,
     BoundType, HistType, PCs, Cancellable, Evaluating, Driving
<1>EnterEpoch. ASSUME NEW c \in Callers, EnterEpoch(c) PROVE TypeOK'
  <2>1. SettleType'
    BY <1>EnterEpoch DEF EnterEpoch, Set, SettleType, WorldType
  <2>2. TaskType'
    BY <1>EnterEpoch DEF EnterEpoch, Set, Goto, TaskType, GenType, InputType,
       WorldType, WriterType, PCs, Cancellable, Evaluating, Driving
  <2> QED
    BY <2>1, <2>2, <1>EnterEpoch DEF EnterEpoch, GenType, InputType,
       PreemptType, RunType, MemoType, WorldType, WriterType, BoundType,
       HistType
<1>BoundaryPromote. ASSUME NEW c \in Callers, BoundaryPromote(c) PROVE TypeOK'
  <2>1. GenType'
    BY <1>BoundaryPromote DEF BoundaryPromote, Promote, GetOrInsert, GenType
  <2>2. InputType'
    BY <1>BoundaryPromote, PromoteType DEF BoundaryPromote, InputType
  <2>3. TaskType'
    BY <1>BoundaryPromote DEF BoundaryPromote, Promote, GetOrInsert, Goto,
       TaskType, GenType, InputType, WorldType, WriterType, PCs, Cancellable,
       Evaluating, Driving
  <2> QED
    BY <2>1, <2>2, <2>3, <1>BoundaryPromote DEF BoundaryPromote, SettleType,
       PreemptType, RunType, MemoType, WorldType, WriterType, BoundType,
       HistType
<1>BoundaryReturn. ASSUME NEW c \in Callers, BoundaryReturn(c) PROVE TypeOK'
  BY <1>BoundaryReturn DEF BoundaryReturn, Goto, GenType, InputType,
     SettleType, PreemptType, RunType, MemoType, WorldType, TaskType,
     WriterType, BoundType, HistType, PCs, Cancellable, Evaluating, Driving
<1>PickTarget. ASSUME NEW c \in Callers, PickTarget(c) PROVE TypeOK'
  BY <1>PickTarget DEF PickTarget, Goto, GenType, InputType, SettleType,
     PreemptType, RunType, MemoType, WorldType, TaskType, WriterType,
     BoundType, HistType, PCs, Cancellable, Evaluating, Driving
<1>CheckClean. ASSUME NEW c \in Callers, CheckClean(c) PROVE TypeOK'
  BY <1>CheckClean DEF CheckClean, Goto, GenType, InputType, SettleType,
     PreemptType, RunType, MemoType, WorldType, TaskType, WriterType,
     BoundType, HistType, PCs, Cancellable, Evaluating, Driving
<1>Enqueue. ASSUME NEW c \in Callers, Enqueue(c) PROVE TypeOK'
  <2>1. GenType'
    BY <1>Enqueue DEF Enqueue, GetOrInsert, GenType
  <2>2. TaskType'
    BY <1>Enqueue DEF Enqueue, GetOrInsert, Goto, TaskType, GenType,
       InputType, WorldType, WriterType, PCs, Cancellable, Evaluating, Driving
  <2> QED
    BY <2>1, <2>2, <1>Enqueue DEF Enqueue, InputType, SettleType, PreemptType,
       RunType, MemoType, WorldType, WriterType, BoundType, HistType
<1>Heal. ASSUME NEW c \in Callers, Heal(c) PROVE TypeOK'
  <2>1. MemoType'
    BY <1>Heal DEF Heal, MemoType, SettleType, NoEntry
  <2>2. WorldType'
    BY <1>Heal DEF Heal, WorldType, InputType, MemoType, NormalPhases
  <2>3. TaskType'
    BY <1>Heal DEF Heal, Goto, TaskType, GenType, InputType, WorldType,
       WriterType, PCs, Cancellable, Evaluating, Driving
  <2>4. RunType'
    BY <1>Heal, BehindDriverType DEF Heal, Kinds
  <2> QED
    BY <2>1, <2>2, <2>3, <2>4, <1>Heal DEF Heal, GenType, InputType, SettleType,
       PreemptType, WriterType, BoundType, HistType
<1>NothingToHeal. ASSUME NEW c \in Callers, NothingToHeal(c) PROVE TypeOK'
  BY <1>NothingToHeal DEF NothingToHeal, Victim, Goto, GenType, InputType,
     SettleType, PreemptType, RunType, MemoType, WorldType, TaskType,
     WriterType, BoundType, HistType, PCs, Cancellable, Evaluating, Driving
<1>HooksTake. ASSUME NEW c \in Callers, HooksTake(c) PROVE TypeOK'
  <2>1. MemoType'
    BY <1>HooksTake DEF HooksTake, Set, MemoType, SettleType, NoEntry
  <2>2. TaskType'
    BY <1>HooksTake DEF HooksTake, Set, Goto, TaskType, GenType, InputType,
       WorldType, WriterType, PCs, Cancellable, Evaluating, Driving
  <2> QED
    BY <2>1, <2>2, <1>HooksTake DEF HooksTake, GenType, InputType, SettleType,
       PreemptType, RunType, WorldType, WriterType, BoundType, HistType
<1>HooksCommit. ASSUME NEW c \in Callers, HooksCommit(c) PROVE TypeOK'
  <2>1. WorldType'
    <3>1. CASE UNCHANGED <<revision, dirty, late, viewStale>>
      BY <1>HooksCommit, <3>1 DEF HooksCommit, WorldType, HistType
    <3>2. CASE MoveWorld
      BY <1>HooksCommit, <3>2, MoveWorldType DEF HooksCommit, WorldType
    <3> QED BY <1>HooksCommit, <3>1, <3>2 DEF HooksCommit
  <2>2. TaskType'
    BY <1>HooksCommit DEF HooksCommit, Goto, TaskType, GenType, InputType,
       WorldType, WriterType, PCs, Cancellable, Evaluating, Driving
  <2>3. BoundType'
    BY <1>HooksCommit DEF HooksCommit, BoundType
  <2>4. HistType'
    BY <1>HooksCommit, <2>1 DEF HooksCommit, HistType
  <2>5. RunType'
    <3>1. BehindDriver(Moved("write")) \/ UNCHANGED runVars
      BY <1>HooksCommit DEF HooksCommit
    <3> QED BY <3>1, BehindDriverType, MovedType DEF RunType, runVars, Kinds
  <2> QED
    BY <2>1, <2>2, <2>3, <2>4, <2>5, <1>HooksCommit DEF HooksCommit, GenType,
       InputType, SettleType, PreemptType, MemoType, WriterType
<1>HooksRestore. ASSUME NEW c \in Callers, HooksRestore(c) PROVE TypeOK'
  <2>1. MemoType'
    BY <1>HooksRestore DEF HooksRestore, Set, MemoType, SettleType, NoEntry
  <2>2. TaskType'
    BY <1>HooksRestore DEF HooksRestore, Set, Goto, TaskType, GenType,
       InputType, WorldType, WriterType, PCs, Cancellable, Evaluating, Driving
  <2> QED
    BY <2>1, <2>2, <1>HooksRestore DEF HooksRestore, GenType, InputType,
       SettleType, PreemptType, RunType, WorldType, WriterType, BoundType,
       HistType
<1>SettleTake. ASSUME NEW c \in Callers, SettleTake(c) PROVE TypeOK'
  <2>1. MemoType'
    BY <1>SettleTake DEF SettleTake, Set, MemoType, SettleType, NoEntry
  <2>2. TaskType'
    BY <1>SettleTake DEF SettleTake, Set, Goto, TaskType, GenType, InputType,
       WorldType, WriterType, PCs, Cancellable, Evaluating, Driving
  <2> QED
    BY <2>1, <2>2, <1>SettleTake DEF SettleTake, GenType, InputType,
       SettleType, PreemptType, RunType, WorldType, WriterType, BoundType,
       HistType
<1>SettlePlan. ASSUME NEW c \in Callers, SettlePlan(c) PROVE TypeOK'
  <2>1. TaskType'
    BY <1>SettlePlan DEF SettlePlan, Goto, TaskType, GenType, InputType,
       WorldType, WriterType, PCs, Cancellable, Evaluating, Driving
  <2>2. HistType'
    BY <1>SettlePlan DEF SettlePlan, HistType, SettleType, MemoType
  <2> QED
    BY <2>1, <2>2, <1>SettlePlan DEF SettlePlan, GenType, InputType,
       SettleType, PreemptType, RunType, MemoType, WorldType, WriterType,
       BoundType
<1>SettleCommit. ASSUME NEW c \in Callers, SettleCommit(c) PROVE TypeOK'
  <2>1. InputType'
    BY <1>SettleCommit DEF SettleCommit, InputType, Inputs, Input
  <2>2. SettleType'
    BY <1>SettleCommit DEF SettleCommit, SettleType, WorldType
  <2>3. WorldType'
    <3>1. CASE UNCHANGED <<revision, dirty, late, viewStale>>
      BY <1>SettleCommit, <3>1 DEF SettleCommit, WorldType, HistType
    <3>2. CASE MoveWorld \/ RemoveFromWorld
      BY <1>SettleCommit, <3>2, MoveWorldType DEF SettleCommit, WorldType
    <3> QED BY <1>SettleCommit, <3>1, <3>2 DEF SettleCommit
  <2>4. TaskType'
    BY <1>SettleCommit DEF SettleCommit, Goto, TaskType, GenType, InputType,
       WorldType, WriterType, PCs, Cancellable, Evaluating, Driving
  <2>5. BoundType'
    <3>1. commits' = commits \/ commits' = commits + 1
      BY Zenon, <1>SettleCommit DEF SettleCommit
    <3> QED BY <1>SettleCommit, <3>1 DEF SettleCommit, BoundType
  <2>6. RunType'
    <3>1. BehindDriver(Moved("write")) \/ BehindDriver(Moved("removal")) \/ UNCHANGED runVars
      BY <1>SettleCommit DEF SettleCommit
    <3> QED BY <3>1, BehindDriverType, MovedType DEF RunType, runVars, Kinds
  <2> QED
    BY <2>1, <2>2, <2>3, <2>4, <2>5, <2>6, <1>SettleCommit DEF SettleCommit,
       GenType, PreemptType, MemoType, WriterType, HistType
<1>SettleRestore. ASSUME NEW c \in Callers, SettleRestore(c) PROVE TypeOK'
  <2>1. MemoType'
    BY <1>SettleRestore DEF SettleRestore, Set, MemoType, SettleType, NoEntry
  <2>2. TaskType'
    BY <1>SettleRestore DEF SettleRestore, Set, Goto, TaskType, GenType,
       InputType, WorldType, WriterType, PCs, Cancellable, Evaluating, Driving
  <2> QED
    BY <2>1, <2>2, <1>SettleRestore DEF SettleRestore, GenType, InputType,
       SettleType, PreemptType, RunType, WorldType, WriterType, BoundType,
       HistType
<1>Followup. ASSUME NEW c \in Callers, Followup(c) PROVE TypeOK'
  BY <1>Followup DEF Followup, Goto, GenType, InputType, SettleType,
     PreemptType, RunType, MemoType, WorldType, TaskType, WriterType,
     BoundType, HistType, PCs, Cancellable, Evaluating, Driving
<1>PublishPromote. ASSUME NEW c \in Callers, PublishPromote(c) PROVE TypeOK'
  <2>1. GenType'
    BY <1>PublishPromote DEF PublishPromote, Promote, GetOrInsert, GenType
  <2>2. InputType'
    BY <1>PublishPromote, PromoteType DEF PublishPromote, InputType
  <2>3. TaskType'
    BY <1>PublishPromote DEF PublishPromote, Promote, GetOrInsert, Goto,
       TaskType, GenType, InputType, WorldType, WriterType, PCs, Cancellable,
       Evaluating, Driving
  <2> QED
    BY <2>1, <2>2, <2>3, <1>PublishPromote DEF PublishPromote, SettleType,
       PreemptType, RunType, MemoType, WorldType, WriterType, BoundType,
       HistType
<1>Publish. ASSUME NEW c \in Callers, Publish(c) PROVE TypeOK'
  <2>1. SettleType'
    BY <1>Publish DEF Publish, SettleType, WorldType
  <2>2. TaskType'
    BY <1>Publish DEF Publish, Goto, TaskType, GenType, InputType, WorldType,
       WriterType, PCs, Cancellable, Evaluating, Driving
  <2> QED
    BY <2>1, <2>2, <1>Publish DEF Publish, GenType, InputType, PreemptType,
       RunType, MemoType, WorldType, WriterType, BoundType, HistType
<1>ExitEpoch. ASSUME NEW c \in Callers, ExitEpoch(c) PROVE TypeOK'
  <2>1. GenType'
    BY <1>ExitEpoch DEF ExitEpoch, LeaveEpoch, Set, Promote, GetOrInsert,
       GenType
  <2>2. InputType'
    <3>1. CASE settling = 1 /\ deferred # <<>>
      BY <1>ExitEpoch, <3>1, PromoteType DEF ExitEpoch, LeaveEpoch, InputType
    <3>2. CASE ~(settling = 1 /\ deferred # <<>>)
      BY <1>ExitEpoch, <3>2 DEF ExitEpoch, LeaveEpoch, InputType
    <3> QED BY <3>1, <3>2
  <2>3. SettleType'
    BY <1>ExitEpoch DEF ExitEpoch, LeaveEpoch, Set, Promote, GetOrInsert,
       SettleType, WorldType
  <2>4. TaskType'
    BY <1>ExitEpoch DEF ExitEpoch, LeaveEpoch, Set, Promote, GetOrInsert,
       Goto, TaskType, GenType, InputType, WorldType, WriterType, PCs,
       Cancellable, Evaluating, Driving
  <2>5. WriterType'
    BY <1>ExitEpoch DEF ExitEpoch, LeaveEpoch, Set, Promote, GetOrInsert,
       WakeBoundary, WriterType, GenType, WPCs
  <2> QED
    BY <2>1, <2>2, <2>3, <2>4, <2>5, <1>ExitEpoch DEF ExitEpoch, LeaveEpoch,
       PreemptType, RunType, MemoType, WorldType, BoundType, HistType
<1>Read. ASSUME NEW c \in Callers, Read(c) PROVE TypeOK'
  <2>1. TaskType'
    BY <1>Read DEF Read, Set, Goto, TaskType, GenType, InputType, WorldType,
       WriterType, PCs, Cancellable, Evaluating, Driving
  <2>2. HistType'
    BY <1>Read DEF Read, Set, HistType, SettleType, MemoType
  <2> QED
    BY <2>1, <2>2, <1>Read DEF Read, GenType, InputType, SettleType,
       PreemptType, RunType, MemoType, WorldType, WriterType, BoundType
<1>ForEach. ASSUME NEW c \in Callers, ForEach(c) PROVE TypeOK'
  <2>1. GenType'
    BY <1>ForEach DEF ForEach, GetOrInsert, GenType
  <2>2. SettleType'
    BY <1>ForEach DEF ForEach, SettleType
  <2>3. RunType'
    BY <1>ForEach, BehindDriverType, MovedType DEF ForEach, Kinds
  <2>4. WorldType'
    BY <1>ForEach, MoveWorldType DEF ForEach, WorldType
  <2>5. TaskType'
    BY <1>ForEach DEF ForEach, Set, Goto, TaskType, GenType, InputType, WorldType,
       WriterType, PCs, Cancellable, Evaluating, Driving
  <2>6. BoundType'
    BY <1>ForEach DEF ForEach, BoundType
  <2>7. HistType'
    BY <1>ForEach, <2>4 DEF ForEach, Set, HistType
  <2> QED
    BY <2>1, <2>2, <2>3, <2>4, <2>5, <2>6, <2>7, <1>ForEach DEF ForEach, InputType,
       PreemptType, MemoType, WriterType
<1>Take. ASSUME NEW c \in Callers, Take(c) PROVE TypeOK'
  <2>1. SettleType'
    BY <1>Take DEF Take, Set, SettleType, WorldType
  <2>2. WorldType'
    BY <1>Take, MoveWorldType DEF Take, WorldType
  <2>3. TaskType'
    BY <1>Take DEF Take, Set, Goto, TaskType, GenType, InputType, WorldType,
       WriterType, PCs, Cancellable, Evaluating, Driving
  <2>4. HistType'
    BY <1>Take, <2>2 DEF Take, Set, HistType
  <2>5. RunType'
    BY <1>Take, BehindDriverType, MovedType DEF Take, Kinds
  <2>6. BoundType'
    BY <1>Take DEF Take, BoundType
  <2> QED
    BY <2>1, <2>2, <2>3, <2>4, <2>5, <2>6, <1>Take DEF Take, GenType, InputType,
       PreemptType, MemoType, WriterType
<1>Ensure. ASSUME NEW c \in Callers, Ensure(c) PROVE TypeOK'
  BY <1>Ensure DEF Ensure, Set, Goto, GenType, InputType, SettleType,
     PreemptType, RunType, MemoType, WorldType, TaskType, WriterType,
     BoundType, HistType, PCs, Cancellable, Evaluating, Driving
<1>TryRunner. ASSUME NEW c \in Callers, TryRunner(c) PROVE TypeOK'
  <2>1. RunType'
    BY <1>TryRunner DEF TryRunner, RunType, Phases
  <2>2. TaskType'
    BY <1>TryRunner DEF TryRunner, Goto, TaskType, GenType, InputType,
       WorldType, WriterType, PCs, Cancellable, Evaluating, Driving
  <2> QED
    BY <2>1, <2>2, <1>TryRunner DEF TryRunner, GenType, InputType, SettleType,
       PreemptType, MemoType, WorldType, WriterType, BoundType, HistType
<1>WaitGeneration. ASSUME NEW c \in Callers, WaitGeneration(c) PROVE TypeOK'
  BY <1>WaitGeneration DEF WaitGeneration, Goto, GenType, InputType,
     SettleType, PreemptType, RunType, MemoType, WorldType, TaskType,
     WriterType, BoundType, HistType, PCs, Cancellable, Evaluating, Driving
<1>StartEvaluation. ASSUME NEW c \in Callers, StartEvaluation(c) PROVE TypeOK'
  <2>1. GenType'
    BY <1>StartEvaluation DEF StartEvaluation, Set, AdvanceGeneration, GenType
  <2>2. InputType'
    BY <1>StartEvaluation DEF StartEvaluation, Set, InputType, Inputs, Input
  <2>3. SettleType'
    BY <1>StartEvaluation DEF StartEvaluation, Set, SettleType, WorldType
  <2>4. PreemptType'
    <3>1. window' \in BOOLEAN /\ startupRan' \in BOOLEAN
      BY Zenon, <1>StartEvaluation DEF StartEvaluation
    <3>2. restart' \in BOOLEAN
      BY Zenon, <1>StartEvaluation DEF StartEvaluation
    <3> QED BY <3>1, <3>2, <1>StartEvaluation DEF StartEvaluation, PreemptType
  <2>5. RunType'
    BY <1>StartEvaluation DEF StartEvaluation, Set, RunType, Phases
  <2>6. MemoType'
    BY <1>StartEvaluation DEF StartEvaluation, Set, MemoType, SettleType,
       NoEntry
  <2>7. WorldType'
    <3>1. CASE pendingInputs # {} \/ deferredSettle
      BY <1>StartEvaluation, <3>1, MoveWorldType DEF StartEvaluation, WorldType, InputType
    <3>2. CASE ~(pendingInputs # {} \/ deferredSettle)
      BY <1>StartEvaluation, <3>2 DEF StartEvaluation, WorldType, InputType, HistType
    <3> QED BY <3>1, <3>2
  <2>8. TaskType'
    BY <1>StartEvaluation DEF StartEvaluation, Set, Goto, TaskType, GenType,
       InputType, WorldType, WriterType, PCs, Cancellable, Evaluating, Driving
  <2>9. HistType'
    BY <1>StartEvaluation, <2>7 DEF StartEvaluation, HistType
  <2> QED
    BY <2>1, <2>2, <2>3, <2>4, <2>5, <2>6, <2>7, <2>8, <2>9,
       <1>StartEvaluation DEF StartEvaluation, WriterType, BoundType
<1>NothingPending. ASSUME NEW c \in Callers, NothingPending(c) PROVE TypeOK'
  BY <1>NothingPending DEF NothingPending, Goto, GenType, InputType,
     SettleType, PreemptType, RunType, MemoType, WorldType, TaskType,
     WriterType, BoundType, HistType, PCs, Cancellable, Evaluating, Driving
<1>QuietCommit. ASSUME NEW c \in Callers, QuietCommit(c) PROVE TypeOK'
  <2>1. MemoType' /\ outEpoch' \in Int /\ viewStale' \in BOOLEAN
    <3>1. CASE ViewerCommit(c)
      BY <1>QuietCommit, <3>1, ViewerType DEF QuietCommit
    <3>2. CASE UNCHANGED <<held, outEpoch, viewStale>>
      BY <1>QuietCommit, <3>2 DEF QuietCommit, MemoType, HistType, WorldType
    <3> QED BY <1>QuietCommit, <3>1, <3>2 DEF QuietCommit
  <2>2. WorldType'
    BY <1>QuietCommit, <2>1 DEF QuietCommit, WorldType
  <2>3. HistType'
    BY <1>QuietCommit, <2>1 DEF QuietCommit, HistType
  <2> QED
    BY <2>1, <2>2, <2>3, <1>QuietCommit DEF QuietCommit, GenType, InputType,
       SettleType, PreemptType, RunType, TaskType, WriterType, BoundType
<1>LoudCommit. ASSUME NEW c \in Callers, LoudCommit(c) PROVE TypeOK'
  <2>1. RunType'
    <3>1. changed' \in BOOLEAN
      BY Zenon, <1>LoudCommit DEF LoudCommit
    <3>2. unseen' \subseteq Kinds
      BY <1>LoudCommit, MovedType DEF LoudCommit, Kinds
    <3> QED BY <3>1, <3>2, <1>LoudCommit DEF LoudCommit, RunType
  <2>2. MemoType' /\ outEpoch' \in Int /\ viewStale' \in BOOLEAN
    <3>1. CASE ViewerCommit(c)
      BY <1>LoudCommit, <3>1, ViewerType DEF LoudCommit
    <3>2. CASE UNCHANGED <<held, outEpoch>> /\ viewStale' \in {viewStale, viewStale \/ HasViews}
      BY <1>LoudCommit, <3>2, RegistryAssumption DEF LoudCommit, MemoType, WorldType, HistType
    <3> QED BY <1>LoudCommit, <3>1, <3>2 DEF LoudCommit
  <2>3. WorldType'
    <3>1. dirty' \subseteq NormalPhases /\ late' \subseteq NormalPhases
      BY <1>LoudCommit DEF LoudCommit, WorldType
    <3>2. revision' \in Nat /\ applied' \subseteq Inputs
      BY <1>LoudCommit DEF LoudCommit, WorldType
    <3> QED BY <2>2, <3>1, <3>2 DEF WorldType
  <2>4. BoundType'
    BY <1>LoudCommit DEF LoudCommit, Set, BoundType
  <2>5. HistType'
    BY <1>LoudCommit, <2>2 DEF LoudCommit, HistType
  <2> QED
    BY <2>1, <2>2, <2>3, <2>4, <2>5, <1>LoudCommit DEF LoudCommit, GenType,
       InputType, SettleType, PreemptType, TaskType, WriterType
<1>PhaseDone. ASSUME NEW c \in Callers, PhaseDone(c) PROVE TypeOK'
  <2>1. RunType'
    BY <1>PhaseDone DEF PhaseDone, AllowPreempt, NextPhase, RunType, Phases
  <2>2. TaskType'
    BY <1>PhaseDone DEF PhaseDone, AllowPreempt, NextPhase, Goto, TaskType,
       GenType, InputType, WorldType, WriterType, PCs, Cancellable,
       Evaluating, Driving
  <2>3. HistType'
    BY <1>PhaseDone DEF PhaseDone, AllowPreempt, NextPhase, HistType,
       SettleType, MemoType
  <2> QED
    BY <2>1, <2>2, <2>3, <1>PhaseDone DEF PhaseDone, GenType, InputType,
       SettleType, PreemptType, MemoType, WorldType, WriterType, BoundType
<1>Preempt. ASSUME NEW c \in Callers, Preempt(c) PROVE TypeOK'
  BY <1>Preempt DEF Preempt, AllowPreempt, Goto, GenType, InputType,
     SettleType, PreemptType, RunType, MemoType, WorldType, TaskType,
     WriterType, BoundType, HistType, PCs, Cancellable, Evaluating, Driving
<1>OpenWindow. ASSUME NEW c \in Callers, OpenWindow(c) PROVE TypeOK'
  <2>1. PreemptType'
    BY <1>OpenWindow DEF OpenWindow, PreemptType, Writers
  <2>2. TaskType'
    BY <1>OpenWindow DEF OpenWindow, Goto, TaskType, GenType, InputType,
       WorldType, WriterType, PCs, Cancellable, Evaluating, Driving
  <2>3. WriterType'
    BY <1>OpenWindow DEF OpenWindow, WakeBoundary, WriterType, GenType, WPCs
  <2> QED
    BY <2>1, <2>2, <2>3, <1>OpenWindow DEF OpenWindow, GenType, InputType,
       SettleType, RunType, MemoType, WorldType, BoundType, HistType
<1>WindowDrained. ASSUME NEW c \in Callers, WindowDrained(c) PROVE TypeOK'
  BY <1>WindowDrained DEF WindowDrained, Goto, GenType, InputType, SettleType,
     PreemptType, RunType, MemoType, WorldType, TaskType, WriterType,
     BoundType, HistType, PCs, Cancellable, Evaluating, Driving
<1>CloseWindow. ASSUME NEW c \in Callers, CloseWindow(c) PROVE TypeOK'
  <2>1. PreemptType'
    BY <1>CloseWindow DEF CloseWindow, PreemptType, Writers
  <2>2. RunType'
    BY <1>CloseWindow DEF CloseWindow, RunType, Phases
  <2>3. TaskType'
    BY <1>CloseWindow DEF CloseWindow, Goto, TaskType, GenType, InputType,
       WorldType, WriterType, PCs, Cancellable, Evaluating, Driving
  <2> QED
    BY <2>1, <2>2, <2>3, <1>CloseWindow DEF CloseWindow, GenType, InputType,
       SettleType, MemoType, WorldType, WriterType, BoundType, HistType
<1>CompleteGeneration. ASSUME NEW c \in Callers, CompleteGeneration(c) PROVE TypeOK'
  <2>1. GenType'
    BY <1>CompleteGeneration DEF CompleteGeneration, Set, GenType
  <2>2. SettleType'
    BY <1>CompleteGeneration DEF CompleteGeneration, Set, SettleType,
       WorldType
  <2>3. RunType'
    BY <1>CompleteGeneration DEF CompleteGeneration, Set, EndEvaluation,
       RunType, Phases
  <2>4. MemoType'
    BY <1>CompleteGeneration DEF CompleteGeneration, Set, MemoType,
       SettleType, NoEntry
  <2>5. TaskType'
    BY <1>CompleteGeneration DEF CompleteGeneration, Set, WakeUpTo, TaskType,
       GenType, InputType, WorldType, WriterType, PCs, Cancellable,
       Evaluating, Driving
  <2>6. WriterType'
    BY <1>CompleteGeneration DEF CompleteGeneration, Set, WakeBoundary,
       WriterType, GenType, WPCs
  <2> QED
    BY <2>1, <2>2, <2>3, <2>4, <2>5, <2>6, <1>CompleteGeneration DEF
       CompleteGeneration, InputType, PreemptType, WorldType, BoundType,
       HistType
<1>ReleaseRunner. ASSUME NEW c \in Callers, ReleaseRunner(c) PROVE TypeOK'
  <2>1. RunType'
    BY <1>ReleaseRunner DEF ReleaseRunner, RunType, Phases
  <2>2. TaskType'
    BY <1>ReleaseRunner DEF ReleaseRunner, Goto, TaskType, GenType, InputType,
       WorldType, WriterType, PCs, Cancellable, Evaluating, Driving
  <2> QED
    BY <2>1, <2>2, <1>ReleaseRunner DEF ReleaseRunner, GenType, InputType,
       SettleType, PreemptType, MemoType, WorldType, WriterType, BoundType,
       HistType
<1>Cancel. ASSUME NEW c \in Callers, Cancel(c) PROVE TypeOK'
  <2>1. RunType'
    <3>1. CASE runner = c
      <4>1. /\ phase' = "Startup" /\ preemptions' = 0 /\ runner' = runner
            /\ changed' = FALSE /\ unseen' = {}
        BY <1>Cancel, <3>1 DEF Cancel, EndEvaluation
      <4>2. changed' \in BOOLEAN
        BY Zenon, <4>1
      <4> QED BY <4>1, <4>2 DEF RunType, Phases
    <3>2. CASE runner # c
      BY <1>Cancel, <3>2 DEF Cancel, RunType
    <3> QED BY <3>1, <3>2
  <2>2. MemoType'
    BY <1>Cancel DEF Cancel, Set, MemoType, SettleType, NoEntry
  <2>3. TaskType'
    BY <1>Cancel DEF Cancel, Set, Goto, TaskType, GenType, InputType,
       WorldType, WriterType, PCs, Cancellable, Evaluating, Driving
  <2>4. BoundType'
    BY <1>Cancel DEF Cancel, Set, BoundType
  <2>5. HistType'
    BY <1>Cancel DEF Cancel, Set, HistType, SettleType, MemoType
  <2> QED
    BY <2>1, <2>2, <2>3, <2>4, <2>5, <1>Cancel DEF Cancel, GenType, InputType,
       SettleType, PreemptType, WorldType, WriterType
<1>DropEvaluation. ASSUME NEW c \in Callers, DropEvaluation(c) PROVE TypeOK'
  <2>1. GenType'
    BY <1>DropEvaluation DEF DropEvaluation, Set, GetOrInsert, GenType
  <2>2. MemoType'
    BY <1>DropEvaluation DEF DropEvaluation, Set, GetOrInsert, MemoType,
       SettleType, NoEntry
  <2>3. TaskType'
    BY <1>DropEvaluation DEF DropEvaluation, Set, GetOrInsert, TaskType,
       GenType, InputType, WorldType, WriterType, PCs, Cancellable,
       Evaluating, Driving
  <2> QED
    BY <2>1, <2>2, <2>3, <1>DropEvaluation DEF DropEvaluation, InputType,
       SettleType, PreemptType, RunType, WorldType, WriterType, BoundType,
       HistType
<1>DropRunner. ASSUME NEW c \in Callers, DropRunner(c) PROVE TypeOK'
  <2>1. RunType'
    BY <1>DropRunner DEF DropRunner, RunType, Phases
  <2>2. TaskType'
    BY <1>DropRunner DEF DropRunner, Goto, TaskType, GenType, InputType,
       WorldType, WriterType, PCs, Cancellable, Evaluating, Driving
  <2> QED
    BY <2>1, <2>2, <1>DropRunner DEF DropRunner, GenType, InputType,
       SettleType, PreemptType, MemoType, WorldType, WriterType, BoundType,
       HistType
<1>DropEpoch. ASSUME NEW c \in Callers, DropEpoch(c) PROVE TypeOK'
  <2>1. GenType'
    BY <1>DropEpoch DEF DropEpoch, LeaveEpoch, Set, Promote, GetOrInsert,
       GenType
  <2>2. InputType'
    <3>1. CASE settling = 1 /\ deferred # <<>>
      BY <1>DropEpoch, <3>1, PromoteType DEF DropEpoch, LeaveEpoch, InputType
    <3>2. CASE ~(settling = 1 /\ deferred # <<>>)
      BY <1>DropEpoch, <3>2 DEF DropEpoch, LeaveEpoch, InputType
    <3> QED BY <3>1, <3>2
  <2>3. SettleType'
    BY <1>DropEpoch DEF DropEpoch, LeaveEpoch, Set, Promote, GetOrInsert,
       SettleType, WorldType
  <2>4. TaskType'
    BY <1>DropEpoch DEF DropEpoch, LeaveEpoch, Set, Promote, GetOrInsert,
       Goto, TaskType, GenType, InputType, WorldType, WriterType, PCs,
       Cancellable, Evaluating, Driving
  <2>5. WriterType'
    BY <1>DropEpoch DEF DropEpoch, LeaveEpoch, Set, Promote, GetOrInsert,
       WakeBoundary, WriterType, GenType, WPCs
  <2> QED
    BY <2>1, <2>2, <2>3, <2>4, <2>5, <1>DropEpoch DEF DropEpoch, LeaveEpoch,
       PreemptType, RunType, MemoType, WorldType, BoundType, HistType
<1>InsertIdle. ASSUME NEW w \in Writers, InsertIdle(w) PROVE TypeOK'
  <2>1. GenType'
    BY <1>InsertIdle DEF InsertIdle, GetOrInsert, GenType
  <2>2. InputType'
    BY <1>InsertIdle DEF InsertIdle, GetOrInsert, InputType, Inputs, Input
  <2>3. WriterType'
    BY <1>InsertIdle DEF InsertIdle, GetOrInsert, WriterType, GenType, WPCs
  <2> QED
    BY <2>1, <2>2, <2>3, <1>InsertIdle DEF InsertIdle, SettleType,
       PreemptType, RunType, MemoType, WorldType, TaskType, BoundType,
       HistType
<1>InsertDeferred. ASSUME NEW w \in Writers, InsertDeferred(w) PROVE TypeOK'
  <2>1. InputType'
    BY <1>InsertDeferred DEF InsertDeferred, InputType, Inputs, Input
  <2>2. WriterType'
    BY <1>InsertDeferred DEF InsertDeferred, WriterType, GenType, WPCs
  <2> QED
    BY <2>1, <2>2, <1>InsertDeferred DEF InsertDeferred, GenType, SettleType,
       PreemptType, RunType, MemoType, WorldType, TaskType, BoundType,
       HistType
<1>InsertPreempting. ASSUME NEW w \in Writers, InsertPreempting(w) PROVE TypeOK'
  BY <1>InsertPreempting DEF InsertPreempting, GenType, InputType, SettleType,
     PreemptType, RunType, MemoType, WorldType, TaskType, WriterType,
     BoundType, HistType, WPCs
<1>BeginMut. ASSUME NEW w \in Writers, BeginMut(w) PROVE TypeOK'
  BY <1>BeginMut DEF BeginMut, GenType, InputType, SettleType, PreemptType,
     RunType, MemoType, WorldType, TaskType, WriterType, BoundType, HistType,
     WPCs
<1>PreemptingInsertLands. ASSUME NEW w \in Writers, PreemptingInsertLands(w) PROVE TypeOK'
  <2>1. GenType'
    BY <1>PreemptingInsertLands DEF PreemptingInsertLands, GetOrInsert,
       AtBoundary, GenType
  <2>2. InputType'
    BY <1>PreemptingInsertLands DEF PreemptingInsertLands, GetOrInsert,
       AtBoundary, InputType, Inputs, Input
  <2>3. PreemptType'
    BY <1>PreemptingInsertLands DEF PreemptingInsertLands, GetOrInsert,
       AtBoundary, PreemptType, Writers
  <2>4. WriterType'
    BY <1>PreemptingInsertLands DEF PreemptingInsertLands, GetOrInsert,
       AtBoundary, WriterType, GenType, WPCs
  <2>5. HistType'
    BY <1>PreemptingInsertLands DEF PreemptingInsertLands, GetOrInsert,
       AtBoundary, HistType, SettleType, MemoType
  <2> QED
    BY <2>1, <2>2, <2>3, <2>4, <2>5, <1>PreemptingInsertLands DEF
       PreemptingInsertLands, SettleType, RunType, MemoType, WorldType,
       TaskType, BoundType
<1>MutLands. ASSUME NEW w \in Writers, MutLands(w) PROVE TypeOK'
  <2>1. GenType'
    BY <1>MutLands DEF MutLands, GetOrInsert, AtBoundary, GenType
  <2>2. SettleType'
    BY <1>MutLands DEF MutLands, GetOrInsert, AtBoundary, SettleType,
       WorldType
  <2>3. PreemptType'
    BY <1>MutLands DEF MutLands, GetOrInsert, AtBoundary, PreemptType, Writers
  <2>4. WorldType'
    <3>1. CASE MoveWorld
      BY <1>MutLands, <3>1, MoveWorldType DEF MutLands, WorldType
    <3>2. CASE UNCHANGED <<revision, dirty, late, viewStale>>
      BY <1>MutLands, <3>2 DEF MutLands, WorldType, HistType
    <3> QED BY <1>MutLands, <3>1, <3>2 DEF MutLands
  <2>5. WriterType'
    BY <1>MutLands DEF MutLands, GetOrInsert, AtBoundary, WriterType, GenType,
       WPCs
  <2>6. HistType'
    BY <1>MutLands, <2>4 DEF MutLands, AtBoundary, HistType
  <2> QED
    BY <2>1, <2>2, <2>3, <2>4, <2>5, <2>6, <1>MutLands DEF MutLands,
       InputType, RunType, MemoType, TaskType, BoundType
<1>AwaitBoundary. ASSUME NEW w \in Writers, AwaitBoundary(w) PROVE TypeOK'
  <2>1. PreemptType'
    BY <1>AwaitBoundary DEF AwaitBoundary, PreemptType, Writers
  <2>2. WriterType'
    BY <1>AwaitBoundary DEF AwaitBoundary, WriterType, GenType, WPCs
  <2> QED
    BY <2>1, <2>2, <1>AwaitBoundary DEF AwaitBoundary, GenType, InputType,
       SettleType, RunType, MemoType, WorldType, TaskType, BoundType, HistType
<1>MutStale. ASSUME NEW w \in Writers, MutStale(w) PROVE TypeOK'
  <2>1. PreemptType'
    BY <1>MutStale DEF MutStale, PreemptType, Writers
  <2>2. WriterType'
    BY <1>MutStale DEF MutStale, WriterType, GenType, WPCs
  <2> QED
    BY <2>1, <2>2, <1>MutStale DEF MutStale, GenType, InputType,
       SettleType, RunType, MemoType, WorldType, TaskType, BoundType, HistType
<1>MutBusy. ASSUME NEW w \in Writers, MutBusy(w) PROVE TypeOK'
  <2>1. PreemptType'
    BY <1>MutBusy DEF MutBusy, PreemptType
  <2> QED
    BY <2>1, <1>MutBusy DEF MutBusy, GenType, InputType, SettleType,
       RunType, MemoType, WorldType, TaskType, WriterType, BoundType, HistType
<1>CancelWriter. ASSUME NEW w \in Writers, CancelWriter(w) PROVE TypeOK'
  <2>1. PreemptType'
    BY <1>CancelWriter DEF CancelWriter, PreemptType, Writers
  <2>2. WriterType'
    BY <1>CancelWriter DEF CancelWriter, WriterType, GenType, WPCs
  <2>3. BoundType'
    BY <1>CancelWriter DEF CancelWriter, BoundType
  <2> QED
    BY <2>1, <2>2, <2>3, <1>CancelWriter DEF CancelWriter, GenType, InputType,
       SettleType, RunType, MemoType, WorldType, TaskType, HistType
<1>Stutter. CASE UNCHANGED vars
  BY <1>Stutter DEF GenType, InputType, SettleType, PreemptType, RunType, MemoType,
     WorldType, TaskType, WriterType, BoundType, HistType
<1> QED
  BY <1>CallSettle, <1>CallTake, <1>FastPath, <1>EnterEpoch,
     <1>BoundaryPromote, <1>BoundaryReturn, <1>PickTarget, <1>CheckClean,
     <1>Enqueue, <1>Heal, <1>NothingToHeal, <1>HooksTake, <1>HooksCommit,
     <1>HooksRestore, <1>SettleTake, <1>SettlePlan, <1>SettleCommit,
     <1>SettleRestore, <1>Followup, <1>PublishPromote, <1>Publish,
     <1>ExitEpoch, <1>Read, <1>ForEach, <1>Take, <1>Ensure, <1>TryRunner,
     <1>WaitGeneration, <1>StartEvaluation, <1>NothingPending, <1>QuietCommit,
     <1>LoudCommit, <1>PhaseDone, <1>Preempt, <1>OpenWindow, <1>WindowDrained,
     <1>CloseWindow, <1>CompleteGeneration, <1>ReleaseRunner, <1>Cancel,
     <1>DropEvaluation, <1>DropRunner, <1>DropEpoch, <1>InsertIdle,
     <1>InsertDeferred, <1>InsertPreempting, <1>BeginMut,
     <1>PreemptingInsertLands, <1>MutLands, <1>AwaitBoundary, <1>MutStale,
     <1>MutBusy, <1>CancelWriter,
     <1>Stutter
     DEF Next, CallerStep, SettleStep, DriveStep, DropStep, WriterStep, Finished,
         OutOfBounds

\* The state of a bowl, of its callers and of its writers keeps its types,
\* for any number of tasks and any interleaving, dropped futures included.
THEOREM TypeCorrect == Spec => []TypeOK
  BY TypeInit, TypeStep, PTL DEF Spec

-----------------------------------------------------------------------------
(* The protocol.                                                           *)

\* The newest generation that exists in some form.
Horizon == Max2(completed, Max2(running, pending))

\* Inside an evaluation its generation is marked as running.
DriverRuns ==
    \A c \in Callers : pc[c] \in Evaluating \cup {"complete", "dropRun"} => running # 0

\* Where a caller holds an EpochGuard, and where it holds none.
EpochPcs ==
    \A c \in Callers :
        /\ pc[c] \in {"loop", "check", "heal", "hooks", "hooksRun", "hooksDone",
                      "hooksMore", "settle", "settleRun", "settleCommit", "settleDone",
                      "healAgain", "followup", "publish", "enqueue", "exit", "dropEpoch"}
              => inEpoch[c]
        /\ pc[c] \in {"idle", "fast", "enter", "read"} => ~inEpoch[c]

\* Nobody waits beyond the horizon, and no insert recorded more than it.
Targets ==
    /\ \A c \in Callers : target[c] <= Horizon
    /\ \A w \in Writers : gen[w] <= Horizon

PcInv == SingleFlight /\ DriverRuns /\ EpochPcs

ControlInv == TypeOK /\ GenerationOrder /\ PcInv /\ EpochsCounted /\ Targets

\* The generations move forward, and the horizon with them.
GenStep == GenerationOrder' /\ Horizon <= Horizon'

-----------------------------------------------------------------------------
\* A bowl with its first generation enqueued.
LEMMA ControlInit == Init => ControlInv
<1> SUFFICES ASSUME Init PROVE ControlInv
  OBVIOUS
<1>1. TypeOK
  BY TypeInit
<1>2. GenerationOrder
  BY DEF Init, GenerationOrder
<1>3. PcInv
  BY CallersAssumption
     DEF Init, PcInv, SingleFlight, DriverRuns, EpochPcs, Driving, Evaluating
<1>4. EpochsCounted
  <2>1. {c \in Callers : inEpoch[c]} = {}
    BY DEF Init
  <2> QED BY <2>1, FS_EmptySet DEF Init, EpochsCounted
<1>5. Targets
  BY DEF Init, Targets, Horizon, Max2
<1> QED BY <1>1, <1>2, <1>3, <1>4, <1>5 DEF ControlInv

\* What is within the horizon stays within it, where target and gen stay.
LEMMA TargetsKept ==
  ASSUME TypeOK, TypeOK', Targets, Horizon <= Horizon', UNCHANGED <<target, gen>>
  PROVE  Targets'
<1>1. Horizon \in Nat /\ Horizon' \in Nat
  BY DEF TypeOK, GenType, Horizon, Max2
<1> QED BY <1>1 DEF Targets, TypeOK, TaskType, WriterType

\* The same, where a caller's target goes to a generation within it.
LEMMA TargetMoves ==
  ASSUME TypeOK, TypeOK', Targets, Horizon <= Horizon',
         NEW c \in Callers, NEW g \in Nat, g <= Horizon',
         target' = [target EXCEPT ![c] = g], UNCHANGED gen
  PROVE  Targets'
<1>1. Horizon \in Nat /\ Horizon' \in Nat
  BY DEF TypeOK, GenType, Horizon, Max2
<1> QED BY <1>1 DEF Targets, TypeOK, TaskType, WriterType

\* The same, where an insert records a generation within it.
LEMMA GenMoves ==
  ASSUME TypeOK, TypeOK', Targets, Horizon <= Horizon',
         NEW w \in Writers, NEW g \in Nat, g <= Horizon',
         gen' = [gen EXCEPT ![w] = g], UNCHANGED target
  PROVE  Targets'
<1>1. Horizon \in Nat /\ Horizon' \in Nat
  BY DEF TypeOK, GenType, Horizon, Max2
<1> QED BY <1>1 DEF Targets, TypeOK, TaskType, WriterType

\* EpochGuard::enter counts the guard it creates.
LEMMA CountEnter ==
  ASSUME TypeOK, EpochsCounted, NEW c \in Callers, ~inEpoch[c],
         inEpoch' = [inEpoch EXCEPT ![c] = TRUE], settling' = settling + 1
  PROVE  EpochsCounted'
<1> DEFINE S == {d \in Callers : inEpoch[d]}
<1>1. IsFiniteSet(S) /\ c \notin S
  BY CallersAssumption, FS_Subset
<1>2. {d \in Callers : inEpoch'[d]} = S \cup {c}
  BY DEF TypeOK, TaskType
<1>3. Cardinality(S \cup {c}) = Cardinality(S) + 1
  BY <1>1, FS_AddElement
<1> QED BY <1>2, <1>3 DEF EpochsCounted

\* Drop of an EpochGuard uncounts it.
LEMMA CountLeave ==
  ASSUME TypeOK, EpochsCounted, NEW c \in Callers, inEpoch[c],
         inEpoch' = [inEpoch EXCEPT ![c] = FALSE], settling' = settling - 1
  PROVE  EpochsCounted'
<1> DEFINE S == {d \in Callers : inEpoch[d]}
<1>1. IsFiniteSet(S) /\ c \in S
  BY CallersAssumption, FS_Subset
<1>2. {d \in Callers : inEpoch'[d]} = S \ {c}
  BY DEF TypeOK, TaskType
<1>3. Cardinality(S \ {c}) = Cardinality(S) - 1
  BY <1>1, FS_RemoveElement
<1> QED BY <1>2, <1>3 DEF EpochsCounted

\* promote_deferred_inputs asks for the next generation if none is pending.
LEMMA PendingStep ==
  ASSUME TypeOK, GenerationOrder, pending' = GetOrInsert(pending, next) \/ pending' = pending,
         UNCHANGED <<completed, running, next>>
  PROVE  GenStep
<1>1. pending' \in {pending, next} /\ (pending # 0 => pending' = pending)
  BY DEF GetOrInsert
<1>2. GenerationOrder'
  BY <1>1 DEF TypeOK, GenType, GenerationOrder
<1>3. Horizon <= Horizon'
  BY <1>1 DEF TypeOK, GenType, GenerationOrder, Horizon, Max2
<1> QED BY <1>2, <1>3 DEF GenStep

-----------------------------------------------------------------------------
\* Every critical section keeps the control invariant.
LEMMA ControlStep == ControlInv /\ [Next]_vars => ControlInv'
<1> SUFFICES ASSUME ControlInv, [Next]_vars PROVE ControlInv'
  OBVIOUS
<1>0. TypeOK /\ TypeOK' /\ GenerationOrder /\ PcInv /\ EpochsCounted /\ Targets
  BY TypeStep DEF ControlInv
<1> SUFFICES GenStep /\ PcInv' /\ EpochsCounted' /\ Targets'
  BY <1>0 DEF ControlInv, GenStep
<1>GenKept. ASSUME UNCHANGED genVars PROVE GenStep
  BY <1>0, <1>GenKept, PendingStep
<1>TargetsKept. ASSUME GenStep, UNCHANGED <<target, gen>> PROVE Targets'
  BY <1>0, <1>TargetsKept, TargetsKept DEF GenStep
<1>CountKept. ASSUME UNCHANGED <<inEpoch, settling>> PROVE EpochsCounted'
  BY <1>0, <1>CountKept DEF EpochsCounted
<1>PcsKept. ASSUME UNCHANGED <<pc, inEpoch, runner, running>> PROVE PcInv'
  BY <1>0, <1>PcsKept DEF PcInv, SingleFlight, DriverRuns, EpochPcs
<1>CallSettle. ASSUME NEW c \in Callers, CallSettle(c)
       PROVE  GenStep /\ PcInv' /\ EpochsCounted' /\ Targets'
  <2>1. GenStep
    BY <1>CallSettle, <1>GenKept DEF CallSettle
  <2>2. PcInv'
    BY <1>0, <1>CallSettle, CallersAssumption DEF CallSettle, Set, Goto,
       PcInv, SingleFlight, DriverRuns, EpochPcs, Driving, Evaluating,
       Cancellable, TypeOK, TaskType, RunType
  <2>3. EpochsCounted'
    BY <1>CallSettle, <1>CountKept DEF CallSettle
  <2>4. Targets'
    BY <1>CallSettle, <2>1, <1>TargetsKept DEF CallSettle
  <2> QED BY <2>1, <2>2, <2>3, <2>4
<1>CallTake. ASSUME NEW c \in Callers, CallTake(c)
       PROVE  GenStep /\ PcInv' /\ EpochsCounted' /\ Targets'
  <2>1. GenStep
    BY <1>CallTake, <1>GenKept DEF CallTake
  <2>2. PcInv'
    BY <1>0, <1>CallTake, CallersAssumption DEF CallTake, Set, Goto, PcInv,
       SingleFlight, DriverRuns, EpochPcs, Driving, Evaluating, Cancellable,
       TypeOK, TaskType, RunType
  <2>3. EpochsCounted'
    BY <1>CallTake, <1>CountKept DEF CallTake
  <2>4. Targets'
    <3>1. PICK w \in Writers : target' = [target EXCEPT ![c] = gen[w]]
      BY <1>CallTake DEF CallTake, Set, Inputs, Writers
    <3>2. gen[w] \in Nat /\ gen[w] <= Horizon'
      BY <1>0, <1>CallTake DEF CallTake, Targets, Horizon, TypeOK, WriterType
    <3>3. UNCHANGED gen
      BY <1>CallTake DEF CallTake
    <3> QED BY <1>0, <2>1, <3>1, <3>2, <3>3, TargetMoves DEF GenStep
  <2> QED BY <2>1, <2>2, <2>3, <2>4
<1>FastPath. ASSUME NEW c \in Callers, FastPath(c)
       PROVE  GenStep /\ PcInv' /\ EpochsCounted' /\ Targets'
  <2>1. GenStep
    BY <1>FastPath, <1>GenKept DEF FastPath
  <2>2. PcInv'
    BY <1>0, <1>FastPath, CallersAssumption DEF FastPath, Goto, PcInv,
       SingleFlight, DriverRuns, EpochPcs, Driving, Evaluating, Cancellable,
       TypeOK, TaskType, RunType
  <2>3. EpochsCounted'
    BY <1>FastPath, <1>CountKept DEF FastPath
  <2>4. Targets'
    BY <1>FastPath, <2>1, <1>TargetsKept DEF FastPath
  <2> QED BY <2>1, <2>2, <2>3, <2>4
<1>EnterEpoch. ASSUME NEW c \in Callers, EnterEpoch(c)
       PROVE  GenStep /\ PcInv' /\ EpochsCounted' /\ Targets'
  <2>1. GenStep
    BY <1>EnterEpoch, <1>GenKept DEF EnterEpoch
  <2>2. PcInv'
    BY <1>0, <1>EnterEpoch, CallersAssumption DEF EnterEpoch, Set, Goto,
       PcInv, SingleFlight, DriverRuns, EpochPcs, Driving, Evaluating,
       Cancellable, TypeOK, TaskType, RunType
  <2>3. EpochsCounted'
    BY <1>0, <1>EnterEpoch, CountEnter DEF EnterEpoch, Set, PcInv, EpochPcs
  <2>4. Targets'
    BY <1>EnterEpoch, <2>1, <1>TargetsKept DEF EnterEpoch
  <2> QED BY <2>1, <2>2, <2>3, <2>4
<1>BoundaryPromote. ASSUME NEW c \in Callers, BoundaryPromote(c)
       PROVE  GenStep /\ PcInv' /\ EpochsCounted' /\ Targets'
  <2>1. GenStep
    BY <1>0, <1>BoundaryPromote, PendingStep DEF BoundaryPromote, Promote
  <2>2. PcInv'
    BY <1>0, <1>BoundaryPromote, CallersAssumption DEF BoundaryPromote, Goto,
       PcInv, SingleFlight, DriverRuns, EpochPcs, Driving, Evaluating,
       Cancellable, TypeOK, TaskType, RunType
  <2>3. EpochsCounted'
    BY <1>BoundaryPromote, <1>CountKept DEF BoundaryPromote
  <2>4. Targets'
    BY <1>BoundaryPromote, <2>1, <1>TargetsKept DEF BoundaryPromote
  <2> QED BY <2>1, <2>2, <2>3, <2>4
<1>BoundaryReturn. ASSUME NEW c \in Callers, BoundaryReturn(c)
       PROVE  GenStep /\ PcInv' /\ EpochsCounted' /\ Targets'
  <2>1. GenStep
    BY <1>BoundaryReturn, <1>GenKept DEF BoundaryReturn
  <2>2. PcInv'
    BY <1>0, <1>BoundaryReturn, CallersAssumption DEF BoundaryReturn, Goto,
       PcInv, SingleFlight, DriverRuns, EpochPcs, Driving, Evaluating,
       Cancellable, TypeOK, TaskType, RunType
  <2>3. EpochsCounted'
    BY <1>BoundaryReturn, <1>CountKept DEF BoundaryReturn
  <2>4. Targets'
    BY <1>BoundaryReturn, <2>1, <1>TargetsKept DEF BoundaryReturn
  <2> QED BY <2>1, <2>2, <2>3, <2>4
<1>PickTarget. ASSUME NEW c \in Callers, PickTarget(c)
       PROVE  GenStep /\ PcInv' /\ EpochsCounted' /\ Targets'
  <2>1. GenStep
    BY <1>PickTarget, <1>GenKept DEF PickTarget
  <2>2. PcInv'
    BY <1>0, <1>PickTarget, CallersAssumption DEF PickTarget, Goto, PcInv,
       SingleFlight, DriverRuns, EpochPcs, Driving, Evaluating, Cancellable,
       TypeOK, TaskType, RunType
  <2>3. EpochsCounted'
    BY <1>PickTarget, <1>CountKept DEF PickTarget
  <2>4. Targets'
    <3> DEFINE g == IF pending # 0 THEN pending
                    ELSE IF running # 0 THEN running ELSE completed
    <3>1. g \in Nat /\ g <= Horizon
      BY <1>0 DEF Horizon, Max2, TypeOK, GenType
    <3>2. Horizon' = Horizon
      BY <1>PickTarget DEF PickTarget, Horizon
    <3>3. target' = [target EXCEPT ![c] = g] /\ UNCHANGED gen
      BY <1>PickTarget DEF PickTarget
    <3> HIDE DEF g
    <3> QED BY <1>0, <2>1, <3>1, <3>2, <3>3, TargetMoves DEF GenStep
  <2> QED BY <2>1, <2>2, <2>3, <2>4
<1>CheckClean. ASSUME NEW c \in Callers, CheckClean(c)
       PROVE  GenStep /\ PcInv' /\ EpochsCounted' /\ Targets'
  <2>1. GenStep
    BY <1>CheckClean, <1>GenKept DEF CheckClean
  <2>2. PcInv'
    BY <1>0, <1>CheckClean, CallersAssumption DEF CheckClean, Goto, PcInv,
       SingleFlight, DriverRuns, EpochPcs, Driving, Evaluating, Cancellable,
       TypeOK, TaskType, RunType
  <2>3. EpochsCounted'
    BY <1>CheckClean, <1>CountKept DEF CheckClean
  <2>4. Targets'
    BY <1>CheckClean, <2>1, <1>TargetsKept DEF CheckClean
  <2> QED BY <2>1, <2>2, <2>3, <2>4
<1>Enqueue. ASSUME NEW c \in Callers, Enqueue(c)
       PROVE  GenStep /\ PcInv' /\ EpochsCounted' /\ Targets'
  <2>1. GenStep
    BY <1>0, <1>Enqueue, PendingStep DEF Enqueue
  <2>2. PcInv'
    BY <1>0, <1>Enqueue, CallersAssumption DEF Enqueue, Goto, PcInv,
       SingleFlight, DriverRuns, EpochPcs, Driving, Evaluating, Cancellable,
       TypeOK, TaskType, RunType
  <2>3. EpochsCounted'
    BY <1>Enqueue, <1>CountKept DEF Enqueue
  <2>4. Targets'
    BY <1>Enqueue, <2>1, <1>TargetsKept DEF Enqueue
  <2> QED BY <2>1, <2>2, <2>3, <2>4
<1>Heal. ASSUME NEW c \in Callers, Heal(c)
       PROVE  GenStep /\ PcInv' /\ EpochsCounted' /\ Targets'
  <2>1. GenStep
    BY <1>Heal, <1>GenKept DEF Heal
  <2>2. PcInv'
    BY <1>0, <1>Heal, CallersAssumption DEF Heal, BehindDriver, Goto, PcInv, SingleFlight,
       DriverRuns, EpochPcs, Driving, Evaluating, Cancellable, TypeOK,
       TaskType, RunType
  <2>3. EpochsCounted'
    BY <1>Heal, <1>CountKept DEF Heal
  <2>4. Targets'
    BY <1>Heal, <2>1, <1>TargetsKept DEF Heal
  <2> QED BY <2>1, <2>2, <2>3, <2>4
<1>NothingToHeal. ASSUME NEW c \in Callers, NothingToHeal(c)
       PROVE  GenStep /\ PcInv' /\ EpochsCounted' /\ Targets'
  <2>1. GenStep
    BY <1>NothingToHeal, <1>GenKept DEF NothingToHeal
  <2>2. PcInv'
    BY <1>0, <1>NothingToHeal, CallersAssumption DEF NothingToHeal, Goto,
       PcInv, SingleFlight, DriverRuns, EpochPcs, Driving, Evaluating,
       Cancellable, TypeOK, TaskType, RunType
  <2>3. EpochsCounted'
    BY <1>NothingToHeal, <1>CountKept DEF NothingToHeal
  <2>4. Targets'
    BY <1>NothingToHeal, <2>1, <1>TargetsKept DEF NothingToHeal
  <2> QED BY <2>1, <2>2, <2>3, <2>4
<1>HooksTake. ASSUME NEW c \in Callers, HooksTake(c)
       PROVE  GenStep /\ PcInv' /\ EpochsCounted' /\ Targets'
  <2>1. GenStep
    BY <1>HooksTake, <1>GenKept DEF HooksTake
  <2>2. PcInv'
    BY <1>0, <1>HooksTake, CallersAssumption DEF HooksTake, Set, Goto, PcInv,
       SingleFlight, DriverRuns, EpochPcs, Driving, Evaluating, Cancellable,
       TypeOK, TaskType, RunType
  <2>3. EpochsCounted'
    BY <1>HooksTake, <1>CountKept DEF HooksTake
  <2>4. Targets'
    BY <1>HooksTake, <2>1, <1>TargetsKept DEF HooksTake
  <2> QED BY <2>1, <2>2, <2>3, <2>4
<1>HooksCommit. ASSUME NEW c \in Callers, HooksCommit(c)
       PROVE  GenStep /\ PcInv' /\ EpochsCounted' /\ Targets'
  <2>1. GenStep
    BY <1>HooksCommit, <1>GenKept DEF HooksCommit
  <2>2. PcInv'
    BY <1>0, <1>HooksCommit, CallersAssumption DEF HooksCommit, BehindDriver, Goto, PcInv,
       SingleFlight, DriverRuns, EpochPcs, Driving, Evaluating, Cancellable,
       TypeOK, TaskType, RunType
  <2>3. EpochsCounted'
    BY <1>HooksCommit, <1>CountKept DEF HooksCommit
  <2>4. Targets'
    BY <1>HooksCommit, <2>1, <1>TargetsKept DEF HooksCommit
  <2> QED BY <2>1, <2>2, <2>3, <2>4
<1>HooksRestore. ASSUME NEW c \in Callers, HooksRestore(c)
       PROVE  GenStep /\ PcInv' /\ EpochsCounted' /\ Targets'
  <2>1. GenStep
    BY <1>HooksRestore, <1>GenKept DEF HooksRestore
  <2>2. PcInv'
    BY <1>0, <1>HooksRestore, CallersAssumption DEF HooksRestore, Set, Goto,
       PcInv, SingleFlight, DriverRuns, EpochPcs, Driving, Evaluating,
       Cancellable, TypeOK, TaskType, RunType
  <2>3. EpochsCounted'
    BY <1>HooksRestore, <1>CountKept DEF HooksRestore
  <2>4. Targets'
    BY <1>HooksRestore, <2>1, <1>TargetsKept DEF HooksRestore
  <2> QED BY <2>1, <2>2, <2>3, <2>4
<1>SettleTake. ASSUME NEW c \in Callers, SettleTake(c)
       PROVE  GenStep /\ PcInv' /\ EpochsCounted' /\ Targets'
  <2>1. GenStep
    BY <1>SettleTake, <1>GenKept DEF SettleTake
  <2>2. PcInv'
    BY <1>0, <1>SettleTake, CallersAssumption DEF SettleTake, Set, Goto,
       PcInv, SingleFlight, DriverRuns, EpochPcs, Driving, Evaluating,
       Cancellable, TypeOK, TaskType, RunType
  <2>3. EpochsCounted'
    BY <1>SettleTake, <1>CountKept DEF SettleTake
  <2>4. Targets'
    BY <1>SettleTake, <2>1, <1>TargetsKept DEF SettleTake
  <2> QED BY <2>1, <2>2, <2>3, <2>4
<1>SettlePlan. ASSUME NEW c \in Callers, SettlePlan(c)
       PROVE  GenStep /\ PcInv' /\ EpochsCounted' /\ Targets'
  <2>1. GenStep
    BY <1>SettlePlan, <1>GenKept DEF SettlePlan
  <2>2. PcInv'
    BY <1>0, <1>SettlePlan, CallersAssumption DEF SettlePlan, Goto, PcInv,
       SingleFlight, DriverRuns, EpochPcs, Driving, Evaluating, Cancellable,
       TypeOK, TaskType, RunType
  <2>3. EpochsCounted'
    BY <1>SettlePlan, <1>CountKept DEF SettlePlan
  <2>4. Targets'
    BY <1>SettlePlan, <2>1, <1>TargetsKept DEF SettlePlan
  <2> QED BY <2>1, <2>2, <2>3, <2>4
<1>SettleCommit. ASSUME NEW c \in Callers, SettleCommit(c)
       PROVE  GenStep /\ PcInv' /\ EpochsCounted' /\ Targets'
  <2>1. GenStep
    BY <1>SettleCommit, <1>GenKept DEF SettleCommit
  <2>2. PcInv'
    BY <1>0, <1>SettleCommit, CallersAssumption DEF SettleCommit, BehindDriver, Goto, PcInv,
       SingleFlight, DriverRuns, EpochPcs, Driving, Evaluating, Cancellable,
       TypeOK, TaskType, RunType
  <2>3. EpochsCounted'
    BY <1>SettleCommit, <1>CountKept DEF SettleCommit
  <2>4. Targets'
    BY <1>SettleCommit, <2>1, <1>TargetsKept DEF SettleCommit
  <2> QED BY <2>1, <2>2, <2>3, <2>4
<1>SettleRestore. ASSUME NEW c \in Callers, SettleRestore(c)
       PROVE  GenStep /\ PcInv' /\ EpochsCounted' /\ Targets'
  <2>1. GenStep
    BY <1>SettleRestore, <1>GenKept DEF SettleRestore
  <2>2. PcInv'
    BY <1>0, <1>SettleRestore, CallersAssumption DEF SettleRestore, Set, Goto,
       PcInv, SingleFlight, DriverRuns, EpochPcs, Driving, Evaluating,
       Cancellable, TypeOK, TaskType, RunType
  <2>3. EpochsCounted'
    BY <1>SettleRestore, <1>CountKept DEF SettleRestore
  <2>4. Targets'
    BY <1>SettleRestore, <2>1, <1>TargetsKept DEF SettleRestore
  <2> QED BY <2>1, <2>2, <2>3, <2>4
<1>Followup. ASSUME NEW c \in Callers, Followup(c)
       PROVE  GenStep /\ PcInv' /\ EpochsCounted' /\ Targets'
  <2>1. GenStep
    BY <1>Followup, <1>GenKept DEF Followup
  <2>2. PcInv'
    BY <1>0, <1>Followup, CallersAssumption DEF Followup, Goto, PcInv,
       SingleFlight, DriverRuns, EpochPcs, Driving, Evaluating, Cancellable,
       TypeOK, TaskType, RunType
  <2>3. EpochsCounted'
    BY <1>Followup, <1>CountKept DEF Followup
  <2>4. Targets'
    BY <1>Followup, <2>1, <1>TargetsKept DEF Followup
  <2> QED BY <2>1, <2>2, <2>3, <2>4
<1>PublishPromote. ASSUME NEW c \in Callers, PublishPromote(c)
       PROVE  GenStep /\ PcInv' /\ EpochsCounted' /\ Targets'
  <2>1. GenStep
    BY <1>0, <1>PublishPromote, PendingStep DEF PublishPromote, Promote
  <2>2. PcInv'
    BY <1>0, <1>PublishPromote, CallersAssumption DEF PublishPromote, Goto,
       PcInv, SingleFlight, DriverRuns, EpochPcs, Driving, Evaluating,
       Cancellable, TypeOK, TaskType, RunType
  <2>3. EpochsCounted'
    BY <1>PublishPromote, <1>CountKept DEF PublishPromote
  <2>4. Targets'
    BY <1>PublishPromote, <2>1, <1>TargetsKept DEF PublishPromote
  <2> QED BY <2>1, <2>2, <2>3, <2>4
<1>Publish. ASSUME NEW c \in Callers, Publish(c)
       PROVE  GenStep /\ PcInv' /\ EpochsCounted' /\ Targets'
  <2>1. GenStep
    BY <1>Publish, <1>GenKept DEF Publish
  <2>2. PcInv'
    BY <1>0, <1>Publish, CallersAssumption DEF Publish, Goto, PcInv,
       SingleFlight, DriverRuns, EpochPcs, Driving, Evaluating, Cancellable,
       TypeOK, TaskType, RunType
  <2>3. EpochsCounted'
    BY <1>Publish, <1>CountKept DEF Publish
  <2>4. Targets'
    BY <1>Publish, <2>1, <1>TargetsKept DEF Publish
  <2> QED BY <2>1, <2>2, <2>3, <2>4
<1>ExitEpoch. ASSUME NEW c \in Callers, ExitEpoch(c)
       PROVE  GenStep /\ PcInv' /\ EpochsCounted' /\ Targets'
  <2>1. GenStep
    BY <1>0, <1>ExitEpoch, PendingStep DEF ExitEpoch, LeaveEpoch, Promote
  <2>2. PcInv'
    BY <1>0, <1>ExitEpoch, CallersAssumption DEF ExitEpoch, LeaveEpoch, Set,
       Goto, PcInv, SingleFlight, DriverRuns, EpochPcs, Driving, Evaluating,
       Cancellable, TypeOK, TaskType, RunType
  <2>3. EpochsCounted'
    BY <1>0, <1>ExitEpoch, CountLeave DEF ExitEpoch, LeaveEpoch, Set, PcInv,
       EpochPcs
  <2>4. Targets'
    BY <1>ExitEpoch, <2>1, <1>TargetsKept DEF ExitEpoch, LeaveEpoch
  <2> QED BY <2>1, <2>2, <2>3, <2>4
<1>Read. ASSUME NEW c \in Callers, Read(c)
       PROVE  GenStep /\ PcInv' /\ EpochsCounted' /\ Targets'
  <2>1. GenStep
    BY <1>Read, <1>GenKept DEF Read
  <2>2. PcInv'
    BY <1>0, <1>Read, CallersAssumption DEF Read, Set, Goto, PcInv,
       SingleFlight, DriverRuns, EpochPcs, Driving, Evaluating, Cancellable,
       TypeOK, TaskType, RunType
  <2>3. EpochsCounted'
    BY <1>Read, <1>CountKept DEF Read
  <2>4. Targets'
    BY <1>Read, <2>1, <1>TargetsKept DEF Read
  <2> QED BY <2>1, <2>2, <2>3, <2>4
<1>ForEach. ASSUME NEW c \in Callers, ForEach(c)
       PROVE  GenStep /\ PcInv' /\ EpochsCounted' /\ Targets'
  <2>1. GenStep
    BY <1>0, <1>ForEach, PendingStep DEF ForEach
  <2>2. PcInv'
    BY <1>0, <1>ForEach, CallersAssumption DEF ForEach, BehindDriver, Set, Goto, PcInv,
       SingleFlight, DriverRuns, EpochPcs, Driving, Evaluating, Cancellable,
       TypeOK, TaskType, RunType
  <2>3. EpochsCounted'
    BY <1>ForEach, <1>CountKept DEF ForEach
  <2>4. Targets'
    BY <1>ForEach, <2>1, <1>TargetsKept DEF ForEach
  <2> QED BY <2>1, <2>2, <2>3, <2>4
<1>Take. ASSUME NEW c \in Callers, Take(c)
       PROVE  GenStep /\ PcInv' /\ EpochsCounted' /\ Targets'
  <2>1. GenStep
    BY <1>Take, <1>GenKept DEF Take
  <2>2. PcInv'
    BY <1>0, <1>Take, CallersAssumption DEF Take, BehindDriver, Set, Goto, PcInv,
       SingleFlight, DriverRuns, EpochPcs, Driving, Evaluating, Cancellable,
       TypeOK, TaskType, RunType
  <2>3. EpochsCounted'
    BY <1>Take, <1>CountKept DEF Take
  <2>4. Targets'
    BY <1>Take, <2>1, <1>TargetsKept DEF Take
  <2> QED BY <2>1, <2>2, <2>3, <2>4
<1>Ensure. ASSUME NEW c \in Callers, Ensure(c)
       PROVE  GenStep /\ PcInv' /\ EpochsCounted' /\ Targets'
  <2>1. GenStep
    BY <1>Ensure, <1>GenKept DEF Ensure
  <2>2. PcInv'
    BY <1>0, <1>Ensure, CallersAssumption DEF Ensure, Set, Goto, PcInv,
       SingleFlight, DriverRuns, EpochPcs, Driving, Evaluating, Cancellable,
       TypeOK, TaskType, RunType
  <2>3. EpochsCounted'
    BY <1>Ensure, <1>CountKept DEF Ensure
  <2>4. Targets'
    BY <1>0, <1>Ensure, <2>1, TargetMoves, <1>TargetsKept DEF Ensure, GenStep,
       Set, Horizon, Max2, TypeOK, GenType
  <2> QED BY <2>1, <2>2, <2>3, <2>4
<1>TryRunner. ASSUME NEW c \in Callers, TryRunner(c)
       PROVE  GenStep /\ PcInv' /\ EpochsCounted' /\ Targets'
  <2>1. GenStep
    BY <1>TryRunner, <1>GenKept DEF TryRunner
  <2>2. PcInv'
    BY <1>0, <1>TryRunner, CallersAssumption DEF TryRunner, Goto, PcInv,
       SingleFlight, DriverRuns, EpochPcs, Driving, Evaluating, Cancellable,
       TypeOK, TaskType, RunType
  <2>3. EpochsCounted'
    BY <1>TryRunner, <1>CountKept DEF TryRunner
  <2>4. Targets'
    BY <1>TryRunner, <2>1, <1>TargetsKept DEF TryRunner
  <2> QED BY <2>1, <2>2, <2>3, <2>4
<1>WaitGeneration. ASSUME NEW c \in Callers, WaitGeneration(c)
       PROVE  GenStep /\ PcInv' /\ EpochsCounted' /\ Targets'
  <2>1. GenStep
    BY <1>WaitGeneration, <1>GenKept DEF WaitGeneration
  <2>2. PcInv'
    BY <1>0, <1>WaitGeneration, CallersAssumption DEF WaitGeneration, Goto,
       PcInv, SingleFlight, DriverRuns, EpochPcs, Driving, Evaluating,
       Cancellable, TypeOK, TaskType, RunType
  <2>3. EpochsCounted'
    BY <1>WaitGeneration, <1>CountKept DEF WaitGeneration
  <2>4. Targets'
    BY <1>WaitGeneration, <2>1, <1>TargetsKept DEF WaitGeneration
  <2> QED BY <2>1, <2>2, <2>3, <2>4
<1>StartEvaluation. ASSUME NEW c \in Callers, StartEvaluation(c)
       PROVE  GenStep /\ PcInv' /\ EpochsCounted' /\ Targets'
  <2>1. GenStep
    BY <1>0, <1>StartEvaluation DEF StartEvaluation, AdvanceGeneration,
       TypeOK, GenType, GenerationOrder, GenStep, Horizon, Max2, PcInv,
       DriverRuns, Evaluating
  <2>2. PcInv'
    BY <1>0, <1>StartEvaluation, CallersAssumption DEF StartEvaluation, Set,
       AdvanceGeneration, Goto, PcInv, SingleFlight, DriverRuns, EpochPcs,
       Driving, Evaluating, Cancellable, TypeOK, TaskType, RunType
  <2>3. EpochsCounted'
    BY <1>StartEvaluation, <1>CountKept DEF StartEvaluation
  <2>4. Targets'
    BY <1>StartEvaluation, <2>1, <1>TargetsKept DEF StartEvaluation
  <2> QED BY <2>1, <2>2, <2>3, <2>4
<1>NothingPending. ASSUME NEW c \in Callers, NothingPending(c)
       PROVE  GenStep /\ PcInv' /\ EpochsCounted' /\ Targets'
  <2>1. GenStep
    BY <1>NothingPending, <1>GenKept DEF NothingPending
  <2>2. PcInv'
    BY <1>0, <1>NothingPending, CallersAssumption DEF NothingPending, Goto,
       PcInv, SingleFlight, DriverRuns, EpochPcs, Driving, Evaluating,
       Cancellable, TypeOK, TaskType, RunType
  <2>3. EpochsCounted'
    BY <1>NothingPending, <1>CountKept DEF NothingPending
  <2>4. Targets'
    BY <1>NothingPending, <2>1, <1>TargetsKept DEF NothingPending
  <2> QED BY <2>1, <2>2, <2>3, <2>4
<1>QuietCommit. ASSUME NEW c \in Callers, QuietCommit(c)
       PROVE  GenStep /\ PcInv' /\ EpochsCounted' /\ Targets'
  <2>1. GenStep
    BY <1>QuietCommit, <1>GenKept DEF QuietCommit
  <2>2. PcInv'
    BY <1>QuietCommit, <1>PcsKept DEF QuietCommit
  <2>3. EpochsCounted'
    BY <1>QuietCommit, <1>CountKept DEF QuietCommit
  <2>4. Targets'
    BY <1>QuietCommit, <2>1, <1>TargetsKept DEF QuietCommit
  <2> QED BY <2>1, <2>2, <2>3, <2>4
<1>LoudCommit. ASSUME NEW c \in Callers, LoudCommit(c)
       PROVE  GenStep /\ PcInv' /\ EpochsCounted' /\ Targets'
  <2>1. GenStep
    BY <1>LoudCommit, <1>GenKept DEF LoudCommit
  <2>2. PcInv'
    BY <1>LoudCommit, <1>PcsKept DEF LoudCommit
  <2>3. EpochsCounted'
    BY <1>LoudCommit, <1>CountKept DEF LoudCommit
  <2>4. Targets'
    BY <1>LoudCommit, <2>1, <1>TargetsKept DEF LoudCommit
  <2> QED BY <2>1, <2>2, <2>3, <2>4
<1>PhaseDone. ASSUME NEW c \in Callers, PhaseDone(c)
       PROVE  GenStep /\ PcInv' /\ EpochsCounted' /\ Targets'
  <2>1. GenStep
    BY <1>PhaseDone, <1>GenKept DEF PhaseDone
  <2>2. PcInv'
    BY <1>0, <1>PhaseDone, CallersAssumption DEF PhaseDone, Goto, PcInv,
       SingleFlight, DriverRuns, EpochPcs, Driving, Evaluating, Cancellable,
       TypeOK, TaskType, RunType
  <2>3. EpochsCounted'
    BY <1>PhaseDone, <1>CountKept DEF PhaseDone
  <2>4. Targets'
    BY <1>PhaseDone, <2>1, <1>TargetsKept DEF PhaseDone
  <2> QED BY <2>1, <2>2, <2>3, <2>4
<1>Preempt. ASSUME NEW c \in Callers, Preempt(c)
       PROVE  GenStep /\ PcInv' /\ EpochsCounted' /\ Targets'
  <2>1. GenStep
    BY <1>Preempt, <1>GenKept DEF Preempt
  <2>2. PcInv'
    BY <1>0, <1>Preempt, CallersAssumption DEF Preempt, Goto, PcInv,
       SingleFlight, DriverRuns, EpochPcs, Driving, Evaluating, Cancellable,
       TypeOK, TaskType, RunType
  <2>3. EpochsCounted'
    BY <1>Preempt, <1>CountKept DEF Preempt
  <2>4. Targets'
    BY <1>Preempt, <2>1, <1>TargetsKept DEF Preempt
  <2> QED BY <2>1, <2>2, <2>3, <2>4
<1>OpenWindow. ASSUME NEW c \in Callers, OpenWindow(c)
       PROVE  GenStep /\ PcInv' /\ EpochsCounted' /\ Targets'
  <2>1. GenStep
    BY <1>OpenWindow, <1>GenKept DEF OpenWindow
  <2>2. PcInv'
    BY <1>0, <1>OpenWindow, CallersAssumption DEF OpenWindow, Goto, PcInv,
       SingleFlight, DriverRuns, EpochPcs, Driving, Evaluating, Cancellable,
       TypeOK, TaskType, RunType
  <2>3. EpochsCounted'
    BY <1>OpenWindow, <1>CountKept DEF OpenWindow
  <2>4. Targets'
    BY <1>OpenWindow, <2>1, <1>TargetsKept DEF OpenWindow
  <2> QED BY <2>1, <2>2, <2>3, <2>4
<1>WindowDrained. ASSUME NEW c \in Callers, WindowDrained(c)
       PROVE  GenStep /\ PcInv' /\ EpochsCounted' /\ Targets'
  <2>1. GenStep
    BY <1>WindowDrained, <1>GenKept DEF WindowDrained
  <2>2. PcInv'
    BY <1>0, <1>WindowDrained, CallersAssumption DEF WindowDrained, Goto,
       PcInv, SingleFlight, DriverRuns, EpochPcs, Driving, Evaluating,
       Cancellable, TypeOK, TaskType, RunType
  <2>3. EpochsCounted'
    BY <1>WindowDrained, <1>CountKept DEF WindowDrained
  <2>4. Targets'
    BY <1>WindowDrained, <2>1, <1>TargetsKept DEF WindowDrained
  <2> QED BY <2>1, <2>2, <2>3, <2>4
<1>CloseWindow. ASSUME NEW c \in Callers, CloseWindow(c)
       PROVE  GenStep /\ PcInv' /\ EpochsCounted' /\ Targets'
  <2>1. GenStep
    BY <1>CloseWindow, <1>GenKept DEF CloseWindow
  <2>2. PcInv'
    BY <1>0, <1>CloseWindow, CallersAssumption DEF CloseWindow, Goto, PcInv,
       SingleFlight, DriverRuns, EpochPcs, Driving, Evaluating, Cancellable,
       TypeOK, TaskType, RunType
  <2>3. EpochsCounted'
    BY <1>CloseWindow, <1>CountKept DEF CloseWindow
  <2>4. Targets'
    BY <1>CloseWindow, <2>1, <1>TargetsKept DEF CloseWindow
  <2> QED BY <2>1, <2>2, <2>3, <2>4
<1>CompleteGeneration. ASSUME NEW c \in Callers, CompleteGeneration(c)
       PROVE  GenStep /\ PcInv' /\ EpochsCounted' /\ Targets'
  <2>1. GenStep
    BY <1>0, <1>CompleteGeneration DEF CompleteGeneration, TypeOK, GenType,
       GenerationOrder, GenStep, Horizon, Max2, PcInv, DriverRuns, Evaluating
  <2>2. PcInv'
    BY <1>0, <1>CompleteGeneration, CallersAssumption DEF CompleteGeneration,
       Set, WakeUpTo, PcInv, SingleFlight, DriverRuns, EpochPcs, Driving,
       Evaluating, Cancellable, TypeOK, TaskType, RunType
  <2>3. EpochsCounted'
    BY <1>CompleteGeneration, <1>CountKept DEF CompleteGeneration
  <2>4. Targets'
    BY <1>CompleteGeneration, <2>1, <1>TargetsKept DEF CompleteGeneration
  <2> QED BY <2>1, <2>2, <2>3, <2>4
<1>ReleaseRunner. ASSUME NEW c \in Callers, ReleaseRunner(c)
       PROVE  GenStep /\ PcInv' /\ EpochsCounted' /\ Targets'
  <2>1. GenStep
    BY <1>ReleaseRunner, <1>GenKept DEF ReleaseRunner
  <2>2. PcInv'
    BY <1>0, <1>ReleaseRunner, CallersAssumption DEF ReleaseRunner, Goto,
       PcInv, SingleFlight, DriverRuns, EpochPcs, Driving, Evaluating,
       Cancellable, TypeOK, TaskType, RunType
  <2>3. EpochsCounted'
    BY <1>ReleaseRunner, <1>CountKept DEF ReleaseRunner
  <2>4. Targets'
    BY <1>ReleaseRunner, <2>1, <1>TargetsKept DEF ReleaseRunner
  <2> QED BY <2>1, <2>2, <2>3, <2>4
<1>Cancel. ASSUME NEW c \in Callers, Cancel(c)
       PROVE  GenStep /\ PcInv' /\ EpochsCounted' /\ Targets'
  <2>1. GenStep
    BY <1>Cancel, <1>GenKept DEF Cancel
  <2>2. PcInv'
    BY <1>0, <1>Cancel, CallersAssumption DEF Cancel, Set, Goto, PcInv,
       SingleFlight, DriverRuns, EpochPcs, Driving, Evaluating, Cancellable,
       TypeOK, TaskType, RunType
  <2>3. EpochsCounted'
    BY <1>Cancel, <1>CountKept DEF Cancel
  <2>4. Targets'
    <3>1. 0 <= Horizon'
      BY <1>0 DEF Horizon, Max2, TypeOK, GenType
    <3>2. target' = [target EXCEPT ![c] = 0] /\ UNCHANGED gen
      BY <1>Cancel DEF Cancel, Set
    <3> QED BY <1>0, <2>1, <3>1, <3>2, TargetMoves DEF GenStep
  <2> QED BY <2>1, <2>2, <2>3, <2>4
<1>DropEvaluation. ASSUME NEW c \in Callers, DropEvaluation(c)
       PROVE  GenStep /\ PcInv' /\ EpochsCounted' /\ Targets'
  <2>1. GenStep
    BY <1>0, <1>DropEvaluation DEF DropEvaluation, GetOrInsert, TypeOK,
       GenType, GenerationOrder, GenStep, Horizon, Max2, PcInv, DriverRuns,
       Evaluating
  <2>2. PcInv'
    BY <1>0, <1>DropEvaluation, CallersAssumption DEF DropEvaluation, Set,
       PcInv, SingleFlight, DriverRuns, EpochPcs, Driving, Evaluating,
       Cancellable, TypeOK, TaskType, RunType
  <2>3. EpochsCounted'
    BY <1>DropEvaluation, <1>CountKept DEF DropEvaluation
  <2>4. Targets'
    BY <1>DropEvaluation, <2>1, <1>TargetsKept DEF DropEvaluation
  <2> QED BY <2>1, <2>2, <2>3, <2>4
<1>DropRunner. ASSUME NEW c \in Callers, DropRunner(c)
       PROVE  GenStep /\ PcInv' /\ EpochsCounted' /\ Targets'
  <2>1. GenStep
    BY <1>DropRunner, <1>GenKept DEF DropRunner
  <2>2. PcInv'
    BY <1>0, <1>DropRunner, CallersAssumption DEF DropRunner, Goto, PcInv,
       SingleFlight, DriverRuns, EpochPcs, Driving, Evaluating, Cancellable,
       TypeOK, TaskType, RunType
  <2>3. EpochsCounted'
    BY <1>DropRunner, <1>CountKept DEF DropRunner
  <2>4. Targets'
    BY <1>DropRunner, <2>1, <1>TargetsKept DEF DropRunner
  <2> QED BY <2>1, <2>2, <2>3, <2>4
<1>DropEpoch. ASSUME NEW c \in Callers, DropEpoch(c)
       PROVE  GenStep /\ PcInv' /\ EpochsCounted' /\ Targets'
  <2>1. GenStep
    BY <1>0, <1>DropEpoch, PendingStep DEF DropEpoch, LeaveEpoch, Promote
  <2>2. PcInv'
    BY <1>0, <1>DropEpoch, CallersAssumption DEF DropEpoch, LeaveEpoch, Set,
       Goto, PcInv, SingleFlight, DriverRuns, EpochPcs, Driving, Evaluating,
       Cancellable, TypeOK, TaskType, RunType
  <2>3. EpochsCounted'
    BY <1>0, <1>DropEpoch, CountLeave DEF DropEpoch, LeaveEpoch, Set, PcInv,
       EpochPcs
  <2>4. Targets'
    BY <1>DropEpoch, <2>1, <1>TargetsKept DEF DropEpoch, LeaveEpoch
  <2> QED BY <2>1, <2>2, <2>3, <2>4
<1>InsertIdle. ASSUME NEW w \in Writers, InsertIdle(w)
       PROVE  GenStep /\ PcInv' /\ EpochsCounted' /\ Targets'
  <2>1. GenStep
    BY <1>0, <1>InsertIdle, PendingStep DEF InsertIdle
  <2>2. PcInv'
    BY <1>InsertIdle, <1>PcsKept DEF InsertIdle
  <2>3. EpochsCounted'
    BY <1>InsertIdle, <1>CountKept DEF InsertIdle
  <2>4. Targets'
    <3> DEFINE g == GetOrInsert(pending, next)
    <3>1. g \in Nat /\ g = pending'
      BY <1>0, <1>InsertIdle DEF InsertIdle, GetOrInsert, TypeOK, GenType
    <3>2. g <= Horizon'
      BY <1>0, <3>1 DEF Horizon, Max2, TypeOK, GenType
    <3>3. gen' = [gen EXCEPT ![w] = g] /\ UNCHANGED target
      BY <1>InsertIdle DEF InsertIdle
    <3> HIDE DEF g
    <3> QED BY <1>0, <2>1, <3>1, <3>2, <3>3, GenMoves DEF GenStep
  <2> QED BY <2>1, <2>2, <2>3, <2>4
<1>InsertDeferred. ASSUME NEW w \in Writers, InsertDeferred(w)
       PROVE  GenStep /\ PcInv' /\ EpochsCounted' /\ Targets'
  <2>1. GenStep
    BY <1>InsertDeferred, <1>GenKept DEF InsertDeferred
  <2>2. PcInv'
    BY <1>InsertDeferred, <1>PcsKept DEF InsertDeferred
  <2>3. EpochsCounted'
    BY <1>InsertDeferred, <1>CountKept DEF InsertDeferred
  <2>4. Targets'
    <3>1. completed \in Nat /\ completed <= Horizon
      BY <1>0 DEF Horizon, Max2, TypeOK, GenType
    <3>2. Horizon' = Horizon
      BY <1>InsertDeferred DEF InsertDeferred, Horizon
    <3>3. gen' = [gen EXCEPT ![w] = completed] /\ UNCHANGED target
      BY <1>InsertDeferred DEF InsertDeferred
    <3> QED BY <1>0, <2>1, <3>1, <3>2, <3>3, GenMoves DEF GenStep
  <2> QED BY <2>1, <2>2, <2>3, <2>4
<1>InsertPreempting. ASSUME NEW w \in Writers, InsertPreempting(w)
       PROVE  GenStep /\ PcInv' /\ EpochsCounted' /\ Targets'
  <2>1. GenStep
    BY <1>InsertPreempting, <1>GenKept DEF InsertPreempting
  <2>2. PcInv'
    BY <1>InsertPreempting, <1>PcsKept DEF InsertPreempting
  <2>3. EpochsCounted'
    BY <1>InsertPreempting, <1>CountKept DEF InsertPreempting
  <2>4. Targets'
    BY <1>InsertPreempting, <2>1, <1>TargetsKept DEF InsertPreempting
  <2> QED BY <2>1, <2>2, <2>3, <2>4
<1>BeginMut. ASSUME NEW w \in Writers, BeginMut(w)
       PROVE  GenStep /\ PcInv' /\ EpochsCounted' /\ Targets'
  <2>1. GenStep
    BY <1>BeginMut, <1>GenKept DEF BeginMut
  <2>2. PcInv'
    BY <1>BeginMut, <1>PcsKept DEF BeginMut
  <2>3. EpochsCounted'
    BY <1>BeginMut, <1>CountKept DEF BeginMut
  <2>4. Targets'
    BY <1>BeginMut, <2>1, <1>TargetsKept DEF BeginMut
  <2> QED BY <2>1, <2>2, <2>3, <2>4
<1>PreemptingInsertLands. ASSUME NEW w \in Writers, PreemptingInsertLands(w)
       PROVE  GenStep /\ PcInv' /\ EpochsCounted' /\ Targets'
  <2>1. GenStep
    BY <1>0, <1>PreemptingInsertLands, PendingStep DEF PreemptingInsertLands,
       AtBoundary
  <2>2. PcInv'
    BY <1>PreemptingInsertLands, <1>PcsKept DEF PreemptingInsertLands,
       AtBoundary
  <2>3. EpochsCounted'
    BY <1>PreemptingInsertLands, <1>CountKept DEF PreemptingInsertLands,
       AtBoundary
  <2>4. Targets'
    <3> DEFINE g == GetOrInsert(pending, next)
    <3>1. g \in Nat /\ g = pending'
      BY <1>0, <1>PreemptingInsertLands DEF PreemptingInsertLands, GetOrInsert, TypeOK, GenType
    <3>2. g <= Horizon'
      BY <1>0, <3>1 DEF Horizon, Max2, TypeOK, GenType
    <3>3. gen' = [gen EXCEPT ![w] = g] /\ UNCHANGED target
      BY <1>PreemptingInsertLands DEF PreemptingInsertLands
    <3> HIDE DEF g
    <3> QED BY <1>0, <2>1, <3>1, <3>2, <3>3, GenMoves DEF GenStep
  <2> QED BY <2>1, <2>2, <2>3, <2>4
<1>MutLands. ASSUME NEW w \in Writers, MutLands(w)
       PROVE  GenStep /\ PcInv' /\ EpochsCounted' /\ Targets'
  <2>1. GenStep
    BY <1>0, <1>MutLands, PendingStep DEF MutLands, AtBoundary
  <2>2. PcInv'
    BY <1>MutLands, <1>PcsKept DEF MutLands, AtBoundary
  <2>3. EpochsCounted'
    BY <1>MutLands, <1>CountKept DEF MutLands, AtBoundary
  <2>4. Targets'
    BY <1>MutLands, <2>1, <1>TargetsKept DEF MutLands, AtBoundary
  <2> QED BY <2>1, <2>2, <2>3, <2>4
<1>AwaitBoundary. ASSUME NEW w \in Writers, AwaitBoundary(w)
       PROVE  GenStep /\ PcInv' /\ EpochsCounted' /\ Targets'
  <2>1. GenStep
    BY <1>AwaitBoundary, <1>GenKept DEF AwaitBoundary
  <2>2. PcInv'
    BY <1>AwaitBoundary, <1>PcsKept DEF AwaitBoundary
  <2>3. EpochsCounted'
    BY <1>AwaitBoundary, <1>CountKept DEF AwaitBoundary
  <2>4. Targets'
    BY <1>AwaitBoundary, <2>1, <1>TargetsKept DEF AwaitBoundary
  <2> QED BY <2>1, <2>2, <2>3, <2>4
<1>MutStale. ASSUME NEW w \in Writers, MutStale(w)
       PROVE  GenStep /\ PcInv' /\ EpochsCounted' /\ Targets'
  <2>1. GenStep
    BY <1>MutStale, <1>GenKept DEF MutStale
  <2>2. PcInv'
    BY <1>MutStale, <1>PcsKept DEF MutStale
  <2>3. EpochsCounted'
    BY <1>MutStale, <1>CountKept DEF MutStale
  <2>4. Targets'
    BY <1>MutStale, <2>1, <1>TargetsKept DEF MutStale
  <2> QED BY <2>1, <2>2, <2>3, <2>4
<1>MutBusy. ASSUME NEW w \in Writers, MutBusy(w)
       PROVE  GenStep /\ PcInv' /\ EpochsCounted' /\ Targets'
  <2>1. GenStep
    BY <1>MutBusy, <1>GenKept DEF MutBusy
  <2>2. PcInv'
    BY <1>MutBusy, <1>PcsKept DEF MutBusy
  <2>3. EpochsCounted'
    BY <1>MutBusy, <1>CountKept DEF MutBusy
  <2>4. Targets'
    BY <1>MutBusy, <2>1, <1>TargetsKept DEF MutBusy
  <2> QED BY <2>1, <2>2, <2>3, <2>4
<1>CancelWriter. ASSUME NEW w \in Writers, CancelWriter(w)
       PROVE  GenStep /\ PcInv' /\ EpochsCounted' /\ Targets'
  <2>1. GenStep
    BY <1>CancelWriter, <1>GenKept DEF CancelWriter
  <2>2. PcInv'
    BY <1>CancelWriter, <1>PcsKept DEF CancelWriter
  <2>3. EpochsCounted'
    BY <1>CancelWriter, <1>CountKept DEF CancelWriter
  <2>4. Targets'
    BY <1>CancelWriter, <2>1, <1>TargetsKept DEF CancelWriter
  <2> QED BY <2>1, <2>2, <2>3, <2>4
<1>Stutter. CASE UNCHANGED vars
  BY <1>Stutter, <1>GenKept, <1>PcsKept, <1>CountKept, <1>TargetsKept
<1> QED
  BY <1>CallSettle, <1>CallTake, <1>FastPath, <1>EnterEpoch,
     <1>BoundaryPromote, <1>BoundaryReturn, <1>PickTarget, <1>CheckClean,
     <1>Enqueue, <1>Heal, <1>NothingToHeal, <1>HooksTake, <1>HooksCommit,
     <1>HooksRestore, <1>SettleTake, <1>SettlePlan, <1>SettleCommit,
     <1>SettleRestore, <1>Followup, <1>PublishPromote, <1>Publish,
     <1>ExitEpoch, <1>Read, <1>ForEach, <1>Take, <1>Ensure, <1>TryRunner,
     <1>WaitGeneration, <1>StartEvaluation, <1>NothingPending, <1>QuietCommit,
     <1>LoudCommit, <1>PhaseDone, <1>Preempt, <1>OpenWindow, <1>WindowDrained,
     <1>CloseWindow, <1>CompleteGeneration, <1>ReleaseRunner, <1>Cancel,
     <1>DropEvaluation, <1>DropRunner, <1>DropEpoch, <1>InsertIdle,
     <1>InsertDeferred, <1>InsertPreempting, <1>BeginMut,
     <1>PreemptingInsertLands, <1>MutLands, <1>AwaitBoundary, <1>MutStale,
     <1>MutBusy, <1>CancelWriter,
     <1>Stutter
     DEF Next, CallerStep, SettleStep, DriveStep, DropStep, WriterStep, Finished,
         OutOfBounds
-----------------------------------------------------------------------------
\* The invariant holds in every reachable state.
THEOREM ControlCorrect == Spec => []ControlInv
BY ControlInit, ControlStep, PTL DEF Spec

\* GenerationState never loses the order completed < running < pending < next
\* (start_evaluation, complete, the guards' Drop, enqueue_next_generation).
THEOREM GenerationsOrdered == Spec => []GenerationOrder
<1>1. ControlInv => GenerationOrder
  BY DEF ControlInv
<1> QED BY <1>1, ControlCorrect, PTL

\* The evaluation_runner mutex admits one driver, and a driver that is dropped
\* between any two awaits gives it back.
THEOREM OneDriver == Spec => []SingleFlight
<1>1. ControlInv => SingleFlight
  BY DEF ControlInv, PcInv
<1> QED BY <1>1, ControlCorrect, PTL

\* settling is the number of live EpochGuards: returning or dropping a settle
\* never leaves the counter up (every insert would be deferred for ever) or
\* takes it below the guards that live.
THEOREM EpochsBalanced == Spec => []EpochsCounted
<1>1. ControlInv => EpochsCounted
  BY DEF ControlInv
<1> QED BY <1>1, ControlCorrect, PTL

\* What wait_for_generation waits for, and what take will pass to it, is a
\* generation somebody has completed, is running or has asked for.
THEOREM TargetsExist == Spec => []TargetMaterializes
<1>1. ControlInv => TargetMaterializes
  BY DEF ControlInv, Targets, Horizon, TargetMaterializes
<1> QED BY <1>1, ControlCorrect, PTL

-----------------------------------------------------------------------------
(* What becomes of an accepted input, for every number of callers and      *)
(* writers and with futures dropped at any await: it is in one of the two  *)
(* queues or in the world, the queue it is in has somebody who drains it,  *)
(* and no epoch sees it before its time.                                   *)

\* The inputs whose call returned, and those that wait for the next epoch.
Accepted == {w \in Inputs : wpc[w] = "done"}
Queued == {deferred[i].input : i \in 1..Len(deferred)}

\* An accepted input is in one place.
Placed ==
    /\ Accepted = pendingInputs \cup Queued \cup applied
    /\ pendingInputs \cap Queued = {}
    /\ (pendingInputs \cup Queued) \cap applied = {}

\* No input is deferred twice.
Distinct ==
    \A i, j \in 1..Len(deferred) : deferred[i].input = deferred[j].input => i = j

\* Tags follow arrival, and the counter is at the newest one: this is why
\* promote_deferred_inputs may take a prefix of the queue, and why the last
\* EpochGuard promotes the whole of it.
Ordered ==
    /\ \A i \in 1..Len(deferred) : deferred[i].tag <= inputSeq
    /\ \A i, j \in 1..Len(deferred) : i < j => deferred[i].tag < deferred[j].tag

\* Either queue has somebody who empties it.
Drained ==
    /\ pendingInputs # {} => pending # 0
    /\ deferred # <<>> => settling > 0

InputsInv == Placed /\ Distinct /\ Ordered /\ Drained

-----------------------------------------------------------------------------
\* Distinct inputs are as many as their queue is long.
LEMMA QueuedCount ==
  ASSUME InputType, Distinct
  PROVE  Cardinality(Queued) = Len(deferred)
<1> DEFINE D == 1..Len(deferred)
           f == [i \in D |-> deferred[i].input]
<1>1. Len(deferred) \in Nat
  BY DEF InputType
<1>2. IsFiniteSet(D) /\ Cardinality(D) = Len(deferred)
  BY <1>1, IntervalCardinality
<1>3. f \in Surjection(D, Queued)
  BY DEF Surjection, Queued
<1>4. f \in Injection(D, Queued)
  BY <1>3 DEF Injection, Surjection, IsInjective, Distinct
<1> HIDE DEF D, f
<1> QED BY <1>2, <1>3, <1>4, FS_Surjection

\* What the invariant says is what the property says.
LEMMA InputsKept ==
  ASSUME InputType, InputsInv
  PROVE  AcceptedInputsKept
BY QueuedCount DEF InputsInv, Placed, Drained, AcceptedInputsKept, Accepted, Queued

\* The queue as a function of its positions.
LEMMA QueueShape ==
  ASSUME InputType
  PROVE  /\ Len(deferred) \in Nat
         /\ \A i \in 1..Len(deferred) :
               deferred[i] \in Input /\ deferred[i].input \in Inputs /\ deferred[i].tag \in Nat
         /\ Queued \subseteq Inputs
         /\ deferred = <<>> <=> Len(deferred) = 0
<1>1. Len(deferred) \in Nat
  BY DEF InputType
<1>2. \A i \in 1..Len(deferred) : deferred[i] \in Input
  BY ElementOfSeq DEF InputType
<1>3. \A i \in 1..Len(deferred) : deferred[i].input \in Inputs /\ deferred[i].tag \in Nat
  BY <1>2 DEF Input
<1>4. deferred = <<>> <=> Len(deferred) = 0
  BY EmptySeq DEF InputType
<1> QED BY <1>1, <1>2, <1>3, <1>4 DEF Queued

\* The inputs a watermark covers are the first ones of the queue.
LEMMA PromotablePrefix ==
  ASSUME InputType, Ordered, NEW v \in Nat
  PROVE  /\ Cardinality(Promotable(v)) \in 0..Len(deferred)
         /\ \A i \in 1..Len(deferred) :
               i <= Cardinality(Promotable(v)) <=> deferred[i].tag <= v
<1> DEFINE P == Promotable(v)
           L == Len(deferred)
           n == Cardinality(P)
<1>1. L \in Nat /\ P \subseteq 1..L /\ \A i \in 1..L : deferred[i].tag \in Nat
  BY QueueShape DEF Promotable
<1>2. IsFiniteSet(1..L) /\ Cardinality(1..L) = L
  BY <1>1, IntervalCardinality
<1>3. IsFiniteSet(P) /\ n \in Nat /\ n <= L
  BY <1>1, <1>2, FS_Subset, FS_CardinalityType
<1>4. \A i \in 1..L : i \in P <=> deferred[i].tag <= v
  BY DEF Promotable
<1>5. \A i, j \in 1..L : i < j /\ j \in P => i \in P
  BY <1>1, <1>4 DEF Ordered
<1>6. ASSUME NEW i \in 1..L, i \in P
      PROVE  i <= n
  <2>1. 1..i \subseteq P
    BY <1>1, <1>5, <1>6
  <2>2. IsFiniteSet(1..i) /\ Cardinality(1..i) = i
    BY IntervalCardinality
  <2> QED BY <1>3, <2>1, <2>2, FS_Subset
<1>7. ASSUME NEW i \in 1..L, i \notin P
      PROVE  ~(i <= n)
  <2>1. P \subseteq 1..(i - 1)
    BY <1>1, <1>5, <1>7
  <2>2. i - 1 \in Nat
    OBVIOUS
  <2>3. IsFiniteSet(1..(i - 1)) /\ Cardinality(1..(i - 1)) = i - 1
    BY <2>2, IntervalCardinality
  <2>4. n <= i - 1
    BY <2>1, <2>3, FS_Subset
  <2> QED BY <1>3, <2>4
<1> QED BY <1>3, <1>4, <1>6, <1>7

\* promote_deferred_inputs moves the inputs a watermark covers, and only
\* those, from the deferred queue to the pending one.
LEMMA PromoteMoves ==
  ASSUME InputType, Distinct, Ordered, NEW v \in Nat, Promote(v), UNCHANGED inputSeq
  PROVE  /\ \E A \in SUBSET Queued :
               /\ pendingInputs' = pendingInputs \cup A
               /\ Queued' = Queued \ A
               /\ \A i \in 1..Len(deferred) : deferred[i].input \in A <=> deferred[i].tag <= v
         /\ Distinct' /\ Ordered'
         /\ v = inputSeq => deferred' = <<>>
<1> DEFINE L == Len(deferred)
           n == Cardinality(Promotable(v))
           A == {deferred[i].input : i \in 1..n}
<1>1. /\ L \in Nat /\ n \in 0..L
      /\ \A i \in 1..L : i <= n <=> deferred[i].tag <= v
      /\ \A i \in 1..L : deferred[i] \in Input
  BY PromotablePrefix, QueueShape
<1>2. pendingInputs' = pendingInputs \cup A /\ deferred' = SubSeq(deferred, n + 1, L)
  BY DEF Promote
<1> HIDE DEF n
<1>3. \A i \in (n + 1)..L : deferred[i] \in Input
  BY <1>1
<1>4. /\ Len(deferred') = L - n
      /\ \A i \in 1..(L - n) : deferred'[i] = deferred[n + i]
      /\ deferred' \in Seq(Input)
  <2>1. n + 1 \in Int /\ L \in Int
    BY <1>1
  <2> HIDE DEF L
  <2>2. /\ SubSeq(deferred, n + 1, L) \in Seq(Input)
        /\ Len(SubSeq(deferred, n + 1, L)) = IF n + 1 <= L THEN L - (n + 1) + 1 ELSE 0
        /\ \A i \in 1..(L - (n + 1) + 1) :
              SubSeq(deferred, n + 1, L)[i] = deferred[(n + 1) + i - 1]
    BY <1>3, <2>1, SubSeqProperties
  <2>3. L - (n + 1) + 1 = L - n /\ (~(n + 1 <= L) => L - n = 0)
    BY <1>1
  <2>4. \A i \in 1..(L - n) : (n + 1) + i - 1 = n + i
    BY <1>1
  <2> QED BY <1>2, <2>2, <2>3, <2>4
<1>5. \A i \in 1..L : deferred[i].input \in A <=> i <= n
  <2>1. ASSUME NEW i \in 1..L, deferred[i].input \in A PROVE i <= n
    <3>1. PICK j \in 1..n : deferred[i].input = deferred[j].input
      BY <2>1
    <3>2. j \in 1..L
      BY <1>1
    <3> QED BY <3>1, <3>2, <1>1 DEF Distinct
  <2>2. ASSUME NEW i \in 1..L, i <= n PROVE deferred[i].input \in A
    BY <2>2, <1>1
  <2> QED BY <2>1, <2>2
<1>6. A \subseteq Queued
  BY <1>1 DEF Queued
<1>7. Queued' = Queued \ A
  <2>1. ASSUME NEW x \in Queued' PROVE x \in Queued \ A
    <3>1. PICK i \in 1..(L - n) : x = deferred'[i].input
      BY <2>1, <1>4 DEF Queued
    <3>2. n + i \in 1..L /\ ~(n + i <= n) /\ x = deferred[n + i].input
      BY <3>1, <1>1, <1>4
    <3> HIDE DEF A
    <3> QED BY <3>2, <1>5 DEF Queued
  <2>2. ASSUME NEW x \in Queued, x \notin A PROVE x \in Queued'
    <3>1. PICK i \in 1..L : x = deferred[i].input
      BY DEF Queued
    <3> HIDE DEF A
    <3>2. ~(i <= n)
      BY <3>1, <2>2, <1>5
    <3>3. i - n \in 1..(L - n) /\ n + (i - n) = i
      BY <3>2, <1>1
    <3>4. x = deferred'[i - n].input
      BY <3>1, <3>3, <1>4
    <3> QED BY <3>3, <3>4, <1>4 DEF Queued
  <2> QED BY <2>1, <2>2
<1>8. Distinct'
  <2> SUFFICES ASSUME NEW i \in 1..(L - n), NEW j \in 1..(L - n),
                      deferred'[i].input = deferred'[j].input
               PROVE  i = j
    BY <1>4 DEF Distinct
  <2>1. n + i \in 1..L /\ n + j \in 1..L
    BY <1>1
  <2>2. deferred[n + i].input = deferred[n + j].input
    BY <1>4
  <2>3. n + i = n + j
    BY <2>1, <2>2 DEF Distinct
  <2> QED BY <2>3, <1>1
<1>9. Ordered'
  <2>1. ASSUME NEW i \in 1..(L - n) PROVE deferred'[i].tag <= inputSeq'
    <3>1. n + i \in 1..L
      BY <1>1
    <3> QED BY <3>1, <1>4 DEF Ordered
  <2>2. ASSUME NEW i \in 1..(L - n), NEW j \in 1..(L - n), i < j
        PROVE  deferred'[i].tag < deferred'[j].tag
    <3>1. n + i \in 1..L /\ n + j \in 1..L /\ n + i < n + j
      BY <1>1, <2>2
    <3> QED BY <3>1, <1>4 DEF Ordered
  <2> QED BY <1>4, <2>1, <2>2 DEF Ordered
<1>10. ASSUME v = inputSeq PROVE deferred' = <<>>
  <2>1. \A i \in 1..L : i <= n
    BY <1>1, <1>10 DEF Ordered
  <2>2. n = L
    BY <1>1, <2>1
  <2>3. Len(deferred') = 0
    BY <1>1, <1>4, <2>2
  <2> QED BY <1>4, <2>3, EmptySeq
<1> QED BY <1>1, <1>2, <1>5, <1>6, <1>7, <1>8, <1>9, <1>10

-----------------------------------------------------------------------------
\* The epoch count is a number of guards.
LEMMA SettlingNat ==
  ASSUME EpochsCounted
  PROVE  settling \in Nat
<1>1. IsFiniteSet({c \in Callers : inEpoch[c]})
  BY CallersAssumption, FS_Subset
<1> QED BY <1>1, FS_CardinalityType DEF EpochsCounted

\* Waking the writers at a boundary accepts nothing.
LEMMA WakeKeeps ==
  ASSUME WriterType, WakeBoundary
  PROVE  Accepted' = Accepted
<1>1. \A w \in Writers : wpc'[w] = "done" <=> wpc[w] = "done"
  BY DEF WakeBoundary, WriterType
<1> QED BY <1>1 DEF Accepted, Inputs, Writers

\* A promotion loses nothing, and its inputs have a generation.
LEMMA PromoteKeeps ==
  ASSUME TypeOK, GenerationOrder, InputsInv, NEW v \in Nat, Promote(v),
         UNCHANGED <<inputSeq, applied>>, Accepted' = Accepted,
         settling' = settling \/ v = inputSeq
  PROVE  InputsInv'
<1>1. PICK A \in SUBSET Queued :
         pendingInputs' = pendingInputs \cup A /\ Queued' = Queued \ A
  BY PromoteMoves DEF InputsInv, TypeOK
<1>2. Distinct' /\ Ordered' /\ (v = inputSeq => deferred' = <<>>)
  BY PromoteMoves DEF InputsInv, TypeOK
<1>3. Placed'
  BY <1>1 DEF InputsInv, Placed
<1>4. pending' # 0
  BY DEF Promote, GetOrInsert, GenerationOrder, TypeOK, GenType
<1>5. deferred' # <<>> => deferred # <<>>
  <2>1. Promotable(v) # {}
    BY FS_EmptySet DEF Promote
  <2>2. Len(deferred) # 0
    BY <2>1, QueueShape DEF Promotable, TypeOK
  <2> QED BY <2>2, QueueShape DEF TypeOK
<1> QED BY <1>2, <1>3, <1>4, <1>5 DEF InputsInv, Drained

\* Drop of an EpochGuard: if it is the last one, nothing stays deferred.
LEMMA LeaveKeeps ==
  ASSUME TypeOK, GenerationOrder, EpochsCounted, InputsInv, NEW c \in Callers, inEpoch[c],
         NEW l, LeaveEpoch(c, l)
  PROVE  InputsInv'
<1>1. Accepted' = Accepted
  BY WakeKeeps DEF LeaveEpoch, TypeOK
<1>2. settling \in Nat /\ settling # 0
  <2>1. IsFiniteSet({d \in Callers : inEpoch[d]})
    BY CallersAssumption, FS_Subset
  <2>2. {d \in Callers : inEpoch[d]} # {}
    OBVIOUS
  <2> QED BY <2>1, <2>2, FS_EmptySet, FS_CardinalityType DEF EpochsCounted
<1>3. CASE settling = 1 /\ deferred # <<>>
  <2>1. Promote(inputSeq) /\ inputSeq \in Nat /\ UNCHANGED <<inputSeq, applied>>
    BY <1>3 DEF LeaveEpoch, TypeOK, InputType
  <2> QED BY <1>1, <2>1, PromoteKeeps
<1>4. CASE ~(settling = 1 /\ deferred # <<>>)
  <2>1. /\ UNCHANGED <<pendingInputs, deferred, pending, inputSeq, applied>>
        /\ settling' = settling - 1
    BY <1>4 DEF LeaveEpoch
  <2>2. Queued' = Queued
    BY <2>1 DEF Queued
  <2>3. Drained'
    BY <1>2, <1>4, <2>1 DEF InputsInv, Drained
  <2> QED BY <1>1, <2>1, <2>2, <2>3 DEF InputsInv, Placed, Distinct, Ordered
<1> QED BY <1>3, <1>4

\* An input that joins the pending generation.
LEMMA DirectInsert ==
  ASSUME InputsInv, NEW w \in Inputs, wpc[w] # "done", Accepted' = Accepted \cup {w},
         pendingInputs' = pendingInputs \cup {w}, pending' # 0,
         UNCHANGED <<deferred, inputSeq, applied, settling>>
  PROVE  InputsInv'
<1>1. w \notin Accepted /\ Queued' = Queued
  BY DEF Accepted, Queued
<1>2. Placed'
  BY <1>1 DEF InputsInv, Placed
<1> QED BY <1>2 DEF InputsInv, Distinct, Ordered, Drained

\* An input that arrives during an epoch gets the newest tag.
LEMMA DeferredInsert ==
  ASSUME TypeOK, InputsInv, NEW w \in Inputs, wpc[w] # "done", Accepted' = Accepted \cup {w},
         deferred' = Append(deferred, [tag |-> inputSeq + 1, input |-> w]),
         inputSeq' = inputSeq + 1, settling \in Nat, settling # 0,
         UNCHANGED <<pendingInputs, applied, pending, settling>>
  PROVE  InputsInv'
<1> DEFINE L == Len(deferred)
           e == [tag |-> inputSeq + 1, input |-> w]
<1>1. L \in Nat /\ inputSeq \in Nat /\ \A i \in 1..L : deferred[i].tag \in Nat
  BY QueueShape DEF TypeOK, InputType
<1>2. e \in Input /\ e.tag = inputSeq + 1 /\ e.input = w
  BY <1>1 DEF Input
<1> HIDE DEF e
<1>3. /\ Len(deferred') = L + 1
      /\ \A i \in 1..L : deferred'[i] = deferred[i]
      /\ deferred'[L + 1] = e
  BY <1>2, AppendProperties DEF TypeOK, InputType, e
<1>4. Queued' = Queued \cup {w}
  <2>1. ASSUME NEW x \in Queued' PROVE x \in Queued \cup {w}
    <3>1. PICK i \in 1..(L + 1) : x = deferred'[i].input
      BY <1>3 DEF Queued
    <3>2. i \in 1..L \/ i = L + 1
      BY <1>1
    <3> QED BY <1>2, <1>3, <3>1, <3>2 DEF Queued
  <2>2. ASSUME NEW x \in Queued PROVE x \in Queued'
    <3>1. PICK i \in 1..L : x = deferred[i].input
      BY DEF Queued
    <3>2. i \in 1..(L + 1) /\ x = deferred'[i].input
      BY <1>1, <1>3, <3>1
    <3> QED BY <1>3, <3>2 DEF Queued
  <2>3. w \in Queued'
    <3>1. L + 1 \in 1..(L + 1) /\ w = deferred'[L + 1].input
      BY <1>1, <1>2, <1>3
    <3> QED BY <1>3, <3>1 DEF Queued
  <2> QED BY <2>1, <2>2, <2>3
<1>5. w \notin Accepted
  BY DEF Accepted
<1>6. Placed'
  BY <1>4, <1>5 DEF InputsInv, Placed
<1>7. Distinct'
  <2>1. \A i \in 1..L : deferred[i].input # w
    BY <1>5 DEF InputsInv, Placed, Queued
  <2> QED BY <1>1, <1>2, <1>3, <2>1 DEF InputsInv, Distinct
<1>8. Ordered'
  <2>1. \A i \in 1..L : deferred[i].tag <= inputSeq
    BY DEF InputsInv, Ordered
  <2>2. \A i, j \in 1..L : i < j => deferred[i].tag < deferred[j].tag
    BY DEF InputsInv, Ordered
  <2> QED BY <1>1, <1>2, <1>3, <2>1, <2>2 DEF Ordered
<1>9. Drained'
  BY DEF InputsInv, Drained
<1> QED BY <1>6, <1>7, <1>8, <1>9 DEF InputsInv

-----------------------------------------------------------------------------
\* A bowl starts with empty queues.
LEMMA InputsInit == Init => InputsInv
<1> SUFFICES ASSUME Init PROVE InputsInv
  OBVIOUS
<1>1. Len(deferred) = 0 /\ Queued = {} /\ Accepted = {}
  BY EmptySeq DEF Init, Queued, Accepted, Inputs, Writers
<1> QED BY <1>1 DEF Init, InputsInv, Placed, Distinct, Ordered, Drained

\* Every critical section keeps the accepted inputs where they belong.
LEMMA InputsStep == ControlInv /\ InputsInv /\ [Next]_vars => InputsInv'
<1> SUFFICES ASSUME ControlInv, InputsInv, [Next]_vars PROVE InputsInv'
  OBVIOUS
<1>0. TypeOK /\ GenerationOrder /\ PcInv /\ EpochsCounted /\ InputsInv
  BY DEF ControlInv
<1>Frame. ASSUME UNCHANGED <<pendingInputs, deferred, inputSeq, applied>>,
                 Accepted' = Accepted, pending # 0 => pending' # 0,
                 settling > 0 => settling' > 0
          PROVE  InputsInv'
  <2>1. Queued' = Queued
    BY <1>Frame DEF Queued
  <2> QED BY <1>0, <1>Frame, <2>1 DEF InputsInv, Placed, Distinct, Ordered, Drained
<1>CallSettle. ASSUME NEW c \in Callers, CallSettle(c) PROVE InputsInv'
  BY <1>CallSettle, <1>Frame DEF CallSettle, Accepted
<1>CallTake. ASSUME NEW c \in Callers, CallTake(c) PROVE InputsInv'
  BY <1>CallTake, <1>Frame DEF CallTake, Accepted
<1>FastPath. ASSUME NEW c \in Callers, FastPath(c) PROVE InputsInv'
  BY <1>FastPath, <1>Frame DEF FastPath, Accepted
<1>EnterEpoch. ASSUME NEW c \in Callers, EnterEpoch(c) PROVE InputsInv'
  <2>1. settling \in Nat
    BY <1>0, SettlingNat
  <2> QED BY <1>EnterEpoch, <2>1, <1>Frame DEF EnterEpoch, Accepted
<1>BoundaryPromote. ASSUME NEW c \in Callers, BoundaryPromote(c) PROVE InputsInv'
  <2>1. Promote(watermark[c]) /\ watermark[c] \in Nat
    BY <1>0, <1>BoundaryPromote DEF BoundaryPromote, TypeOK, TaskType
  <2> QED BY <1>0, <1>BoundaryPromote, <2>1, PromoteKeeps DEF BoundaryPromote, Accepted
<1>BoundaryReturn. ASSUME NEW c \in Callers, BoundaryReturn(c) PROVE InputsInv'
  BY <1>BoundaryReturn, <1>Frame DEF BoundaryReturn, Accepted
<1>PickTarget. ASSUME NEW c \in Callers, PickTarget(c) PROVE InputsInv'
  BY <1>PickTarget, <1>Frame DEF PickTarget, Accepted
<1>CheckClean. ASSUME NEW c \in Callers, CheckClean(c) PROVE InputsInv'
  BY <1>CheckClean, <1>Frame DEF CheckClean, Accepted
<1>Enqueue. ASSUME NEW c \in Callers, Enqueue(c) PROVE InputsInv'
  BY <1>0, <1>Enqueue, <1>Frame DEF Enqueue, Accepted, GetOrInsert, GenerationOrder,
     TypeOK, GenType
<1>Heal. ASSUME NEW c \in Callers, Heal(c) PROVE InputsInv'
  BY <1>Heal, <1>Frame DEF Heal, Accepted
<1>NothingToHeal. ASSUME NEW c \in Callers, NothingToHeal(c) PROVE InputsInv'
  BY <1>NothingToHeal, <1>Frame DEF NothingToHeal, Accepted
<1>HooksTake. ASSUME NEW c \in Callers, HooksTake(c) PROVE InputsInv'
  BY <1>HooksTake, <1>Frame DEF HooksTake, Accepted
<1>HooksCommit. ASSUME NEW c \in Callers, HooksCommit(c) PROVE InputsInv'
  BY <1>HooksCommit, <1>Frame DEF HooksCommit, Accepted
<1>HooksRestore. ASSUME NEW c \in Callers, HooksRestore(c) PROVE InputsInv'
  BY <1>HooksRestore, <1>Frame DEF HooksRestore, Accepted
<1>SettleTake. ASSUME NEW c \in Callers, SettleTake(c) PROVE InputsInv'
  BY <1>SettleTake, <1>Frame DEF SettleTake, Accepted
<1>SettlePlan. ASSUME NEW c \in Callers, SettlePlan(c) PROVE InputsInv'
  BY <1>SettlePlan, <1>Frame DEF SettlePlan, Accepted
<1>SettleCommit. ASSUME NEW c \in Callers, SettleCommit(c) PROVE InputsInv'
  BY <1>SettleCommit, <1>Frame DEF SettleCommit, Accepted
<1>SettleRestore. ASSUME NEW c \in Callers, SettleRestore(c) PROVE InputsInv'
  BY <1>SettleRestore, <1>Frame DEF SettleRestore, Accepted
<1>Followup. ASSUME NEW c \in Callers, Followup(c) PROVE InputsInv'
  BY <1>Followup, <1>Frame DEF Followup, Accepted
<1>PublishPromote. ASSUME NEW c \in Callers, PublishPromote(c) PROVE InputsInv'
  <2>1. Promote(watermark[c]) /\ watermark[c] \in Nat
    BY <1>0, <1>PublishPromote DEF PublishPromote, TypeOK, TaskType
  <2> QED BY <1>0, <1>PublishPromote, <2>1, PromoteKeeps DEF PublishPromote, Accepted
<1>Publish. ASSUME NEW c \in Callers, Publish(c) PROVE InputsInv'
  BY <1>Publish, <1>Frame DEF Publish, Accepted
<1>ExitEpoch. ASSUME NEW c \in Callers, ExitEpoch(c) PROVE InputsInv'
  <2>1. inEpoch[c]
    BY <1>0, <1>ExitEpoch DEF ExitEpoch, PcInv, EpochPcs
  <2> QED BY <1>0, <1>ExitEpoch, <2>1, LeaveKeeps DEF ExitEpoch
<1>Read. ASSUME NEW c \in Callers, Read(c) PROVE InputsInv'
  BY <1>Read, <1>Frame DEF Read, Accepted
<1>ForEach. ASSUME NEW c \in Callers, ForEach(c) PROVE InputsInv'
  BY <1>0, <1>ForEach, <1>Frame DEF ForEach, Accepted, GetOrInsert, GenerationOrder,
     TypeOK, GenType
<1>Take. ASSUME NEW c \in Callers, Take(c) PROVE InputsInv'
  BY <1>Take, <1>Frame DEF Take, Accepted
<1>Ensure. ASSUME NEW c \in Callers, Ensure(c) PROVE InputsInv'
  BY <1>Ensure, <1>Frame DEF Ensure, Accepted
<1>TryRunner. ASSUME NEW c \in Callers, TryRunner(c) PROVE InputsInv'
  BY <1>TryRunner, <1>Frame DEF TryRunner, Accepted
<1>WaitGeneration. ASSUME NEW c \in Callers, WaitGeneration(c) PROVE InputsInv'
  BY <1>WaitGeneration, <1>Frame DEF WaitGeneration, Accepted
<1>StartEvaluation. ASSUME NEW c \in Callers, StartEvaluation(c) PROVE InputsInv'
  <2>1. /\ pendingInputs' = {} /\ applied' = applied \cup pendingInputs
        /\ UNCHANGED <<deferred, inputSeq, settling, wpc>>
    BY <1>StartEvaluation DEF StartEvaluation
  <2>2. Queued' = Queued /\ Accepted' = Accepted
    BY <2>1 DEF Queued, Accepted
  <2>3. Placed'
    BY <1>0, <2>1, <2>2 DEF InputsInv, Placed
  <2> QED BY <1>0, <2>1, <2>3 DEF InputsInv, Distinct, Ordered, Drained
<1>NothingPending. ASSUME NEW c \in Callers, NothingPending(c) PROVE InputsInv'
  BY <1>NothingPending, <1>Frame DEF NothingPending, Accepted
<1>QuietCommit. ASSUME NEW c \in Callers, QuietCommit(c) PROVE InputsInv'
  BY <1>QuietCommit, <1>Frame DEF QuietCommit, Accepted
<1>LoudCommit. ASSUME NEW c \in Callers, LoudCommit(c) PROVE InputsInv'
  BY <1>LoudCommit, <1>Frame DEF LoudCommit, Accepted
<1>PhaseDone. ASSUME NEW c \in Callers, PhaseDone(c) PROVE InputsInv'
  BY <1>PhaseDone, <1>Frame DEF PhaseDone, Accepted
<1>Preempt. ASSUME NEW c \in Callers, Preempt(c) PROVE InputsInv'
  BY <1>Preempt, <1>Frame DEF Preempt, Accepted
<1>OpenWindow. ASSUME NEW c \in Callers, OpenWindow(c) PROVE InputsInv'
  <2>1. Accepted' = Accepted
    BY <1>0, <1>OpenWindow, WakeKeeps DEF OpenWindow, TypeOK
  <2> QED BY <1>OpenWindow, <2>1, <1>Frame DEF OpenWindow
<1>WindowDrained. ASSUME NEW c \in Callers, WindowDrained(c) PROVE InputsInv'
  BY <1>WindowDrained, <1>Frame DEF WindowDrained, Accepted
<1>CloseWindow. ASSUME NEW c \in Callers, CloseWindow(c) PROVE InputsInv'
  BY <1>CloseWindow, <1>Frame DEF CloseWindow, Accepted
<1>CompleteGeneration. ASSUME NEW c \in Callers, CompleteGeneration(c) PROVE InputsInv'
  <2>1. Accepted' = Accepted
    BY <1>0, <1>CompleteGeneration, WakeKeeps DEF CompleteGeneration, TypeOK
  <2> QED BY <1>CompleteGeneration, <2>1, <1>Frame DEF CompleteGeneration
<1>ReleaseRunner. ASSUME NEW c \in Callers, ReleaseRunner(c) PROVE InputsInv'
  BY <1>ReleaseRunner, <1>Frame DEF ReleaseRunner, Accepted
<1>Cancel. ASSUME NEW c \in Callers, Cancel(c) PROVE InputsInv'
  BY <1>Cancel, <1>Frame DEF Cancel, Accepted
<1>DropEvaluation. ASSUME NEW c \in Callers, DropEvaluation(c) PROVE InputsInv'
  BY <1>0, <1>DropEvaluation, <1>Frame DEF DropEvaluation, Accepted, GetOrInsert,
     GenerationOrder,
     TypeOK, GenType
<1>DropRunner. ASSUME NEW c \in Callers, DropRunner(c) PROVE InputsInv'
  BY <1>DropRunner, <1>Frame DEF DropRunner, Accepted
<1>DropEpoch. ASSUME NEW c \in Callers, DropEpoch(c) PROVE InputsInv'
  <2>1. inEpoch[c]
    BY <1>0, <1>DropEpoch DEF DropEpoch, PcInv, EpochPcs
  <2> QED BY <1>0, <1>DropEpoch, <2>1, LeaveKeeps DEF DropEpoch
<1>InsertIdle. ASSUME NEW w \in Writers, InsertIdle(w) PROVE InputsInv'
  <2>1. w \in Inputs /\ wpc[w] # "done" /\ Accepted' = Accepted \cup {w}
    BY <1>0, <1>InsertIdle DEF InsertIdle, AtBoundary, Accepted, Inputs, TypeOK,
       WriterType
  <2>2. /\ pendingInputs' = pendingInputs \cup {w} /\ pending' # 0
        /\ UNCHANGED <<deferred, inputSeq, applied, settling>>
    BY <1>0, <1>InsertIdle DEF InsertIdle, AtBoundary, GetOrInsert, GenerationOrder,
       TypeOK, GenType
  <2> QED BY <1>0, <2>1, <2>2, DirectInsert
<1>InsertDeferred. ASSUME NEW w \in Writers, InsertDeferred(w) PROVE InputsInv'
  <2>1. w \in Inputs /\ wpc[w] # "done" /\ Accepted' = Accepted \cup {w}
    BY <1>0, <1>InsertDeferred DEF InsertDeferred, Accepted, Inputs, TypeOK, WriterType
  <2>2. /\ deferred' = Append(deferred, [tag |-> inputSeq + 1, input |-> w])
        /\ inputSeq' = inputSeq + 1
        /\ UNCHANGED <<pendingInputs, applied, pending, settling>>
    BY <1>InsertDeferred DEF InsertDeferred
  <2>3. settling \in Nat /\ settling # 0
    BY <1>0, <1>InsertDeferred, SettlingNat DEF InsertDeferred
  <2> QED BY <1>0, <2>1, <2>2, <2>3, DeferredInsert
<1>InsertPreempting. ASSUME NEW w \in Writers, InsertPreempting(w) PROVE InputsInv'
  <2>1. Accepted' = Accepted
    BY <1>0, <1>InsertPreempting DEF InsertPreempting, Accepted, Inputs, Writers,
       TypeOK, WriterType
  <2> QED BY <1>InsertPreempting, <2>1, <1>Frame DEF InsertPreempting
<1>BeginMut. ASSUME NEW w \in Writers, BeginMut(w) PROVE InputsInv'
  <2>1. Accepted' = Accepted
    BY <1>0, <1>BeginMut DEF BeginMut, Accepted, Inputs, Writers, TypeOK, WriterType
  <2> QED BY <1>BeginMut, <2>1, <1>Frame DEF BeginMut
<1>PreemptingInsertLands. ASSUME NEW w \in Writers, PreemptingInsertLands(w) PROVE InputsInv'
  <2>1. w \in Inputs /\ wpc[w] # "done" /\ Accepted' = Accepted \cup {w}
    BY <1>0, <1>PreemptingInsertLands DEF PreemptingInsertLands, AtBoundary, Accepted,
       Inputs, TypeOK, WriterType
  <2>2. /\ pendingInputs' = pendingInputs \cup {w} /\ pending' # 0
        /\ UNCHANGED <<deferred, inputSeq, applied, settling>>
    BY <1>0, <1>PreemptingInsertLands DEF PreemptingInsertLands, AtBoundary,
       GetOrInsert, GenerationOrder, TypeOK, GenType
  <2> QED BY <1>0, <2>1, <2>2, DirectInsert
<1>MutLands. ASSUME NEW w \in Writers, MutLands(w) PROVE InputsInv'
  <2>1. w \notin Inputs
    BY <1>MutLands, WritersAssumption DEF MutLands
  <2>2. Accepted' = Accepted
    BY <1>0, <1>MutLands, <2>1 DEF MutLands, AtBoundary, Accepted, TypeOK, WriterType
  <2> QED
    BY <1>0, <1>MutLands, <2>2, <1>Frame DEF MutLands, AtBoundary, GetOrInsert,
       GenerationOrder,
       TypeOK, GenType
<1>AwaitBoundary. ASSUME NEW w \in Writers, AwaitBoundary(w) PROVE InputsInv'
  <2>1. Accepted' = Accepted
    BY <1>0, <1>AwaitBoundary DEF AwaitBoundary, Accepted, Inputs, Writers, TypeOK,
       WriterType
  <2> QED BY <1>AwaitBoundary, <2>1, <1>Frame DEF AwaitBoundary
<1>MutStale. ASSUME NEW w \in Writers, MutStale(w) PROVE InputsInv'
  <2>1. w \notin Inputs
    BY <1>MutStale, WritersAssumption DEF MutStale
  <2>2. Accepted' = Accepted
    BY <1>0, <1>MutStale, <2>1 DEF MutStale, AtBoundary, Accepted, TypeOK, WriterType
  <2> QED
    BY <1>0, <1>MutStale, <2>2, <1>Frame DEF MutStale, AtBoundary, GetOrInsert,
       GenerationOrder,
       TypeOK, GenType
<1>MutBusy. ASSUME NEW w \in Writers, MutBusy(w) PROVE InputsInv'
  BY <1>MutBusy, <1>Frame DEF MutBusy, Accepted
<1>CancelWriter. ASSUME NEW w \in Writers, CancelWriter(w) PROVE InputsInv'
  <2>1. Accepted' = Accepted
    BY <1>0, <1>CancelWriter DEF CancelWriter, Accepted, Inputs, Writers, TypeOK,
       WriterType
  <2> QED BY <1>CancelWriter, <2>1, <1>Frame DEF CancelWriter
<1>Stutter. CASE UNCHANGED vars
  BY <1>Stutter, <1>Frame DEF Accepted
<1> QED
  BY <1>CallSettle, <1>CallTake, <1>FastPath, <1>EnterEpoch, <1>BoundaryPromote,
     <1>BoundaryReturn, <1>PickTarget, <1>CheckClean, <1>Enqueue, <1>Heal,
     <1>NothingToHeal, <1>HooksTake, <1>HooksCommit, <1>HooksRestore, <1>SettleTake,
     <1>SettlePlan, <1>SettleCommit, <1>SettleRestore, <1>Followup,
     <1>PublishPromote, <1>Publish, <1>ExitEpoch, <1>Read, <1>ForEach, <1>Take,
     <1>Ensure, <1>TryRunner, <1>WaitGeneration, <1>StartEvaluation,
     <1>NothingPending, <1>QuietCommit, <1>LoudCommit, <1>PhaseDone, <1>Preempt,
     <1>OpenWindow, <1>WindowDrained, <1>CloseWindow, <1>CompleteGeneration,
     <1>ReleaseRunner, <1>Cancel, <1>DropEvaluation, <1>DropRunner, <1>DropEpoch,
     <1>InsertIdle, <1>InsertDeferred, <1>InsertPreempting, <1>BeginMut,
     <1>PreemptingInsertLands, <1>MutLands, <1>AwaitBoundary, <1>MutStale,
     <1>MutBusy, <1>CancelWriter, <1>Stutter
     DEF Next, CallerStep, SettleStep, DriveStep, DropStep, WriterStep, Finished,
         OutOfBounds

\* Deferral never becomes loss, whoever is dropped where: insert, remove and
\* despawn calls that returned are in the world or in a queue that a
\* generation or a live settler will drain, and in one place only.
THEOREM InputsNeverLost == Spec => []AcceptedInputsKept
<1>1. Init => ControlInv /\ InputsInv
  BY ControlInit, InputsInit
<1>2. ControlInv /\ InputsInv /\ [Next]_vars => (ControlInv /\ InputsInv)'
  BY ControlStep, InputsStep
<1>3. ControlInv /\ InputsInv => AcceptedInputsKept
  BY InputsKept DEF ControlInv, TypeOK
<1> QED BY <1>1, <1>2, <1>3, PTL DEF Spec

-----------------------------------------------------------------------------
\* A plain insert never waits for a boundary.
InsertsReturn == \A w \in Inserts : wpc[w] \notin {"try", "wait"}

WaitersInv == OnlyWaitersRegistered /\ InsertsReturn

\* Nobody is registered at first.
LEMMA WaitersInit == Init => WaitersInv
BY DEF Init, WaitersInv, OnlyWaitersRegistered, InsertsReturn, Writers, Inputs

\* Every critical section that ends a wait also deregisters it.
LEMMA WaitersStep == TypeOK /\ WaitersInv /\ [Next]_vars => WaitersInv'
<1> SUFFICES ASSUME TypeOK, WaitersInv, [Next]_vars PROVE WaitersInv'
  OBVIOUS
<1>0. WriterType /\ WaitersInv
  BY DEF TypeOK
<1>Frame. ASSUME UNCHANGED <<registered, wpc>> PROVE WaitersInv'
  BY <1>0, <1>Frame DEF WaitersInv, OnlyWaitersRegistered, InsertsReturn
<1>CallSettle. ASSUME NEW c \in Callers, CallSettle(c) PROVE WaitersInv'
  BY <1>CallSettle, <1>Frame DEF CallSettle
<1>CallTake. ASSUME NEW c \in Callers, CallTake(c) PROVE WaitersInv'
  BY <1>CallTake, <1>Frame DEF CallTake
<1>FastPath. ASSUME NEW c \in Callers, FastPath(c) PROVE WaitersInv'
  BY <1>FastPath, <1>Frame DEF FastPath
<1>EnterEpoch. ASSUME NEW c \in Callers, EnterEpoch(c) PROVE WaitersInv'
  BY <1>EnterEpoch, <1>Frame DEF EnterEpoch
<1>BoundaryPromote. ASSUME NEW c \in Callers, BoundaryPromote(c) PROVE WaitersInv'
  BY <1>BoundaryPromote, <1>Frame DEF BoundaryPromote
<1>BoundaryReturn. ASSUME NEW c \in Callers, BoundaryReturn(c) PROVE WaitersInv'
  BY <1>BoundaryReturn, <1>Frame DEF BoundaryReturn
<1>PickTarget. ASSUME NEW c \in Callers, PickTarget(c) PROVE WaitersInv'
  BY <1>PickTarget, <1>Frame DEF PickTarget
<1>CheckClean. ASSUME NEW c \in Callers, CheckClean(c) PROVE WaitersInv'
  BY <1>CheckClean, <1>Frame DEF CheckClean
<1>Enqueue. ASSUME NEW c \in Callers, Enqueue(c) PROVE WaitersInv'
  BY <1>Enqueue, <1>Frame DEF Enqueue
<1>Heal. ASSUME NEW c \in Callers, Heal(c) PROVE WaitersInv'
  BY <1>Heal, <1>Frame DEF Heal
<1>NothingToHeal. ASSUME NEW c \in Callers, NothingToHeal(c) PROVE WaitersInv'
  BY <1>NothingToHeal, <1>Frame DEF NothingToHeal
<1>HooksTake. ASSUME NEW c \in Callers, HooksTake(c) PROVE WaitersInv'
  BY <1>HooksTake, <1>Frame DEF HooksTake
<1>HooksCommit. ASSUME NEW c \in Callers, HooksCommit(c) PROVE WaitersInv'
  BY <1>HooksCommit, <1>Frame DEF HooksCommit
<1>HooksRestore. ASSUME NEW c \in Callers, HooksRestore(c) PROVE WaitersInv'
  BY <1>HooksRestore, <1>Frame DEF HooksRestore
<1>SettleTake. ASSUME NEW c \in Callers, SettleTake(c) PROVE WaitersInv'
  BY <1>SettleTake, <1>Frame DEF SettleTake
<1>SettlePlan. ASSUME NEW c \in Callers, SettlePlan(c) PROVE WaitersInv'
  BY <1>SettlePlan, <1>Frame DEF SettlePlan
<1>SettleCommit. ASSUME NEW c \in Callers, SettleCommit(c) PROVE WaitersInv'
  BY <1>SettleCommit, <1>Frame DEF SettleCommit
<1>SettleRestore. ASSUME NEW c \in Callers, SettleRestore(c) PROVE WaitersInv'
  BY <1>SettleRestore, <1>Frame DEF SettleRestore
<1>Followup. ASSUME NEW c \in Callers, Followup(c) PROVE WaitersInv'
  BY <1>Followup, <1>Frame DEF Followup
<1>PublishPromote. ASSUME NEW c \in Callers, PublishPromote(c) PROVE WaitersInv'
  BY <1>PublishPromote, <1>Frame DEF PublishPromote
<1>Publish. ASSUME NEW c \in Callers, Publish(c) PROVE WaitersInv'
  BY <1>Publish, <1>Frame DEF Publish
<1>ExitEpoch. ASSUME NEW c \in Callers, ExitEpoch(c) PROVE WaitersInv'
  <2>1. WakeBoundary /\ UNCHANGED registered
    BY <1>ExitEpoch DEF ExitEpoch, LeaveEpoch
  <2> QED
    BY <1>0, <2>1 DEF WakeBoundary, WaitersInv, OnlyWaitersRegistered, InsertsReturn,
           Writers, Inputs, WriterType
<1>Read. ASSUME NEW c \in Callers, Read(c) PROVE WaitersInv'
  BY <1>Read, <1>Frame DEF Read
<1>ForEach. ASSUME NEW c \in Callers, ForEach(c) PROVE WaitersInv'
  BY <1>ForEach, <1>Frame DEF ForEach
<1>Take. ASSUME NEW c \in Callers, Take(c) PROVE WaitersInv'
  BY <1>Take, <1>Frame DEF Take
<1>Ensure. ASSUME NEW c \in Callers, Ensure(c) PROVE WaitersInv'
  BY <1>Ensure, <1>Frame DEF Ensure
<1>TryRunner. ASSUME NEW c \in Callers, TryRunner(c) PROVE WaitersInv'
  BY <1>TryRunner, <1>Frame DEF TryRunner
<1>WaitGeneration. ASSUME NEW c \in Callers, WaitGeneration(c) PROVE WaitersInv'
  BY <1>WaitGeneration, <1>Frame DEF WaitGeneration
<1>StartEvaluation. ASSUME NEW c \in Callers, StartEvaluation(c) PROVE WaitersInv'
  BY <1>StartEvaluation, <1>Frame DEF StartEvaluation
<1>NothingPending. ASSUME NEW c \in Callers, NothingPending(c) PROVE WaitersInv'
  BY <1>NothingPending, <1>Frame DEF NothingPending
<1>QuietCommit. ASSUME NEW c \in Callers, QuietCommit(c) PROVE WaitersInv'
  BY <1>QuietCommit, <1>Frame DEF QuietCommit
<1>LoudCommit. ASSUME NEW c \in Callers, LoudCommit(c) PROVE WaitersInv'
  BY <1>LoudCommit, <1>Frame DEF LoudCommit
<1>PhaseDone. ASSUME NEW c \in Callers, PhaseDone(c) PROVE WaitersInv'
  BY <1>PhaseDone, <1>Frame DEF PhaseDone
<1>Preempt. ASSUME NEW c \in Callers, Preempt(c) PROVE WaitersInv'
  BY <1>Preempt, <1>Frame DEF Preempt
<1>OpenWindow. ASSUME NEW c \in Callers, OpenWindow(c) PROVE WaitersInv'
  <2>1. WakeBoundary /\ UNCHANGED registered
    BY <1>OpenWindow DEF OpenWindow
  <2> QED
    BY <1>0, <2>1 DEF WakeBoundary, WaitersInv, OnlyWaitersRegistered, InsertsReturn,
           Writers, Inputs, WriterType
<1>WindowDrained. ASSUME NEW c \in Callers, WindowDrained(c) PROVE WaitersInv'
  BY <1>WindowDrained, <1>Frame DEF WindowDrained
<1>CloseWindow. ASSUME NEW c \in Callers, CloseWindow(c) PROVE WaitersInv'
  BY <1>CloseWindow, <1>Frame DEF CloseWindow
<1>CompleteGeneration. ASSUME NEW c \in Callers, CompleteGeneration(c) PROVE WaitersInv'
  <2>1. WakeBoundary /\ UNCHANGED registered
    BY <1>CompleteGeneration DEF CompleteGeneration
  <2> QED
    BY <1>0, <2>1 DEF WakeBoundary, WaitersInv, OnlyWaitersRegistered, InsertsReturn,
           Writers, Inputs, WriterType
<1>ReleaseRunner. ASSUME NEW c \in Callers, ReleaseRunner(c) PROVE WaitersInv'
  BY <1>ReleaseRunner, <1>Frame DEF ReleaseRunner
<1>Cancel. ASSUME NEW c \in Callers, Cancel(c) PROVE WaitersInv'
  BY <1>Cancel, <1>Frame DEF Cancel
<1>DropEvaluation. ASSUME NEW c \in Callers, DropEvaluation(c) PROVE WaitersInv'
  BY <1>DropEvaluation, <1>Frame DEF DropEvaluation
<1>DropRunner. ASSUME NEW c \in Callers, DropRunner(c) PROVE WaitersInv'
  BY <1>DropRunner, <1>Frame DEF DropRunner
<1>DropEpoch. ASSUME NEW c \in Callers, DropEpoch(c) PROVE WaitersInv'
  <2>1. WakeBoundary /\ UNCHANGED registered
    BY <1>DropEpoch DEF DropEpoch, LeaveEpoch
  <2> QED
    BY <1>0, <2>1 DEF WakeBoundary, WaitersInv, OnlyWaitersRegistered, InsertsReturn,
           Writers, Inputs, WriterType
<1>InsertIdle. ASSUME NEW w \in Writers, InsertIdle(w) PROVE WaitersInv'
  BY <1>0, <1>InsertIdle, WritersAssumption DEF InsertIdle, WaitersInv,
     OnlyWaitersRegistered, InsertsReturn, Writers, Inputs, WriterType
<1>InsertDeferred. ASSUME NEW w \in Writers, InsertDeferred(w) PROVE WaitersInv'
  BY <1>0, <1>InsertDeferred, WritersAssumption DEF InsertDeferred, WaitersInv,
     OnlyWaitersRegistered, InsertsReturn, Writers, Inputs, WriterType
<1>InsertPreempting. ASSUME NEW w \in Writers, InsertPreempting(w) PROVE WaitersInv'
  BY <1>0, <1>InsertPreempting, WritersAssumption DEF InsertPreempting, WaitersInv,
     OnlyWaitersRegistered, InsertsReturn, Writers, Inputs, WriterType
<1>BeginMut. ASSUME NEW w \in Writers, BeginMut(w) PROVE WaitersInv'
  BY <1>0, <1>BeginMut, WritersAssumption DEF BeginMut, WaitersInv,
     OnlyWaitersRegistered, InsertsReturn, Writers, Inputs, WriterType
<1>PreemptingInsertLands. ASSUME NEW w \in Writers, PreemptingInsertLands(w) PROVE WaitersInv'
  BY <1>0, <1>PreemptingInsertLands, WritersAssumption DEF PreemptingInsertLands,
     AtBoundary, WaitersInv,
     OnlyWaitersRegistered, InsertsReturn, Writers, Inputs, WriterType
<1>MutLands. ASSUME NEW w \in Writers, MutLands(w) PROVE WaitersInv'
  BY <1>0, <1>MutLands, WritersAssumption DEF MutLands, AtBoundary, WaitersInv,
     OnlyWaitersRegistered, InsertsReturn, Writers, Inputs, WriterType
<1>AwaitBoundary. ASSUME NEW w \in Writers, AwaitBoundary(w) PROVE WaitersInv'
  BY <1>0, <1>AwaitBoundary, WritersAssumption DEF AwaitBoundary, WaitersInv,
     OnlyWaitersRegistered, InsertsReturn, Writers, Inputs, WriterType
<1>MutStale. ASSUME NEW w \in Writers, MutStale(w) PROVE WaitersInv'
  BY <1>0, <1>MutStale, WritersAssumption DEF MutStale, WaitersInv,
     OnlyWaitersRegistered, InsertsReturn, Writers, Inputs, WriterType
<1>MutBusy. ASSUME NEW w \in Writers, MutBusy(w) PROVE WaitersInv'
  BY <1>MutBusy, <1>Frame DEF MutBusy
<1>CancelWriter. ASSUME NEW w \in Writers, CancelWriter(w) PROVE WaitersInv'
  BY <1>0, <1>CancelWriter, WritersAssumption DEF CancelWriter, WaitersInv,
     OnlyWaitersRegistered, InsertsReturn, Writers, Inputs, WriterType
<1>Stutter. CASE UNCHANGED vars
  BY <1>Stutter, <1>Frame
<1> QED
  BY <1>CallSettle, <1>CallTake, <1>FastPath, <1>EnterEpoch, <1>BoundaryPromote,
     <1>BoundaryReturn, <1>PickTarget, <1>CheckClean, <1>Enqueue, <1>Heal,
     <1>NothingToHeal, <1>HooksTake, <1>HooksCommit, <1>HooksRestore, <1>SettleTake,
     <1>SettlePlan, <1>SettleCommit, <1>SettleRestore, <1>Followup,
     <1>PublishPromote, <1>Publish, <1>ExitEpoch, <1>Read, <1>ForEach, <1>Take,
     <1>Ensure, <1>TryRunner, <1>WaitGeneration, <1>StartEvaluation,
     <1>NothingPending, <1>QuietCommit, <1>LoudCommit, <1>PhaseDone, <1>Preempt,
     <1>OpenWindow, <1>WindowDrained, <1>CloseWindow, <1>CompleteGeneration,
     <1>ReleaseRunner, <1>Cancel, <1>DropEvaluation, <1>DropRunner, <1>DropEpoch,
     <1>InsertIdle, <1>InsertDeferred, <1>InsertPreempting, <1>BeginMut,
     <1>PreemptingInsertLands, <1>MutLands, <1>AwaitBoundary, <1>MutStale,
     <1>MutBusy, <1>CancelWriter, <1>Stutter
     DEF Next, CallerStep, SettleStep, DriveStep, DropStep, WriterStep, Finished,
         OutOfBounds

\* The registry of PreemptWaiters holds only writers that are still on their
\* way: a write that landed, was given up or was dropped holds no preempt
\* window open (PreemptWaiter::finish and its Drop).
THEOREM RegistryIsLive == Spec => []OnlyWaitersRegistered
<1>1. Init => TypeOK /\ WaitersInv
  BY TypeInit, WaitersInit
<1>2. TypeOK /\ WaitersInv /\ [Next]_vars => (TypeOK /\ WaitersInv)'
  BY TypeStep, WaitersStep
<1>3. WaitersInv => OnlyWaitersRegistered
  BY DEF WaitersInv
<1> QED BY <1>1, <1>2, <1>3, PTL DEF Spec

-----------------------------------------------------------------------------
(* Overlapping settles.  A boundary promotes up to the watermark of the    *)
(* settle that reached it, and only the last guard promotes everything.    *)

\* The guard that leaves is not the last one while another goes on.
LEMMA NotTheLast ==
  ASSUME EpochsCounted, NEW c \in Callers, NEW d \in Callers, c # d, inEpoch[c], inEpoch[d]
  PROVE  settling # 1
<1> DEFINE S == {e \in Callers : inEpoch[e]}
<1>1. IsFiniteSet(S) /\ c \in S /\ d \in S
  BY CallersAssumption, FS_Subset
<1>2. IsFiniteSet(S \ {c}) /\ Cardinality(S \ {c}) = Cardinality(S) - 1
  BY <1>1, FS_RemoveElement
<1>3. Cardinality(S \ {c}) # 0
  BY <1>1, <1>2, FS_EmptySet
<1> QED BY <1>2, <1>3 DEF EpochsCounted

\* No step moves an input beyond the watermarks of the epochs that stay.
LEMMA FrozenStep ==
  ASSUME ControlInv, InputsInv, [Next]_vars,
         NEW c \in Callers, inEpoch[c], inEpoch'[c],
         NEW i \in 1..Len(deferred),
         \A d \in Callers : inEpoch[d] /\ inEpoch'[d] => deferred[i].tag > watermark[d]
  PROVE  deferred[i].input \notin pendingInputs'
<1> DEFINE x == deferred[i].input
           Stays == x \notin pendingInputs'
<1>1. /\ x \in Queued /\ x \notin pendingInputs /\ x \in Accepted
      /\ \A d \in Callers :
            inEpoch[d] /\ inEpoch'[d] =>
                watermark[d] \in Nat /\ ~(deferred[i].tag <= watermark[d])
  <2>1. deferred[i].tag \in Nat /\ \A d \in Callers : watermark[d] \in Nat
    BY QueueShape DEF ControlInv, TypeOK, TaskType
  <2>2. x \in Queued
    BY DEF Queued
  <2> QED BY <2>1, <2>2 DEF InputsInv, Placed
<1>CallSettle. ASSUME NEW d \in Callers, CallSettle(d) PROVE Stays
  BY <1>1, <1>CallSettle DEF CallSettle
<1>CallTake. ASSUME NEW d \in Callers, CallTake(d) PROVE Stays
  BY <1>1, <1>CallTake DEF CallTake
<1>FastPath. ASSUME NEW d \in Callers, FastPath(d) PROVE Stays
  BY <1>1, <1>FastPath DEF FastPath
<1>EnterEpoch. ASSUME NEW d \in Callers, EnterEpoch(d) PROVE Stays
  BY <1>1, <1>EnterEpoch DEF EnterEpoch
<1>BoundaryPromote. ASSUME NEW d \in Callers, BoundaryPromote(d) PROVE Stays
  <2>1. /\ Promote(watermark[d]) /\ UNCHANGED inputSeq /\ inEpoch[d] /\ inEpoch'[d]
        /\ watermark[d] \in Nat /\ ~(deferred[i].tag <= watermark[d])
    BY <1>1, <1>BoundaryPromote DEF BoundaryPromote, ControlInv, PcInv, EpochPcs
  <2>2. PICK A \in SUBSET Queued :
           /\ pendingInputs' = pendingInputs \cup A
           /\ \A j \in 1..Len(deferred) :
                 deferred[j].input \in A <=> deferred[j].tag <= watermark[d]
    BY <2>1, PromoteMoves DEF InputsInv, ControlInv, TypeOK
  <2>3. x \notin A
    BY <1>1, <2>1, <2>2
  <2> QED BY <1>1, <2>2, <2>3
<1>BoundaryReturn. ASSUME NEW d \in Callers, BoundaryReturn(d) PROVE Stays
  BY <1>1, <1>BoundaryReturn DEF BoundaryReturn
<1>PickTarget. ASSUME NEW d \in Callers, PickTarget(d) PROVE Stays
  BY <1>1, <1>PickTarget DEF PickTarget
<1>CheckClean. ASSUME NEW d \in Callers, CheckClean(d) PROVE Stays
  BY <1>1, <1>CheckClean DEF CheckClean
<1>Enqueue. ASSUME NEW d \in Callers, Enqueue(d) PROVE Stays
  BY <1>1, <1>Enqueue DEF Enqueue
<1>Heal. ASSUME NEW d \in Callers, Heal(d) PROVE Stays
  BY <1>1, <1>Heal DEF Heal
<1>NothingToHeal. ASSUME NEW d \in Callers, NothingToHeal(d) PROVE Stays
  BY <1>1, <1>NothingToHeal DEF NothingToHeal
<1>HooksTake. ASSUME NEW d \in Callers, HooksTake(d) PROVE Stays
  BY <1>1, <1>HooksTake DEF HooksTake
<1>HooksCommit. ASSUME NEW d \in Callers, HooksCommit(d) PROVE Stays
  BY <1>1, <1>HooksCommit DEF HooksCommit
<1>HooksRestore. ASSUME NEW d \in Callers, HooksRestore(d) PROVE Stays
  BY <1>1, <1>HooksRestore DEF HooksRestore
<1>SettleTake. ASSUME NEW d \in Callers, SettleTake(d) PROVE Stays
  BY <1>1, <1>SettleTake DEF SettleTake
<1>SettlePlan. ASSUME NEW d \in Callers, SettlePlan(d) PROVE Stays
  BY <1>1, <1>SettlePlan DEF SettlePlan
<1>SettleCommit. ASSUME NEW d \in Callers, SettleCommit(d) PROVE Stays
  BY <1>1, <1>SettleCommit DEF SettleCommit
<1>SettleRestore. ASSUME NEW d \in Callers, SettleRestore(d) PROVE Stays
  BY <1>1, <1>SettleRestore DEF SettleRestore
<1>Followup. ASSUME NEW d \in Callers, Followup(d) PROVE Stays
  BY <1>1, <1>Followup DEF Followup
<1>PublishPromote. ASSUME NEW d \in Callers, PublishPromote(d) PROVE Stays
  <2>1. /\ Promote(watermark[d]) /\ UNCHANGED inputSeq /\ inEpoch[d] /\ inEpoch'[d]
        /\ watermark[d] \in Nat /\ ~(deferred[i].tag <= watermark[d])
    BY <1>1, <1>PublishPromote DEF PublishPromote, ControlInv, PcInv, EpochPcs
  <2>2. PICK A \in SUBSET Queued :
           /\ pendingInputs' = pendingInputs \cup A
           /\ \A j \in 1..Len(deferred) :
                 deferred[j].input \in A <=> deferred[j].tag <= watermark[d]
    BY <2>1, PromoteMoves DEF InputsInv, ControlInv, TypeOK
  <2>3. x \notin A
    BY <1>1, <2>1, <2>2
  <2> QED BY <1>1, <2>2, <2>3
<1>Publish. ASSUME NEW d \in Callers, Publish(d) PROVE Stays
  BY <1>1, <1>Publish DEF Publish
<1>ExitEpoch. ASSUME NEW d \in Callers, ExitEpoch(d) PROVE Stays
  <2>1. inEpoch[d] /\ ~inEpoch'[d]
    BY <1>ExitEpoch DEF ExitEpoch, LeaveEpoch, Set, ControlInv, PcInv, EpochPcs, TypeOK, TaskType
  <2>2. settling # 1
    BY <2>1, NotTheLast DEF ControlInv
  <2> QED BY <1>1, <1>ExitEpoch, <2>2 DEF ExitEpoch, LeaveEpoch
<1>Read. ASSUME NEW d \in Callers, Read(d) PROVE Stays
  BY <1>1, <1>Read DEF Read
<1>ForEach. ASSUME NEW d \in Callers, ForEach(d) PROVE Stays
  BY <1>1, <1>ForEach DEF ForEach
<1>Take. ASSUME NEW d \in Callers, Take(d) PROVE Stays
  BY <1>1, <1>Take DEF Take
<1>Ensure. ASSUME NEW d \in Callers, Ensure(d) PROVE Stays
  BY <1>1, <1>Ensure DEF Ensure
<1>TryRunner. ASSUME NEW d \in Callers, TryRunner(d) PROVE Stays
  BY <1>1, <1>TryRunner DEF TryRunner
<1>WaitGeneration. ASSUME NEW d \in Callers, WaitGeneration(d) PROVE Stays
  BY <1>1, <1>WaitGeneration DEF WaitGeneration
<1>StartEvaluation. ASSUME NEW d \in Callers, StartEvaluation(d) PROVE Stays
  BY <1>1, <1>StartEvaluation DEF StartEvaluation
<1>NothingPending. ASSUME NEW d \in Callers, NothingPending(d) PROVE Stays
  BY <1>1, <1>NothingPending DEF NothingPending
<1>QuietCommit. ASSUME NEW d \in Callers, QuietCommit(d) PROVE Stays
  BY <1>1, <1>QuietCommit DEF QuietCommit
<1>LoudCommit. ASSUME NEW d \in Callers, LoudCommit(d) PROVE Stays
  BY <1>1, <1>LoudCommit DEF LoudCommit
<1>PhaseDone. ASSUME NEW d \in Callers, PhaseDone(d) PROVE Stays
  BY <1>1, <1>PhaseDone DEF PhaseDone
<1>Preempt. ASSUME NEW d \in Callers, Preempt(d) PROVE Stays
  BY <1>1, <1>Preempt DEF Preempt
<1>OpenWindow. ASSUME NEW d \in Callers, OpenWindow(d) PROVE Stays
  BY <1>1, <1>OpenWindow DEF OpenWindow
<1>WindowDrained. ASSUME NEW d \in Callers, WindowDrained(d) PROVE Stays
  BY <1>1, <1>WindowDrained DEF WindowDrained
<1>CloseWindow. ASSUME NEW d \in Callers, CloseWindow(d) PROVE Stays
  BY <1>1, <1>CloseWindow DEF CloseWindow
<1>CompleteGeneration. ASSUME NEW d \in Callers, CompleteGeneration(d) PROVE Stays
  BY <1>1, <1>CompleteGeneration DEF CompleteGeneration
<1>ReleaseRunner. ASSUME NEW d \in Callers, ReleaseRunner(d) PROVE Stays
  BY <1>1, <1>ReleaseRunner DEF ReleaseRunner
<1>Cancel. ASSUME NEW d \in Callers, Cancel(d) PROVE Stays
  BY <1>1, <1>Cancel DEF Cancel
<1>DropEvaluation. ASSUME NEW d \in Callers, DropEvaluation(d) PROVE Stays
  BY <1>1, <1>DropEvaluation DEF DropEvaluation
<1>DropRunner. ASSUME NEW d \in Callers, DropRunner(d) PROVE Stays
  BY <1>1, <1>DropRunner DEF DropRunner
<1>DropEpoch. ASSUME NEW d \in Callers, DropEpoch(d) PROVE Stays
  <2>1. inEpoch[d] /\ ~inEpoch'[d]
    BY <1>DropEpoch DEF DropEpoch, LeaveEpoch, Set, ControlInv, PcInv, EpochPcs, TypeOK, TaskType
  <2>2. settling # 1
    BY <2>1, NotTheLast DEF ControlInv
  <2> QED BY <1>1, <1>DropEpoch, <2>2 DEF DropEpoch, LeaveEpoch
<1>InsertIdle. ASSUME NEW w \in Writers, InsertIdle(w) PROVE Stays
  BY <1>1, <1>InsertIdle DEF InsertIdle, Accepted
<1>InsertDeferred. ASSUME NEW w \in Writers, InsertDeferred(w) PROVE Stays
  BY <1>1, <1>InsertDeferred DEF InsertDeferred
<1>InsertPreempting. ASSUME NEW w \in Writers, InsertPreempting(w) PROVE Stays
  BY <1>1, <1>InsertPreempting DEF InsertPreempting
<1>BeginMut. ASSUME NEW w \in Writers, BeginMut(w) PROVE Stays
  BY <1>1, <1>BeginMut DEF BeginMut
<1>PreemptingInsertLands. ASSUME NEW w \in Writers, PreemptingInsertLands(w) PROVE Stays
  BY <1>1, <1>PreemptingInsertLands DEF PreemptingInsertLands, AtBoundary, Accepted
<1>MutLands. ASSUME NEW w \in Writers, MutLands(w) PROVE Stays
  BY <1>1, <1>MutLands DEF MutLands, AtBoundary
<1>AwaitBoundary. ASSUME NEW w \in Writers, AwaitBoundary(w) PROVE Stays
  BY <1>1, <1>AwaitBoundary DEF AwaitBoundary
<1>MutStale. ASSUME NEW w \in Writers, MutStale(w) PROVE Stays
  BY <1>1, <1>MutStale DEF MutStale
<1>MutBusy. ASSUME NEW w \in Writers, MutBusy(w) PROVE Stays
  BY <1>1, <1>MutBusy DEF MutBusy
<1>CancelWriter. ASSUME NEW w \in Writers, CancelWriter(w) PROVE Stays
  BY <1>1, <1>CancelWriter DEF CancelWriter
<1>Stutter. ASSUME UNCHANGED vars PROVE Stays
  BY <1>1, <1>Stutter
<1> HIDE DEF Stays
<1>2. Stays
  BY <1>CallSettle, <1>CallTake, <1>FastPath, <1>EnterEpoch, <1>BoundaryPromote,
     <1>BoundaryReturn, <1>PickTarget, <1>CheckClean, <1>Enqueue, <1>Heal,
     <1>NothingToHeal, <1>HooksTake, <1>HooksCommit, <1>HooksRestore, <1>SettleTake,
     <1>SettlePlan, <1>SettleCommit, <1>SettleRestore, <1>Followup,
     <1>PublishPromote, <1>Publish, <1>ExitEpoch, <1>Read, <1>ForEach, <1>Take,
     <1>Ensure, <1>TryRunner, <1>WaitGeneration, <1>StartEvaluation,
     <1>NothingPending, <1>QuietCommit, <1>LoudCommit, <1>PhaseDone, <1>Preempt,
     <1>OpenWindow, <1>WindowDrained, <1>CloseWindow, <1>CompleteGeneration,
     <1>ReleaseRunner, <1>Cancel, <1>DropEvaluation, <1>DropRunner, <1>DropEpoch,
     <1>InsertIdle, <1>InsertDeferred, <1>InsertPreempting, <1>BeginMut,
     <1>PreemptingInsertLands, <1>MutLands, <1>AwaitBoundary, <1>MutStale,
     <1>MutBusy, <1>CancelWriter, <1>Stutter
     DEF Next, CallerStep, SettleStep, DriveStep, DropStep, WriterStep, Finished,
         OutOfBounds
<1> QED BY <1>2 DEF Stays

\* Epochs run against the input set they were entered with, however many
\* settles overlap and whichever of them reaches a boundary, leaves or is
\* dropped: what arrived after all those that go on stays deferred.
THEOREM EpochsFrozen == Spec => EpochIsFrozen
<1>1. Init => ControlInv /\ InputsInv
  BY ControlInit, InputsInit
<1>2. ControlInv /\ InputsInv /\ [Next]_vars => (ControlInv /\ InputsInv)'
  BY ControlStep, InputsStep
<1> DEFINE going == {c \in Callers : inEpoch[c] /\ inEpoch'[c]}
<1>3. ControlInv /\ InputsInv /\ [Next]_vars =>
        \A i \in 1..Len(deferred) :
            /\ going # {}
            /\ \A c \in going : deferred[i].tag > watermark[c]
            => deferred[i].input \notin pendingInputs'
  BY FrozenStep
<1>4. ControlInv /\ InputsInv /\ [Next]_vars =>
        [\A i \in 1..Len(deferred) :
            /\ going # {}
            /\ \A c \in going : deferred[i].tag > watermark[c]
            => deferred[i].input \notin pendingInputs']_vars
  BY <1>3
<1> QED BY <1>1, <1>2, <1>4, PTL DEF Spec, EpochIsFrozen

-----------------------------------------------------------------------------
(* One caller.  With two, one promotes or publishes on behalf of the other, *)
(* and neither result holds (epochs_stale_read).                            *)

Alone == \A c, d \in Callers : c = d

\* Where a settle has seen every generation it asked for.
PastCheck ==
    {"heal", "hooks", "hooksRun", "hooksDone", "settle", "settleRun", "settleCommit",
     "settleDone", "healAgain", "followup", "publish", "exit", "read"}

\* What a call owes was accepted, none of it is deferred, and past the check
\* it is in the world.
OwedInv ==
    \A c \in Callers :
        /\ owed[c] \subseteq Accepted /\ owed[c] \cap Queued = {}
        /\ pc[c] \in PastCheck => owed[c] \subseteq applied

\* A caller outside of its epoch finds nothing deferred.
LEMMA NothingDeferred ==
  ASSUME Alone, InputType, EpochsCounted, InputsInv, NEW c \in Callers, ~inEpoch[c]
  PROVE  Queued = {}
<1>1. {d \in Callers : inEpoch[d]} = {}
  BY DEF Alone
<1>2. settling = 0
  BY <1>1, FS_EmptySet DEF EpochsCounted
<1>3. Len(deferred) = 0
  BY <1>2, QueueShape DEF InputsInv, Drained
<1> QED BY <1>3 DEF Queued

\* Without a pending generation, what is owed and not deferred is applied.
LEMMA NothingPendingOwed ==
  ASSUME InputsInv, OwedInv, NEW c \in Callers, pending = 0
  PROVE  owed[c] \subseteq applied
BY DEF InputsInv, Placed, Drained, OwedInv

\* An insert during an epoch adds itself to the queue.
LEMMA AppendedInput ==
  ASSUME InputType, NEW w \in Inputs,
         deferred' = Append(deferred, [tag |-> inputSeq + 1, input |-> w])
  PROVE  Queued' \subseteq Queued \cup {w}
<1> DEFINE L == Len(deferred)
           e == [tag |-> inputSeq + 1, input |-> w]
<1>1. L \in Nat /\ inputSeq \in Nat
  BY QueueShape DEF InputType
<1>2. e \in Input /\ e.input = w
  BY <1>1 DEF Input
<1> HIDE DEF e
<1>3. /\ Len(deferred') = L + 1
      /\ \A i \in 1..L : deferred'[i] = deferred[i]
      /\ deferred'[L + 1] = e
  BY <1>2, AppendProperties DEF InputType, e
<1> SUFFICES ASSUME NEW y \in Queued' PROVE y \in Queued \cup {w}
  OBVIOUS
<1>4. PICK i \in 1..(L + 1) : y = deferred'[i].input
  BY <1>3 DEF Queued
<1>5. i \in 1..L \/ i = L + 1
  BY <1>1
<1> QED BY <1>2, <1>3, <1>4, <1>5 DEF Queued

\* Nothing is owed before a call.
LEMMA OwedInit == Init => OwedInv
BY DEF Init, OwedInv, PastCheck

\* A settle pays what it owes before its check lets it finish.
LEMMA OwedStep ==
  ASSUME Alone, ControlInv, InputsInv, OwedInv, [Next]_vars
  PROVE  OwedInv'
<1>0. Alone /\ TypeOK /\ InputType /\ PcInv /\ EpochsCounted /\ InputsInv /\ OwedInv
  BY DEF ControlInv, TypeOK
<1>Frame. ASSUME UNCHANGED owed, Queued' \subseteq Queued \/ UNCHANGED deferred,
                 Accepted \subseteq Accepted',
                 applied \subseteq applied',
                 \A c \in Callers : pc'[c] \in PastCheck =>
                     pc[c] \in PastCheck \/ owed[c] \subseteq applied
          PROVE  OwedInv'
  <2>1. Queued' \subseteq Queued
    BY <1>Frame DEF Queued
  <2> QED BY <1>0, <1>Frame, <2>1 DEF OwedInv
<1>CallSettle. ASSUME NEW c \in Callers, CallSettle(c) PROVE OwedInv'
  <2>1. pc[c] = "idle" /\ ~inEpoch[c]
    BY <1>0, <1>CallSettle DEF CallSettle, PcInv, EpochPcs
  <2>2. Queued = {}
    BY <1>0, <2>1, NothingDeferred
  <2>3. owed' = [owed EXCEPT ![c] = Accepted] /\ Accepted' = Accepted /\ Queued' = Queued
    BY <1>CallSettle DEF CallSettle, Set, Accepted, Queued
  <2>4. pc' = [pc EXCEPT ![c] = pc'[c]] /\ pc'[c] \notin PastCheck /\ UNCHANGED applied
    BY <1>0, <1>CallSettle DEF CallSettle, Goto, PastCheck, TypeOK, TaskType
  <2> QED BY <1>0, <2>2, <2>3, <2>4 DEF OwedInv, TypeOK, TaskType, HistType
<1>CallTake. ASSUME NEW c \in Callers, CallTake(c) PROVE OwedInv'
  <2>1. pc[c] = "idle" /\ ~inEpoch[c]
    BY <1>0, <1>CallTake DEF CallTake, PcInv, EpochPcs
  <2>2. Queued = {}
    BY <1>0, <2>1, NothingDeferred
  <2>3. owed' = [owed EXCEPT ![c] = Accepted] /\ Accepted' = Accepted /\ Queued' = Queued
    BY <1>CallTake DEF CallTake, Set, Accepted, Queued
  <2>4. pc' = [pc EXCEPT ![c] = pc'[c]] /\ pc'[c] \notin PastCheck /\ UNCHANGED applied
    BY <1>0, <1>CallTake DEF CallTake, Goto, PastCheck, TypeOK, TaskType
  <2> QED BY <1>0, <2>2, <2>3, <2>4 DEF OwedInv, TypeOK, TaskType, HistType
<1>FastPath. ASSUME NEW c \in Callers, FastPath(c) PROVE OwedInv'
  <2>1. Quiescent => owed[c] \subseteq applied
    BY <1>0, NothingPendingOwed DEF Quiescent
  <2> QED
    BY <1>0, <1>FastPath, <2>1, <1>Frame DEF FastPath, Accepted, Goto, PastCheck,
       TypeOK, TaskType
<1>EnterEpoch. ASSUME NEW c \in Callers, EnterEpoch(c) PROVE OwedInv'
  BY <1>0, <1>EnterEpoch, <1>Frame DEF EnterEpoch, Accepted, Goto, PastCheck, TypeOK,
     TaskType
<1>BoundaryPromote. ASSUME NEW c \in Callers, BoundaryPromote(c) PROVE OwedInv'
  <2>1. Promote(watermark[c]) /\ watermark[c] \in Nat /\ UNCHANGED inputSeq
    BY <1>0, <1>BoundaryPromote DEF BoundaryPromote, TypeOK, TaskType
  <2>2. Queued' \subseteq Queued
    BY <1>0, <2>1, PromoteMoves DEF InputsInv, TypeOK
  <2> QED
    BY <1>0, <1>BoundaryPromote, <2>2, <1>Frame DEF BoundaryPromote, Accepted, Goto,
       PastCheck, TypeOK, TaskType
<1>BoundaryReturn. ASSUME NEW c \in Callers, BoundaryReturn(c) PROVE OwedInv'
  <2>1. Quiescent => owed[c] \subseteq applied
    BY <1>0, NothingPendingOwed DEF Quiescent
  <2> QED
    BY <1>0, <1>BoundaryReturn, <2>1, <1>Frame DEF BoundaryReturn, Accepted, Goto,
       PastCheck, TypeOK, TaskType
<1>PickTarget. ASSUME NEW c \in Callers, PickTarget(c) PROVE OwedInv'
  BY <1>0, <1>PickTarget, <1>Frame DEF PickTarget, Accepted, Goto, PastCheck, TypeOK,
     TaskType
<1>CheckClean. ASSUME NEW c \in Callers, CheckClean(c) PROVE OwedInv'
  <2>1. pending = 0 => owed[c] \subseteq applied
    BY <1>0, NothingPendingOwed
  <2> QED
    BY <1>0, <1>CheckClean, <2>1, <1>Frame DEF CheckClean, Accepted, Goto, PastCheck,
       TypeOK, TaskType
<1>Enqueue. ASSUME NEW c \in Callers, Enqueue(c) PROVE OwedInv'
  BY <1>0, <1>Enqueue, <1>Frame DEF Enqueue, Accepted, Goto, PastCheck, TypeOK, TaskType
<1>Heal. ASSUME NEW c \in Callers, Heal(c) PROVE OwedInv'
  BY <1>0, <1>Heal, <1>Frame DEF Heal, Accepted, Goto, PastCheck, TypeOK, TaskType
<1>NothingToHeal. ASSUME NEW c \in Callers, NothingToHeal(c) PROVE OwedInv'
  BY <1>0, <1>NothingToHeal, <1>Frame DEF NothingToHeal, Accepted, Goto, PastCheck,
     TypeOK, TaskType
<1>HooksTake. ASSUME NEW c \in Callers, HooksTake(c) PROVE OwedInv'
  BY <1>0, <1>HooksTake, <1>Frame DEF HooksTake, Accepted, Goto, PastCheck, TypeOK,
     TaskType
<1>HooksCommit. ASSUME NEW c \in Callers, HooksCommit(c) PROVE OwedInv'
  BY <1>0, <1>HooksCommit, <1>Frame DEF HooksCommit, Accepted, Goto, PastCheck,
     TypeOK, TaskType
<1>HooksRestore. ASSUME NEW c \in Callers, HooksRestore(c) PROVE OwedInv'
  BY <1>0, <1>HooksRestore, <1>Frame DEF HooksRestore, Accepted, Goto, PastCheck,
     TypeOK, TaskType
<1>SettleTake. ASSUME NEW c \in Callers, SettleTake(c) PROVE OwedInv'
  BY <1>0, <1>SettleTake, <1>Frame DEF SettleTake, Accepted, Goto, PastCheck, TypeOK,
     TaskType
<1>SettlePlan. ASSUME NEW c \in Callers, SettlePlan(c) PROVE OwedInv'
  BY <1>0, <1>SettlePlan, <1>Frame DEF SettlePlan, Accepted, Goto, PastCheck, TypeOK,
     TaskType
<1>SettleCommit. ASSUME NEW c \in Callers, SettleCommit(c) PROVE OwedInv'
  BY <1>0, <1>SettleCommit, <1>Frame DEF SettleCommit, Accepted, Goto, PastCheck,
     TypeOK, TaskType
<1>SettleRestore. ASSUME NEW c \in Callers, SettleRestore(c) PROVE OwedInv'
  BY <1>0, <1>SettleRestore, <1>Frame DEF SettleRestore, Accepted, Goto, PastCheck,
     TypeOK, TaskType
<1>Followup. ASSUME NEW c \in Callers, Followup(c) PROVE OwedInv'
  BY <1>0, <1>Followup, <1>Frame DEF Followup, Accepted, Goto, PastCheck, TypeOK,
     TaskType
<1>PublishPromote. ASSUME NEW c \in Callers, PublishPromote(c) PROVE OwedInv'
  <2>1. Promote(watermark[c]) /\ watermark[c] \in Nat /\ UNCHANGED inputSeq
    BY <1>0, <1>PublishPromote DEF PublishPromote, TypeOK, TaskType
  <2>2. Queued' \subseteq Queued
    BY <1>0, <2>1, PromoteMoves DEF InputsInv, TypeOK
  <2> QED
    BY <1>0, <1>PublishPromote, <2>2, <1>Frame DEF PublishPromote, Accepted, Goto,
       PastCheck, TypeOK, TaskType
<1>Publish. ASSUME NEW c \in Callers, Publish(c) PROVE OwedInv'
  BY <1>0, <1>Publish, <1>Frame DEF Publish, Accepted, Goto, PastCheck, TypeOK, TaskType
<1>ExitEpoch. ASSUME NEW c \in Callers, ExitEpoch(c) PROVE OwedInv'
  <2>1. Queued' \subseteq Queued
    <3>1. /\ UNCHANGED inputSeq /\ inputSeq \in Nat
          /\ UNCHANGED deferred \/ Promote(inputSeq)
      BY <1>0, <1>ExitEpoch DEF ExitEpoch, LeaveEpoch, TypeOK, InputType
    <3>2. CASE UNCHANGED deferred
      BY <3>2 DEF Queued
    <3>3. CASE Promote(inputSeq)
      BY <1>0, <3>1, <3>3, PromoteMoves DEF InputsInv, TypeOK
    <3> QED BY <3>1, <3>2, <3>3
  <2>2. Accepted' = Accepted
    BY <1>0, <1>ExitEpoch, WakeKeeps DEF ExitEpoch, LeaveEpoch, TypeOK
  <2> QED
    BY <1>0, <1>ExitEpoch, <2>1, <2>2, <1>Frame DEF ExitEpoch, LeaveEpoch, Goto,
       PastCheck, TypeOK,
       TaskType
<1>Read. ASSUME NEW c \in Callers, Read(c) PROVE OwedInv'
  <2>1. owed' = [owed EXCEPT ![c] = {}] /\ Accepted' = Accepted /\ Queued' = Queued
    BY <1>Read DEF Read, Set, Accepted, Queued
  <2>2. UNCHANGED applied /\ \A d \in Callers : d # c => pc'[d] = pc[d]
    BY <1>0, <1>Read DEF Read, Goto, TypeOK, TaskType
  <2> QED BY <1>0, <2>1, <2>2 DEF OwedInv, TypeOK, HistType
<1>ForEach. ASSUME NEW c \in Callers, ForEach(c) PROVE OwedInv'
  <2>1. owed' = [owed EXCEPT ![c] = {}] /\ Accepted' = Accepted /\ Queued' = Queued
    BY <1>ForEach DEF ForEach, Set, Accepted, Queued
  <2>2. UNCHANGED applied /\ \A d \in Callers : d # c => pc'[d] = pc[d]
    BY <1>0, <1>ForEach DEF ForEach, Goto, TypeOK, TaskType
  <2> QED BY <1>0, <2>1, <2>2 DEF OwedInv, TypeOK, HistType
<1>Take. ASSUME NEW c \in Callers, Take(c) PROVE OwedInv'
  <2>1. owed' = [owed EXCEPT ![c] = {}] /\ Accepted' = Accepted /\ Queued' = Queued
    BY <1>Take DEF Take, Set, Accepted, Queued
  <2>2. UNCHANGED applied /\ \A d \in Callers : d # c => pc'[d] = pc[d]
    BY <1>0, <1>Take DEF Take, Goto, TypeOK, TaskType
  <2> QED BY <1>0, <2>1, <2>2 DEF OwedInv, TypeOK, HistType
<1>Ensure. ASSUME NEW c \in Callers, Ensure(c) PROVE OwedInv'
  BY <1>0, <1>Ensure, <1>Frame DEF Ensure, Accepted, Goto, PastCheck, TypeOK, TaskType
<1>TryRunner. ASSUME NEW c \in Callers, TryRunner(c) PROVE OwedInv'
  BY <1>0, <1>TryRunner, <1>Frame DEF TryRunner, Accepted, Goto, PastCheck, TypeOK,
     TaskType
<1>WaitGeneration. ASSUME NEW c \in Callers, WaitGeneration(c) PROVE OwedInv'
  BY <1>0, <1>WaitGeneration, <1>Frame DEF WaitGeneration, Accepted, Goto, PastCheck,
     TypeOK, TaskType
<1>StartEvaluation. ASSUME NEW c \in Callers, StartEvaluation(c) PROVE OwedInv'
  BY <1>0, <1>StartEvaluation, <1>Frame DEF StartEvaluation, Accepted, Goto,
     PastCheck, TypeOK, TaskType
<1>NothingPending. ASSUME NEW c \in Callers, NothingPending(c) PROVE OwedInv'
  BY <1>0, <1>NothingPending, <1>Frame DEF NothingPending, Accepted, Goto, PastCheck,
     TypeOK, TaskType
<1>QuietCommit. ASSUME NEW c \in Callers, QuietCommit(c) PROVE OwedInv'
  BY <1>0, <1>QuietCommit, <1>Frame DEF QuietCommit, Accepted, Goto, PastCheck,
     TypeOK, TaskType
<1>LoudCommit. ASSUME NEW c \in Callers, LoudCommit(c) PROVE OwedInv'
  BY <1>0, <1>LoudCommit, <1>Frame DEF LoudCommit, Accepted, Goto, PastCheck, TypeOK,
     TaskType
<1>PhaseDone. ASSUME NEW c \in Callers, PhaseDone(c) PROVE OwedInv'
  BY <1>0, <1>PhaseDone, <1>Frame DEF PhaseDone, Accepted, Goto, PastCheck, TypeOK,
     TaskType
<1>Preempt. ASSUME NEW c \in Callers, Preempt(c) PROVE OwedInv'
  BY <1>0, <1>Preempt, <1>Frame DEF Preempt, Accepted, Goto, PastCheck, TypeOK, TaskType
<1>OpenWindow. ASSUME NEW c \in Callers, OpenWindow(c) PROVE OwedInv'
  <2>1. Accepted' = Accepted
    BY <1>0, <1>OpenWindow, WakeKeeps DEF OpenWindow, TypeOK
  <2> QED
    BY <1>0, <1>OpenWindow, <2>1, <1>Frame DEF OpenWindow, Goto, WakeUpTo, PastCheck,
       TypeOK, TaskType
<1>WindowDrained. ASSUME NEW c \in Callers, WindowDrained(c) PROVE OwedInv'
  BY <1>0, <1>WindowDrained, <1>Frame DEF WindowDrained, Accepted, Goto, PastCheck,
     TypeOK, TaskType
<1>CloseWindow. ASSUME NEW c \in Callers, CloseWindow(c) PROVE OwedInv'
  BY <1>0, <1>CloseWindow, <1>Frame DEF CloseWindow, Accepted, Goto, PastCheck,
     TypeOK, TaskType
<1>CompleteGeneration. ASSUME NEW c \in Callers, CompleteGeneration(c) PROVE OwedInv'
  <2>1. Accepted' = Accepted
    BY <1>0, <1>CompleteGeneration, WakeKeeps DEF CompleteGeneration, TypeOK
  <2> QED
    BY <1>0, <1>CompleteGeneration, <2>1, <1>Frame DEF CompleteGeneration, Goto,
       WakeUpTo, PastCheck, TypeOK, TaskType
<1>ReleaseRunner. ASSUME NEW c \in Callers, ReleaseRunner(c) PROVE OwedInv'
  BY <1>0, <1>ReleaseRunner, <1>Frame DEF ReleaseRunner, Accepted, Goto, PastCheck,
     TypeOK, TaskType
<1>Cancel. ASSUME NEW c \in Callers, Cancel(c) PROVE OwedInv'
  <2>1. owed' = [owed EXCEPT ![c] = {}] /\ Accepted' = Accepted /\ Queued' = Queued
    BY <1>Cancel DEF Cancel, Set, Accepted, Queued
  <2>2. UNCHANGED applied /\ \A d \in Callers : d # c => pc'[d] = pc[d]
    BY <1>0, <1>Cancel DEF Cancel, Goto, TypeOK, TaskType
  <2> QED BY <1>0, <2>1, <2>2 DEF OwedInv, TypeOK, HistType
<1>DropEvaluation. ASSUME NEW c \in Callers, DropEvaluation(c) PROVE OwedInv'
  BY <1>0, <1>DropEvaluation, <1>Frame DEF DropEvaluation, Accepted, Goto, PastCheck,
     TypeOK, TaskType
<1>DropRunner. ASSUME NEW c \in Callers, DropRunner(c) PROVE OwedInv'
  BY <1>0, <1>DropRunner, <1>Frame DEF DropRunner, Accepted, Goto, PastCheck, TypeOK,
     TaskType
<1>DropEpoch. ASSUME NEW c \in Callers, DropEpoch(c) PROVE OwedInv'
  <2>1. Queued' \subseteq Queued
    <3>1. /\ UNCHANGED inputSeq /\ inputSeq \in Nat
          /\ UNCHANGED deferred \/ Promote(inputSeq)
      BY <1>0, <1>DropEpoch DEF DropEpoch, LeaveEpoch, TypeOK, InputType
    <3>2. CASE UNCHANGED deferred
      BY <3>2 DEF Queued
    <3>3. CASE Promote(inputSeq)
      BY <1>0, <3>1, <3>3, PromoteMoves DEF InputsInv, TypeOK
    <3> QED BY <3>1, <3>2, <3>3
  <2>2. Accepted' = Accepted
    BY <1>0, <1>DropEpoch, WakeKeeps DEF DropEpoch, LeaveEpoch, TypeOK
  <2> QED
    BY <1>0, <1>DropEpoch, <2>1, <2>2, <1>Frame DEF DropEpoch, LeaveEpoch, Goto,
       PastCheck, TypeOK,
       TaskType
<1>InsertIdle. ASSUME NEW w \in Writers, InsertIdle(w) PROVE OwedInv'
  <2>1. Accepted \subseteq Accepted'
    BY <1>0, <1>InsertIdle DEF InsertIdle, Accepted, Inputs, Writers, TypeOK, WriterType
  <2> QED BY <1>InsertIdle, <2>1, <1>Frame DEF InsertIdle
<1>InsertDeferred. ASSUME NEW w \in Writers, InsertDeferred(w) PROVE OwedInv'
  <2>1. w \in Inputs /\ wpc[w] # "done" /\ Accepted' = Accepted \cup {w}
    BY <1>0, <1>InsertDeferred DEF InsertDeferred, Accepted, Inputs, TypeOK, WriterType
  <2>2. Queued' \subseteq Queued \cup {w}
    BY <1>0, <1>InsertDeferred, AppendedInput DEF InsertDeferred, Inputs
  <2>3. w \notin Accepted /\ UNCHANGED <<owed, applied, pc>>
    BY <1>InsertDeferred DEF InsertDeferred, Accepted
  <2> QED BY <1>0, <2>1, <2>2, <2>3 DEF OwedInv
<1>InsertPreempting. ASSUME NEW w \in Writers, InsertPreempting(w) PROVE OwedInv'
  <2>1. Accepted \subseteq Accepted'
    BY <1>0, <1>InsertPreempting DEF InsertPreempting, Accepted, Inputs, Writers,
       TypeOK, WriterType
  <2> QED BY <1>InsertPreempting, <2>1, <1>Frame DEF InsertPreempting
<1>BeginMut. ASSUME NEW w \in Writers, BeginMut(w) PROVE OwedInv'
  <2>1. Accepted \subseteq Accepted'
    BY <1>0, <1>BeginMut DEF BeginMut, Accepted, Inputs, Writers, TypeOK, WriterType
  <2> QED BY <1>BeginMut, <2>1, <1>Frame DEF BeginMut
<1>PreemptingInsertLands. ASSUME NEW w \in Writers, PreemptingInsertLands(w) PROVE OwedInv'
  <2>1. Accepted \subseteq Accepted'
    BY <1>0, <1>PreemptingInsertLands DEF PreemptingInsertLands, AtBoundary, Accepted,
       Inputs, Writers, TypeOK, WriterType
  <2> QED
    BY <1>PreemptingInsertLands, <2>1, <1>Frame DEF PreemptingInsertLands, AtBoundary
<1>MutLands. ASSUME NEW w \in Writers, MutLands(w) PROVE OwedInv'
  <2>1. Accepted \subseteq Accepted'
    BY <1>0, <1>MutLands DEF MutLands, AtBoundary, Accepted, Inputs, Writers, TypeOK,
       WriterType
  <2> QED BY <1>MutLands, <2>1, <1>Frame DEF MutLands, AtBoundary
<1>AwaitBoundary. ASSUME NEW w \in Writers, AwaitBoundary(w) PROVE OwedInv'
  <2>1. Accepted \subseteq Accepted'
    BY <1>0, <1>AwaitBoundary DEF AwaitBoundary, Accepted, Inputs, Writers, TypeOK,
       WriterType
  <2> QED BY <1>AwaitBoundary, <2>1, <1>Frame DEF AwaitBoundary
<1>MutStale. ASSUME NEW w \in Writers, MutStale(w) PROVE OwedInv'
  <2>1. Accepted \subseteq Accepted'
    BY <1>0, <1>MutStale DEF MutStale, Accepted, Inputs, Writers, TypeOK, WriterType
  <2> QED BY <1>MutStale, <2>1, <1>Frame DEF MutStale
<1>MutBusy. ASSUME NEW w \in Writers, MutBusy(w) PROVE OwedInv'
  <2>1. Accepted \subseteq Accepted'
    BY <1>0, <1>MutBusy DEF MutBusy, Accepted, Inputs, Writers, TypeOK, WriterType
  <2> QED BY <1>MutBusy, <2>1, <1>Frame DEF MutBusy
<1>CancelWriter. ASSUME NEW w \in Writers, CancelWriter(w) PROVE OwedInv'
  <2>1. Accepted \subseteq Accepted'
    BY <1>0, <1>CancelWriter DEF CancelWriter, Accepted, Inputs, Writers, TypeOK,
       WriterType
  <2> QED BY <1>CancelWriter, <2>1, <1>Frame DEF CancelWriter
<1>Stutter. CASE UNCHANGED vars
  BY <1>Stutter, <1>Frame DEF Accepted, Queued
<1> QED
  BY <1>CallSettle, <1>CallTake, <1>FastPath, <1>EnterEpoch, <1>BoundaryPromote,
     <1>BoundaryReturn, <1>PickTarget, <1>CheckClean, <1>Enqueue, <1>Heal,
     <1>NothingToHeal, <1>HooksTake, <1>HooksCommit, <1>HooksRestore, <1>SettleTake,
     <1>SettlePlan, <1>SettleCommit, <1>SettleRestore, <1>Followup,
     <1>PublishPromote, <1>Publish, <1>ExitEpoch, <1>Read, <1>ForEach, <1>Take,
     <1>Ensure, <1>TryRunner, <1>WaitGeneration, <1>StartEvaluation,
     <1>NothingPending, <1>QuietCommit, <1>LoudCommit, <1>PhaseDone, <1>Preempt,
     <1>OpenWindow, <1>WindowDrained, <1>CloseWindow, <1>CompleteGeneration,
     <1>ReleaseRunner, <1>Cancel, <1>DropEvaluation, <1>DropRunner, <1>DropEpoch,
     <1>InsertIdle, <1>InsertDeferred, <1>InsertPreempting, <1>BeginMut,
     <1>PreemptingInsertLands, <1>MutLands, <1>AwaitBoundary, <1>MutStale,
     <1>MutBusy, <1>CancelWriter, <1>Stutter
     DEF Next, CallerStep, SettleStep, DriveStep, DropStep, WriterStep, Finished,
         OutOfBounds

\* A single caller reads its own writes: what was accepted before a scoop,
\* stir or take started is in the world when it reads, also when earlier
\* calls were dropped at any await.
THEOREM OwnWritesRead ==
  ASSUME Alone
  PROVE  Spec => []ReadYourWrites
<1> DEFINE Inv == ControlInv /\ InputsInv /\ OwedInv
<1>1. Init => Inv
  BY ControlInit, InputsInit, OwedInit
<1>2. Inv /\ [Next]_vars => Inv'
  BY Alone, ControlStep, InputsStep, OwedStep
<1>3. Inv => ReadYourWrites
  BY DEF OwedInv, PastCheck, ReadYourWrites
<1> QED BY <1>1, <1>2, <1>3, PTL DEF Spec

-----------------------------------------------------------------------------
(***************************************************************************)
(* What a bowl promises while no future is dropped: the running generation *)
(* has a driver, every sleeper has somebody to wake it, Startup comes      *)
(* first; and, for one caller, a bowl that calls itself settled is at a    *)
(* fixed point whose views are fresh.                                      *)
(*                                                                         *)
(* With dropped futures the first four fail (epochs_dropped_driver,        *)
(* epochs_lost_wakeup, epochs_starved_mutator, epochs_startup_skipped).    *)
(***************************************************************************)

\* No owner drops a future.
Undropped == MaxCancels = 0

Live == Evaluating \cup {"complete"}
Dropped == {"dropRun", "dropRunner", "dropEpoch"}

NoDrops == cancels = 0 /\ \A c \in Callers : pc[c] \notin Dropped

\* The running generation is driven by the holder of the runner lock.
RunnerRuns == running # 0 => runner \in Callers /\ pc[runner] \in Live

\* A window is open only while its driver waits in it.
WindowOpen == window => running # 0 /\ pc[runner] \in {"windowWait", "closeWindow"}

\* Writers sleep only while a generation runs: its completion wakes them.
BoundaryAhead == (\E w \in Writers : wpc[w] = "wait") => running # 0

DriverInv == NoDrops /\ RunnerRuns /\ WindowOpen /\ BoundaryAhead

-----------------------------------------------------------------------------
\* Nothing runs at first.
LEMMA DriverInit == Init => DriverInv
BY DEF Init, DriverInv, NoDrops, RunnerRuns, WindowOpen, BoundaryAhead, Dropped

\* Every critical section leaves the running generation to a live driver.
LEMMA DriverStep ==
  ASSUME Undropped, ControlInv, DriverInv, [Next]_vars
  PROVE  DriverInv'
<1>0. /\ Undropped /\ TaskType /\ RunType /\ WriterType /\ SingleFlight /\ DriverRuns
      /\ DriverInv
  BY DEF ControlInv, TypeOK, PcInv
<1>Frame. ASSUME UNCHANGED <<running, runner, window, cancels>>,
                 \A d \in Callers :
                     pc'[d] = pc[d] \/ (pc[d] \notin Live /\ pc'[d] \notin Dropped),
                 \A w \in Writers : wpc'[w] = "wait" => wpc[w] = "wait"
          PROVE  DriverInv'
  BY <1>0, <1>Frame DEF DriverInv, NoDrops, RunnerRuns, WindowOpen, BoundaryAhead, Live,
     Evaluating
<1>CallSettle. ASSUME NEW c \in Callers, CallSettle(c) PROVE DriverInv'
  BY <1>0, <1>CallSettle, <1>Frame DEF CallSettle, Goto, Live, Dropped, Evaluating,
     TaskType
<1>CallTake. ASSUME NEW c \in Callers, CallTake(c) PROVE DriverInv'
  BY <1>0, <1>CallTake, <1>Frame DEF CallTake, Goto, Live, Dropped, Evaluating, TaskType
<1>FastPath. ASSUME NEW c \in Callers, FastPath(c) PROVE DriverInv'
  BY <1>0, <1>FastPath, <1>Frame DEF FastPath, Goto, Live, Dropped, Evaluating, TaskType
<1>EnterEpoch. ASSUME NEW c \in Callers, EnterEpoch(c) PROVE DriverInv'
  BY <1>0, <1>EnterEpoch, <1>Frame DEF EnterEpoch, Goto, Live, Dropped, Evaluating,
     TaskType
<1>BoundaryPromote. ASSUME NEW c \in Callers, BoundaryPromote(c) PROVE DriverInv'
  BY <1>0, <1>BoundaryPromote, <1>Frame DEF BoundaryPromote, Goto, Live, Dropped,
     Evaluating, TaskType
<1>BoundaryReturn. ASSUME NEW c \in Callers, BoundaryReturn(c) PROVE DriverInv'
  BY <1>0, <1>BoundaryReturn, <1>Frame DEF BoundaryReturn, Goto, Live, Dropped,
     Evaluating, TaskType
<1>PickTarget. ASSUME NEW c \in Callers, PickTarget(c) PROVE DriverInv'
  BY <1>0, <1>PickTarget, <1>Frame DEF PickTarget, Goto, Live, Dropped, Evaluating,
     TaskType
<1>CheckClean. ASSUME NEW c \in Callers, CheckClean(c) PROVE DriverInv'
  BY <1>0, <1>CheckClean, <1>Frame DEF CheckClean, Goto, Live, Dropped, Evaluating,
     TaskType
<1>Enqueue. ASSUME NEW c \in Callers, Enqueue(c) PROVE DriverInv'
  BY <1>0, <1>Enqueue, <1>Frame DEF Enqueue, Goto, Live, Dropped, Evaluating, TaskType
<1>Heal. ASSUME NEW c \in Callers, Heal(c) PROVE DriverInv'
  BY <1>0, <1>Heal, <1>Frame DEF Heal, BehindDriver, Goto, Live, Dropped, Evaluating,
     TaskType
<1>NothingToHeal. ASSUME NEW c \in Callers, NothingToHeal(c) PROVE DriverInv'
  BY <1>0, <1>NothingToHeal, <1>Frame DEF NothingToHeal, Goto, Live, Dropped,
     Evaluating, TaskType
<1>HooksTake. ASSUME NEW c \in Callers, HooksTake(c) PROVE DriverInv'
  BY <1>0, <1>HooksTake, <1>Frame DEF HooksTake, Goto, Live, Dropped, Evaluating,
     TaskType
<1>HooksCommit. ASSUME NEW c \in Callers, HooksCommit(c) PROVE DriverInv'
  BY <1>0, <1>HooksCommit, <1>Frame DEF HooksCommit, BehindDriver, Goto, Live,
     Dropped, Evaluating, TaskType
<1>HooksRestore. ASSUME NEW c \in Callers, HooksRestore(c) PROVE DriverInv'
  BY <1>0, <1>HooksRestore, <1>Frame DEF HooksRestore, Goto, Live, Dropped,
     Evaluating, TaskType
<1>SettleTake. ASSUME NEW c \in Callers, SettleTake(c) PROVE DriverInv'
  BY <1>0, <1>SettleTake, <1>Frame DEF SettleTake, Goto, Live, Dropped, Evaluating,
     TaskType
<1>SettlePlan. ASSUME NEW c \in Callers, SettlePlan(c) PROVE DriverInv'
  BY <1>0, <1>SettlePlan, <1>Frame DEF SettlePlan, Goto, Live, Dropped, Evaluating,
     TaskType
<1>SettleCommit. ASSUME NEW c \in Callers, SettleCommit(c) PROVE DriverInv'
  BY <1>0, <1>SettleCommit, <1>Frame DEF SettleCommit, BehindDriver, Goto, Live,
     Dropped, Evaluating, TaskType
<1>SettleRestore. ASSUME NEW c \in Callers, SettleRestore(c) PROVE DriverInv'
  BY <1>0, <1>SettleRestore, <1>Frame DEF SettleRestore, Goto, Live, Dropped,
     Evaluating, TaskType
<1>Followup. ASSUME NEW c \in Callers, Followup(c) PROVE DriverInv'
  BY <1>0, <1>Followup, <1>Frame DEF Followup, Goto, Live, Dropped, Evaluating, TaskType
<1>PublishPromote. ASSUME NEW c \in Callers, PublishPromote(c) PROVE DriverInv'
  BY <1>0, <1>PublishPromote, <1>Frame DEF PublishPromote, Goto, Live, Dropped,
     Evaluating, TaskType
<1>Publish. ASSUME NEW c \in Callers, Publish(c) PROVE DriverInv'
  BY <1>0, <1>Publish, <1>Frame DEF Publish, Goto, Live, Dropped, Evaluating, TaskType
<1>ExitEpoch. ASSUME NEW c \in Callers, ExitEpoch(c) PROVE DriverInv'
  <2>1. \A w \in Writers : wpc'[w] = "wait" => wpc[w] = "wait"
    BY <1>0, <1>ExitEpoch DEF ExitEpoch, LeaveEpoch, WakeBoundary, WriterType
  <2> QED
    BY <1>0, <1>ExitEpoch, <2>1, <1>Frame DEF ExitEpoch, LeaveEpoch, Goto, Live,
       Dropped, Evaluating, TaskType
<1>Read. ASSUME NEW c \in Callers, Read(c) PROVE DriverInv'
  BY <1>0, <1>Read, <1>Frame DEF Read, Goto, Live, Dropped, Evaluating, TaskType
<1>ForEach. ASSUME NEW c \in Callers, ForEach(c) PROVE DriverInv'
  BY <1>0, <1>ForEach, <1>Frame DEF ForEach, BehindDriver, Goto, Live, Dropped,
     Evaluating, TaskType
<1>Take. ASSUME NEW c \in Callers, Take(c) PROVE DriverInv'
  BY <1>0, <1>Take, <1>Frame DEF Take, BehindDriver, Goto, Live, Dropped, Evaluating,
     TaskType
<1>Ensure. ASSUME NEW c \in Callers, Ensure(c) PROVE DriverInv'
  BY <1>0, <1>Ensure, <1>Frame DEF Ensure, Goto, Live, Dropped, Evaluating, TaskType
<1>TryRunner. ASSUME NEW c \in Callers, TryRunner(c) PROVE DriverInv'
  BY <1>0, <1>TryRunner, CallersAssumption DEF TryRunner, Goto, DriverInv, NoDrops,
     RunnerRuns, WindowOpen, BoundaryAhead, SingleFlight, Live, Dropped, Driving,
     Evaluating, TaskType, RunType
<1>WaitGeneration. ASSUME NEW c \in Callers, WaitGeneration(c) PROVE DriverInv'
  BY <1>0, <1>WaitGeneration, <1>Frame DEF WaitGeneration, Goto, Live, Dropped,
     Evaluating, TaskType
<1>StartEvaluation. ASSUME NEW c \in Callers, StartEvaluation(c) PROVE DriverInv'
  BY <1>0, <1>StartEvaluation, CallersAssumption DEF StartEvaluation,
     AdvanceGeneration, Goto, DriverInv, NoDrops, RunnerRuns, WindowOpen,
     BoundaryAhead, SingleFlight, Live, Dropped, Driving, Evaluating, TaskType,
     RunType
<1>NothingPending. ASSUME NEW c \in Callers, NothingPending(c) PROVE DriverInv'
  BY <1>0, <1>NothingPending, <1>Frame DEF NothingPending, Goto, Live, Dropped,
     Evaluating, TaskType
<1>QuietCommit. ASSUME NEW c \in Callers, QuietCommit(c) PROVE DriverInv'
  BY <1>0, <1>QuietCommit, <1>Frame DEF QuietCommit, Goto, Live, Dropped, Evaluating,
     TaskType
<1>LoudCommit. ASSUME NEW c \in Callers, LoudCommit(c) PROVE DriverInv'
  BY <1>0, <1>LoudCommit, <1>Frame DEF LoudCommit, Goto, Live, Dropped, Evaluating,
     TaskType
<1>PhaseDone. ASSUME NEW c \in Callers, PhaseDone(c) PROVE DriverInv'
  BY <1>0, <1>PhaseDone, CallersAssumption DEF PhaseDone, Goto, DriverInv, NoDrops,
     RunnerRuns, WindowOpen, BoundaryAhead, SingleFlight, Live, Dropped, Driving,
     Evaluating, TaskType, RunType
<1>Preempt. ASSUME NEW c \in Callers, Preempt(c) PROVE DriverInv'
  BY <1>0, <1>Preempt, CallersAssumption DEF Preempt, Goto, DriverInv, NoDrops,
     RunnerRuns, WindowOpen, BoundaryAhead, SingleFlight, Live, Dropped, Driving,
     Evaluating, TaskType, RunType
<1>OpenWindow. ASSUME NEW c \in Callers, OpenWindow(c) PROVE DriverInv'
  BY <1>0, <1>OpenWindow, CallersAssumption DEF OpenWindow, WakeBoundary, Goto,
     DriverInv, NoDrops, RunnerRuns, WindowOpen, BoundaryAhead, SingleFlight,
     DriverRuns, Live, Dropped, Driving, Evaluating, TaskType, RunType, WriterType
<1>WindowDrained. ASSUME NEW c \in Callers, WindowDrained(c) PROVE DriverInv'
  BY <1>0, <1>WindowDrained, CallersAssumption DEF WindowDrained, Goto, DriverInv,
     NoDrops, RunnerRuns, WindowOpen, BoundaryAhead, SingleFlight, Live, Dropped,
     Driving, Evaluating, TaskType, RunType
<1>CloseWindow. ASSUME NEW c \in Callers, CloseWindow(c) PROVE DriverInv'
  BY <1>0, <1>CloseWindow, CallersAssumption DEF CloseWindow, Goto, DriverInv,
     NoDrops, RunnerRuns, WindowOpen, BoundaryAhead, SingleFlight, Live, Dropped,
     Driving, Evaluating, TaskType, RunType
<1>CompleteGeneration. ASSUME NEW c \in Callers, CompleteGeneration(c) PROVE DriverInv'
  <2>1. c = runner /\ ~window
    BY <1>0, <1>CompleteGeneration DEF CompleteGeneration, SingleFlight, Driving,
       DriverInv, WindowOpen
  <2>2. running' = 0 /\ UNCHANGED <<window, cancels>>
    BY <1>CompleteGeneration DEF CompleteGeneration
  <2>3. \A d \in Callers : pc'[d] \notin Dropped
    BY <1>0, <1>CompleteGeneration DEF CompleteGeneration, WakeUpTo, DriverInv,
       NoDrops, Dropped, TaskType
  <2>4. \A w \in Writers : wpc'[w] # "wait"
    BY <1>0, <1>CompleteGeneration DEF CompleteGeneration, WakeBoundary, WriterType
  <2> QED
    BY <1>0, <2>1, <2>2, <2>3, <2>4 DEF DriverInv, NoDrops, RunnerRuns, WindowOpen,
       BoundaryAhead
<1>ReleaseRunner. ASSUME NEW c \in Callers, ReleaseRunner(c) PROVE DriverInv'
  BY <1>0, <1>ReleaseRunner, CallersAssumption DEF ReleaseRunner, Goto, DriverInv,
     NoDrops, RunnerRuns, WindowOpen, BoundaryAhead, SingleFlight, Live, Dropped,
     Driving, Evaluating, TaskType, RunType
<1>Cancel. ASSUME NEW c \in Callers, Cancel(c) PROVE DriverInv'
  BY <1>0, <1>Cancel, BoundsAssumption DEF Cancel, Undropped, DriverInv, NoDrops
<1>DropEvaluation. ASSUME NEW c \in Callers, DropEvaluation(c) PROVE DriverInv'
  BY <1>0, <1>DropEvaluation DEF DropEvaluation, DriverInv, NoDrops, Dropped
<1>DropRunner. ASSUME NEW c \in Callers, DropRunner(c) PROVE DriverInv'
  BY <1>0, <1>DropRunner DEF DropRunner, DriverInv, NoDrops, Dropped
<1>DropEpoch. ASSUME NEW c \in Callers, DropEpoch(c) PROVE DriverInv'
  BY <1>0, <1>DropEpoch DEF DropEpoch, DriverInv, NoDrops, Dropped
<1>InsertIdle. ASSUME NEW w \in Writers, InsertIdle(w) PROVE DriverInv'
  BY <1>0, <1>InsertIdle, <1>Frame DEF InsertIdle, WriterType
<1>InsertDeferred. ASSUME NEW w \in Writers, InsertDeferred(w) PROVE DriverInv'
  BY <1>0, <1>InsertDeferred, <1>Frame DEF InsertDeferred, WriterType
<1>InsertPreempting. ASSUME NEW w \in Writers, InsertPreempting(w) PROVE DriverInv'
  BY <1>0, <1>InsertPreempting, <1>Frame DEF InsertPreempting, WriterType
<1>BeginMut. ASSUME NEW w \in Writers, BeginMut(w) PROVE DriverInv'
  BY <1>0, <1>BeginMut, <1>Frame DEF BeginMut, WriterType
<1>PreemptingInsertLands. ASSUME NEW w \in Writers, PreemptingInsertLands(w) PROVE DriverInv'
  BY <1>0, <1>PreemptingInsertLands, <1>Frame DEF PreemptingInsertLands, AtBoundary,
     WriterType
<1>MutLands. ASSUME NEW w \in Writers, MutLands(w) PROVE DriverInv'
  BY <1>0, <1>MutLands, <1>Frame DEF MutLands, AtBoundary, WriterType
<1>AwaitBoundary. ASSUME NEW w \in Writers, AwaitBoundary(w) PROVE DriverInv'
  BY <1>0, <1>AwaitBoundary DEF AwaitBoundary, DriverInv, NoDrops, RunnerRuns,
     WindowOpen, BoundaryAhead, WriterType
<1>MutStale. ASSUME NEW w \in Writers, MutStale(w) PROVE DriverInv'
  BY <1>0, <1>MutStale, <1>Frame DEF MutStale, WriterType
<1>MutBusy. ASSUME NEW w \in Writers, MutBusy(w) PROVE DriverInv'
  BY <1>0, <1>MutBusy, <1>Frame DEF MutBusy, WriterType
<1>CancelWriter. ASSUME NEW w \in Writers, CancelWriter(w) PROVE DriverInv'
  BY <1>0, <1>CancelWriter, BoundsAssumption DEF CancelWriter, Undropped, DriverInv,
     NoDrops
<1>Stutter. CASE UNCHANGED vars
  BY <1>Stutter, <1>Frame
<1> QED
  BY <1>CallSettle, <1>CallTake, <1>FastPath, <1>EnterEpoch, <1>BoundaryPromote,
     <1>BoundaryReturn, <1>PickTarget, <1>CheckClean, <1>Enqueue, <1>Heal,
     <1>NothingToHeal, <1>HooksTake, <1>HooksCommit, <1>HooksRestore, <1>SettleTake,
     <1>SettlePlan, <1>SettleCommit, <1>SettleRestore, <1>Followup,
     <1>PublishPromote, <1>Publish, <1>ExitEpoch, <1>Read, <1>ForEach, <1>Take,
     <1>Ensure, <1>TryRunner, <1>WaitGeneration, <1>StartEvaluation,
     <1>NothingPending, <1>QuietCommit, <1>LoudCommit, <1>PhaseDone, <1>Preempt,
     <1>OpenWindow, <1>WindowDrained, <1>CloseWindow, <1>CompleteGeneration,
     <1>ReleaseRunner, <1>Cancel, <1>DropEvaluation, <1>DropRunner, <1>DropEpoch,
     <1>InsertIdle, <1>InsertDeferred, <1>InsertPreempting, <1>BeginMut,
     <1>PreemptingInsertLands, <1>MutLands, <1>AwaitBoundary, <1>MutStale,
     <1>MutBusy, <1>CancelWriter, <1>Stutter
     DEF Next, CallerStep, SettleStep, DriveStep, DropStep, WriterStep, Finished,
         OutOfBounds

-----------------------------------------------------------------------------
\* A caller on its way to sleep, or asleep, whose generation is still to come.
Starved(c) == pc[c] \in {"genReg", "genWait"} /\ completed < target[c]

\* Callers that cannot return without looking at the generations again.
Awake == Driving \cup {"ensure", "tryRun", "check", "enqueue", "loop", "fast", "enter"}

\* A sleeper is woken as soon as its generation completes.
SleepersWait == \A c \in Callers : pc[c] = "genWait" => completed < target[c]

\* Whoever goes to sleep leaves somebody awake.
Watched == (\E c \in Callers : Starved(c)) => \E d \in Callers : pc[d] \in Awake

SleepInv == SleepersWait /\ Watched

\* Nobody sleeps at first.
LEMMA SleepInit == Init => SleepInv
BY DEF Init, SleepInv, SleepersWait, Watched, Starved

\* A bowl is not settled while somebody waits for a generation.
LEMMA StarvedUnsettled ==
  ASSUME GenType, TaskType, Targets, NEW c \in Callers, Starved(c)
  PROVE  pending # 0 \/ running # 0
BY DEF GenType, TaskType, Targets, Horizon, Max2, Starved

\* Every critical section keeps somebody awake.
LEMMA SleepStep ==
  ASSUME Undropped, ControlInv, DriverInv, SleepInv, [Next]_vars
  PROVE  SleepInv'
<1>0. /\ Undropped /\ GenType /\ TaskType /\ RunType /\ SingleFlight /\ Targets
      /\ DriverInv /\ SleepInv
  BY DEF ControlInv, TypeOK, PcInv
<1>Still. ASSUME UNCHANGED <<pc, target, completed>> PROVE SleepInv'
  BY <1>0, <1>Still DEF SleepInv, SleepersWait, Watched, Starved
<1>Moved. ASSUME UNCHANGED <<target, completed>>, NEW c \in Callers,
                 \A d \in Callers : d # c => pc'[d] = pc[d],
                 pc'[c] \notin {"genReg", "genWait"},
                 pc'[c] \in Awake \/ pc[c] \notin Awake \/ ~(\E d \in Callers : Starved(d))
          PROVE  SleepInv'
  BY <1>0, <1>Moved DEF SleepInv, SleepersWait, Watched, Starved
<1>CallSettle. ASSUME NEW c \in Callers, CallSettle(c) PROVE SleepInv'
  BY <1>0, <1>CallSettle, <1>Moved DEF CallSettle, Goto, Awake, Driving, Evaluating,
     TaskType
<1>CallTake. ASSUME NEW c \in Callers, CallTake(c) PROVE SleepInv'
  BY <1>0, <1>CallTake DEF CallTake, Goto, Set, SleepInv, SleepersWait, Watched,
     Starved, Awake, Driving, Evaluating, TaskType
<1>FastPath. ASSUME NEW c \in Callers, FastPath(c) PROVE SleepInv'
  <2>1. (\E d \in Callers : Starved(d)) => ~Quiescent
    BY <1>0, StarvedUnsettled DEF Quiescent
  <2> QED
    BY <1>0, <1>FastPath, <2>1, <1>Moved DEF FastPath, Goto, Awake, Driving,
       Evaluating, TaskType
<1>EnterEpoch. ASSUME NEW c \in Callers, EnterEpoch(c) PROVE SleepInv'
  BY <1>0, <1>EnterEpoch, <1>Moved DEF EnterEpoch, Goto, Awake, Driving, Evaluating,
     TaskType
<1>BoundaryPromote. ASSUME NEW c \in Callers, BoundaryPromote(c) PROVE SleepInv'
  BY <1>0, <1>BoundaryPromote, <1>Moved DEF BoundaryPromote, Goto, Awake, Driving,
     Evaluating, TaskType
<1>BoundaryReturn. ASSUME NEW c \in Callers, BoundaryReturn(c) PROVE SleepInv'
  <2>1. (\E d \in Callers : Starved(d)) => ~Quiescent
    BY <1>0, StarvedUnsettled DEF Quiescent
  <2> QED
    BY <1>0, <1>BoundaryReturn, <2>1, <1>Moved DEF BoundaryReturn, Goto, Awake,
       Driving, Evaluating, TaskType
<1>PickTarget. ASSUME NEW c \in Callers, PickTarget(c) PROVE SleepInv'
  BY <1>0, <1>PickTarget DEF PickTarget, Goto, Set, SleepInv, SleepersWait, Watched,
     Starved, Awake, Driving, Evaluating, TaskType
<1>CheckClean. ASSUME NEW c \in Callers, CheckClean(c) PROVE SleepInv'
  <2>1. (\E d \in Callers : Starved(d)) => ~(pending = 0 /\ running = 0)
    BY <1>0, StarvedUnsettled
  <2> QED
    BY <1>0, <1>CheckClean, <2>1, <1>Moved DEF CheckClean, Goto, Awake, Driving,
       Evaluating, TaskType
<1>Enqueue. ASSUME NEW c \in Callers, Enqueue(c) PROVE SleepInv'
  BY <1>0, <1>Enqueue, <1>Moved DEF Enqueue, Goto, Awake, Driving, Evaluating, TaskType
<1>Heal. ASSUME NEW c \in Callers, Heal(c) PROVE SleepInv'
  BY <1>0, <1>Heal, <1>Moved DEF Heal, Goto, Awake, Driving, Evaluating, TaskType
<1>NothingToHeal. ASSUME NEW c \in Callers, NothingToHeal(c) PROVE SleepInv'
  BY <1>0, <1>NothingToHeal, <1>Moved DEF NothingToHeal, Goto, Awake, Driving,
     Evaluating, TaskType
<1>HooksTake. ASSUME NEW c \in Callers, HooksTake(c) PROVE SleepInv'
  BY <1>0, <1>HooksTake, <1>Moved DEF HooksTake, Goto, Awake, Driving, Evaluating,
     TaskType
<1>HooksCommit. ASSUME NEW c \in Callers, HooksCommit(c) PROVE SleepInv'
  BY <1>0, <1>HooksCommit, <1>Moved DEF HooksCommit, Goto, Awake, Driving, Evaluating,
     TaskType
<1>HooksRestore. ASSUME NEW c \in Callers, HooksRestore(c) PROVE SleepInv'
  BY <1>0, <1>HooksRestore, <1>Moved DEF HooksRestore, Goto, Awake, Driving,
     Evaluating, TaskType
<1>SettleTake. ASSUME NEW c \in Callers, SettleTake(c) PROVE SleepInv'
  BY <1>0, <1>SettleTake, <1>Moved DEF SettleTake, Goto, Awake, Driving, Evaluating,
     TaskType
<1>SettlePlan. ASSUME NEW c \in Callers, SettlePlan(c) PROVE SleepInv'
  BY <1>0, <1>SettlePlan, <1>Moved DEF SettlePlan, Goto, Awake, Driving, Evaluating,
     TaskType
<1>SettleCommit. ASSUME NEW c \in Callers, SettleCommit(c) PROVE SleepInv'
  BY <1>0, <1>SettleCommit, <1>Moved DEF SettleCommit, Goto, Awake, Driving,
     Evaluating, TaskType
<1>SettleRestore. ASSUME NEW c \in Callers, SettleRestore(c) PROVE SleepInv'
  BY <1>0, <1>SettleRestore, <1>Moved DEF SettleRestore, Goto, Awake, Driving,
     Evaluating, TaskType
<1>Followup. ASSUME NEW c \in Callers, Followup(c) PROVE SleepInv'
  BY <1>0, <1>Followup, <1>Moved DEF Followup, Goto, Awake, Driving, Evaluating,
     TaskType
<1>PublishPromote. ASSUME NEW c \in Callers, PublishPromote(c) PROVE SleepInv'
  BY <1>0, <1>PublishPromote, <1>Moved DEF PublishPromote, Goto, Awake, Driving,
     Evaluating, TaskType
<1>Publish. ASSUME NEW c \in Callers, Publish(c) PROVE SleepInv'
  BY <1>0, <1>Publish, <1>Moved DEF Publish, Goto, Awake, Driving, Evaluating, TaskType
<1>ExitEpoch. ASSUME NEW c \in Callers, ExitEpoch(c) PROVE SleepInv'
  BY <1>0, <1>ExitEpoch, <1>Moved DEF ExitEpoch, LeaveEpoch, Goto, Awake, Driving,
     Evaluating, TaskType
<1>Read. ASSUME NEW c \in Callers, Read(c) PROVE SleepInv'
  BY <1>0, <1>Read, <1>Moved DEF Read, Goto, Awake, Driving, Evaluating, TaskType
<1>ForEach. ASSUME NEW c \in Callers, ForEach(c) PROVE SleepInv'
  BY <1>0, <1>ForEach, <1>Moved DEF ForEach, Goto, Awake, Driving, Evaluating, TaskType
<1>Take. ASSUME NEW c \in Callers, Take(c) PROVE SleepInv'
  BY <1>0, <1>Take, <1>Moved DEF Take, Goto, Awake, Driving, Evaluating, TaskType
<1>Ensure. ASSUME NEW c \in Callers, Ensure(c) PROVE SleepInv'
  BY <1>0, <1>Ensure DEF Ensure, Goto, Set, SleepInv, SleepersWait, Watched, Starved,
     Awake, Driving, Evaluating, TaskType
<1>TryRunner. ASSUME NEW c \in Callers, TryRunner(c) PROVE SleepInv'
  <2>1. runner # NoCaller => runner \in Callers /\ pc[runner] \in Awake /\ runner # c
    BY <1>0, <1>TryRunner DEF TryRunner, SingleFlight, Awake, Driving, Evaluating,
       RunType
  <2> QED
    BY <1>0, <1>TryRunner, <2>1 DEF TryRunner, Goto, SleepInv, SleepersWait, Watched,
       Starved, Awake, Driving, Evaluating, TaskType
<1>WaitGeneration. ASSUME NEW c \in Callers, WaitGeneration(c) PROVE SleepInv'
  <2>1. \A d \in Callers : Starved(d)' => Starved(d)
    BY <1>0, <1>WaitGeneration DEF WaitGeneration, Goto, Starved, TaskType, GenType
  <2> QED
    BY <1>0, <1>WaitGeneration, <2>1 DEF WaitGeneration, Goto, SleepInv, SleepersWait,
       Watched, Starved, Awake, Driving, Evaluating, TaskType, GenType
<1>StartEvaluation. ASSUME NEW c \in Callers, StartEvaluation(c) PROVE SleepInv'
  BY <1>0, <1>StartEvaluation, <1>Moved DEF StartEvaluation, Goto, Awake, Driving,
     Evaluating, TaskType
<1>NothingPending. ASSUME NEW c \in Callers, NothingPending(c) PROVE SleepInv'
  BY <1>0, <1>NothingPending, <1>Moved DEF NothingPending, Goto, Awake, Driving,
     Evaluating, TaskType
<1>QuietCommit. ASSUME NEW c \in Callers, QuietCommit(c) PROVE SleepInv'
  BY <1>0, <1>QuietCommit, <1>Moved DEF QuietCommit, Goto, Awake, Driving, Evaluating,
     TaskType
<1>LoudCommit. ASSUME NEW c \in Callers, LoudCommit(c) PROVE SleepInv'
  BY <1>0, <1>LoudCommit, <1>Moved DEF LoudCommit, Goto, Awake, Driving, Evaluating,
     TaskType
<1>PhaseDone. ASSUME NEW c \in Callers, PhaseDone(c) PROVE SleepInv'
  BY <1>0, <1>PhaseDone, <1>Moved DEF PhaseDone, Goto, Awake, Driving, Evaluating,
     TaskType
<1>Preempt. ASSUME NEW c \in Callers, Preempt(c) PROVE SleepInv'
  BY <1>0, <1>Preempt, <1>Moved DEF Preempt, Goto, Awake, Driving, Evaluating, TaskType
<1>OpenWindow. ASSUME NEW c \in Callers, OpenWindow(c) PROVE SleepInv'
  BY <1>0, <1>OpenWindow, <1>Moved DEF OpenWindow, Goto, Awake, Driving, Evaluating,
     TaskType
<1>WindowDrained. ASSUME NEW c \in Callers, WindowDrained(c) PROVE SleepInv'
  BY <1>0, <1>WindowDrained, <1>Moved DEF WindowDrained, Goto, Awake, Driving,
     Evaluating, TaskType
<1>CloseWindow. ASSUME NEW c \in Callers, CloseWindow(c) PROVE SleepInv'
  BY <1>0, <1>CloseWindow, <1>Moved DEF CloseWindow, Goto, Awake, Driving, Evaluating,
     TaskType
<1>CompleteGeneration. ASSUME NEW c \in Callers, CompleteGeneration(c) PROVE SleepInv'
  <2>1. pc'[c] \in Awake
    BY <1>0, <1>CompleteGeneration DEF CompleteGeneration, WakeUpTo, Awake, Driving,
       TaskType
  <2>2. completed' = running /\ UNCHANGED target
    BY <1>CompleteGeneration DEF CompleteGeneration
  <2>3. \A d \in Callers : pc'[d] = "genWait" => ~(target[d] <= running)
    BY <1>0, <1>CompleteGeneration DEF CompleteGeneration, WakeUpTo, TaskType
  <2> QED
    BY <1>0, <2>1, <2>2, <2>3 DEF SleepInv, SleepersWait, Watched, TaskType, GenType
<1>ReleaseRunner. ASSUME NEW c \in Callers, ReleaseRunner(c) PROVE SleepInv'
  BY <1>0, <1>ReleaseRunner, <1>Moved DEF ReleaseRunner, Goto, Awake, Driving,
     Evaluating, TaskType
<1>Cancel. ASSUME NEW c \in Callers, Cancel(c) PROVE SleepInv'
  BY <1>0, <1>Cancel, BoundsAssumption DEF Cancel, Undropped, DriverInv, NoDrops
<1>DropEvaluation. ASSUME NEW c \in Callers, DropEvaluation(c) PROVE SleepInv'
  BY <1>0, <1>DropEvaluation DEF DropEvaluation, DriverInv, NoDrops, Dropped
<1>DropRunner. ASSUME NEW c \in Callers, DropRunner(c) PROVE SleepInv'
  BY <1>0, <1>DropRunner DEF DropRunner, DriverInv, NoDrops, Dropped
<1>DropEpoch. ASSUME NEW c \in Callers, DropEpoch(c) PROVE SleepInv'
  BY <1>0, <1>DropEpoch DEF DropEpoch, DriverInv, NoDrops, Dropped
<1>InsertIdle. ASSUME NEW w \in Writers, InsertIdle(w) PROVE SleepInv'
  BY <1>InsertIdle, <1>Still DEF InsertIdle
<1>InsertDeferred. ASSUME NEW w \in Writers, InsertDeferred(w) PROVE SleepInv'
  BY <1>InsertDeferred, <1>Still DEF InsertDeferred
<1>InsertPreempting. ASSUME NEW w \in Writers, InsertPreempting(w) PROVE SleepInv'
  BY <1>InsertPreempting, <1>Still DEF InsertPreempting
<1>BeginMut. ASSUME NEW w \in Writers, BeginMut(w) PROVE SleepInv'
  BY <1>BeginMut, <1>Still DEF BeginMut
<1>PreemptingInsertLands. ASSUME NEW w \in Writers, PreemptingInsertLands(w) PROVE SleepInv'
  BY <1>PreemptingInsertLands, <1>Still DEF PreemptingInsertLands, AtBoundary
<1>MutLands. ASSUME NEW w \in Writers, MutLands(w) PROVE SleepInv'
  BY <1>MutLands, <1>Still DEF MutLands, AtBoundary
<1>AwaitBoundary. ASSUME NEW w \in Writers, AwaitBoundary(w) PROVE SleepInv'
  BY <1>AwaitBoundary, <1>Still DEF AwaitBoundary
<1>MutStale. ASSUME NEW w \in Writers, MutStale(w) PROVE SleepInv'
  BY <1>MutStale, <1>Still DEF MutStale
<1>MutBusy. ASSUME NEW w \in Writers, MutBusy(w) PROVE SleepInv'
  BY <1>MutBusy, <1>Still DEF MutBusy
<1>CancelWriter. ASSUME NEW w \in Writers, CancelWriter(w) PROVE SleepInv'
  BY <1>0, <1>CancelWriter, BoundsAssumption DEF CancelWriter, Undropped, DriverInv,
     NoDrops
<1>Stutter. CASE UNCHANGED vars
  BY <1>Stutter, <1>Still
<1> QED
  BY <1>CallSettle, <1>CallTake, <1>FastPath, <1>EnterEpoch, <1>BoundaryPromote,
     <1>BoundaryReturn, <1>PickTarget, <1>CheckClean, <1>Enqueue, <1>Heal,
     <1>NothingToHeal, <1>HooksTake, <1>HooksCommit, <1>HooksRestore, <1>SettleTake,
     <1>SettlePlan, <1>SettleCommit, <1>SettleRestore, <1>Followup,
     <1>PublishPromote, <1>Publish, <1>ExitEpoch, <1>Read, <1>ForEach, <1>Take,
     <1>Ensure, <1>TryRunner, <1>WaitGeneration, <1>StartEvaluation,
     <1>NothingPending, <1>QuietCommit, <1>LoudCommit, <1>PhaseDone, <1>Preempt,
     <1>OpenWindow, <1>WindowDrained, <1>CloseWindow, <1>CompleteGeneration,
     <1>ReleaseRunner, <1>Cancel, <1>DropEvaluation, <1>DropRunner, <1>DropEpoch,
     <1>InsertIdle, <1>InsertDeferred, <1>InsertPreempting, <1>BeginMut,
     <1>PreemptingInsertLands, <1>MutLands, <1>AwaitBoundary, <1>MutStale,
     <1>MutBusy, <1>CancelWriter, <1>Stutter
     DEF Next, CallerStep, SettleStep, DriveStep, DropStep, WriterStep, Finished,
         OutOfBounds

-----------------------------------------------------------------------------
\* An outstanding Startup is where the next phase starts.
StartupAhead ==
    startupOwed =>
        IF running = 0 THEN ~startupRan \/ restart
        ELSE \/ pc[runner] \in {"openWindow", "windowWait", "closeWindow"}
             \/ pc[runner] = "phase" /\ phase = "Startup"

\* The first generation starts with Startup.
LEMMA StartupInit == Init => StartupAhead
BY DEF Init, StartupAhead

\* Every critical section that asks for a Startup puts it next.
LEMMA StartupStep ==
  ASSUME Undropped, ControlInv, DriverInv, StartupAhead, [Next]_vars
  PROVE  StartupAhead'
<1>0. /\ Undropped /\ TaskType /\ RunType /\ HistType /\ SingleFlight /\ DriverRuns
      /\ DriverInv /\ RunnerRuns /\ StartupAhead
  BY DEF ControlInv, TypeOK, PcInv, DriverInv
<1>Frame. ASSUME UNCHANGED <<startupOwed, running, runner, startupRan, restart, phase>>,
                 \A d \in Callers : pc'[d] = pc[d] \/ pc[d] \notin Live
          PROVE  StartupAhead'
  BY <1>0, <1>Frame DEF StartupAhead, RunnerRuns
<1>CallSettle. ASSUME NEW c \in Callers, CallSettle(c) PROVE StartupAhead'
  BY <1>0, <1>CallSettle, <1>Frame DEF CallSettle, Goto, Live, Evaluating, TaskType
<1>CallTake. ASSUME NEW c \in Callers, CallTake(c) PROVE StartupAhead'
  BY <1>0, <1>CallTake, <1>Frame DEF CallTake, Goto, Live, Evaluating, TaskType
<1>FastPath. ASSUME NEW c \in Callers, FastPath(c) PROVE StartupAhead'
  BY <1>0, <1>FastPath, <1>Frame DEF FastPath, Goto, Live, Evaluating, TaskType
<1>EnterEpoch. ASSUME NEW c \in Callers, EnterEpoch(c) PROVE StartupAhead'
  BY <1>0, <1>EnterEpoch, <1>Frame DEF EnterEpoch, Goto, Live, Evaluating, TaskType
<1>BoundaryPromote. ASSUME NEW c \in Callers, BoundaryPromote(c) PROVE StartupAhead'
  BY <1>0, <1>BoundaryPromote, <1>Frame DEF BoundaryPromote, Goto, Live, Evaluating,
     TaskType
<1>BoundaryReturn. ASSUME NEW c \in Callers, BoundaryReturn(c) PROVE StartupAhead'
  BY <1>0, <1>BoundaryReturn, <1>Frame DEF BoundaryReturn, Goto, Live, Evaluating,
     TaskType
<1>PickTarget. ASSUME NEW c \in Callers, PickTarget(c) PROVE StartupAhead'
  BY <1>0, <1>PickTarget, <1>Frame DEF PickTarget, Goto, Live, Evaluating, TaskType
<1>CheckClean. ASSUME NEW c \in Callers, CheckClean(c) PROVE StartupAhead'
  BY <1>0, <1>CheckClean, <1>Frame DEF CheckClean, Goto, Live, Evaluating, TaskType
<1>Enqueue. ASSUME NEW c \in Callers, Enqueue(c) PROVE StartupAhead'
  BY <1>0, <1>Enqueue, <1>Frame DEF Enqueue, Goto, Live, Evaluating, TaskType
<1>Heal. ASSUME NEW c \in Callers, Heal(c) PROVE StartupAhead'
  BY <1>0, <1>Heal, <1>Frame DEF Heal, BehindDriver, Goto, Live, Evaluating, TaskType
<1>NothingToHeal. ASSUME NEW c \in Callers, NothingToHeal(c) PROVE StartupAhead'
  BY <1>0, <1>NothingToHeal, <1>Frame DEF NothingToHeal, Goto, Live, Evaluating,
     TaskType
<1>HooksTake. ASSUME NEW c \in Callers, HooksTake(c) PROVE StartupAhead'
  BY <1>0, <1>HooksTake, <1>Frame DEF HooksTake, Goto, Live, Evaluating, TaskType
<1>HooksCommit. ASSUME NEW c \in Callers, HooksCommit(c) PROVE StartupAhead'
  BY <1>0, <1>HooksCommit, <1>Frame DEF HooksCommit, BehindDriver, Goto, Live,
     Evaluating, TaskType
<1>HooksRestore. ASSUME NEW c \in Callers, HooksRestore(c) PROVE StartupAhead'
  BY <1>0, <1>HooksRestore, <1>Frame DEF HooksRestore, Goto, Live, Evaluating, TaskType
<1>SettleTake. ASSUME NEW c \in Callers, SettleTake(c) PROVE StartupAhead'
  BY <1>0, <1>SettleTake, <1>Frame DEF SettleTake, Goto, Live, Evaluating, TaskType
<1>SettlePlan. ASSUME NEW c \in Callers, SettlePlan(c) PROVE StartupAhead'
  BY <1>0, <1>SettlePlan, <1>Frame DEF SettlePlan, Goto, Live, Evaluating, TaskType
<1>SettleCommit. ASSUME NEW c \in Callers, SettleCommit(c) PROVE StartupAhead'
  BY <1>0, <1>SettleCommit, <1>Frame DEF SettleCommit, BehindDriver, Goto, Live,
     Evaluating, TaskType
<1>SettleRestore. ASSUME NEW c \in Callers, SettleRestore(c) PROVE StartupAhead'
  BY <1>0, <1>SettleRestore, <1>Frame DEF SettleRestore, Goto, Live, Evaluating,
     TaskType
<1>Followup. ASSUME NEW c \in Callers, Followup(c) PROVE StartupAhead'
  BY <1>0, <1>Followup, <1>Frame DEF Followup, Goto, Live, Evaluating, TaskType
<1>PublishPromote. ASSUME NEW c \in Callers, PublishPromote(c) PROVE StartupAhead'
  BY <1>0, <1>PublishPromote, <1>Frame DEF PublishPromote, Goto, Live, Evaluating,
     TaskType
<1>Publish. ASSUME NEW c \in Callers, Publish(c) PROVE StartupAhead'
  BY <1>0, <1>Publish, <1>Frame DEF Publish, Goto, Live, Evaluating, TaskType
<1>ExitEpoch. ASSUME NEW c \in Callers, ExitEpoch(c) PROVE StartupAhead'
  BY <1>0, <1>ExitEpoch, <1>Frame DEF ExitEpoch, LeaveEpoch, Goto, Live, Evaluating,
     TaskType
<1>Read. ASSUME NEW c \in Callers, Read(c) PROVE StartupAhead'
  BY <1>0, <1>Read, <1>Frame DEF Read, Goto, Live, Evaluating, TaskType
<1>ForEach. ASSUME NEW c \in Callers, ForEach(c) PROVE StartupAhead'
  BY <1>0, <1>ForEach, <1>Frame DEF ForEach, BehindDriver, Goto, Live, Evaluating,
     TaskType
<1>Take. ASSUME NEW c \in Callers, Take(c) PROVE StartupAhead'
  BY <1>0, <1>Take, <1>Frame DEF Take, BehindDriver, Goto, Live, Evaluating, TaskType
<1>Ensure. ASSUME NEW c \in Callers, Ensure(c) PROVE StartupAhead'
  BY <1>0, <1>Ensure, <1>Frame DEF Ensure, Goto, Live, Evaluating, TaskType
<1>TryRunner. ASSUME NEW c \in Callers, TryRunner(c) PROVE StartupAhead'
  BY <1>0, <1>TryRunner, CallersAssumption DEF TryRunner, Goto, StartupAhead,
     DriverInv, RunnerRuns, WindowOpen, SingleFlight, Live, Driving, Evaluating,
     TaskType, RunType, HistType
<1>WaitGeneration. ASSUME NEW c \in Callers, WaitGeneration(c) PROVE StartupAhead'
  BY <1>0, <1>WaitGeneration, <1>Frame DEF WaitGeneration, Goto, Live, Evaluating,
     TaskType
<1>StartEvaluation. ASSUME NEW c \in Callers, StartEvaluation(c) PROVE StartupAhead'
  BY <1>0, <1>StartEvaluation, CallersAssumption DEF StartEvaluation,
     AdvanceGeneration, Goto, StartupAhead, DriverInv, RunnerRuns, WindowOpen,
     SingleFlight, Live, Driving, Evaluating, TaskType, RunType, HistType
<1>NothingPending. ASSUME NEW c \in Callers, NothingPending(c) PROVE StartupAhead'
  BY <1>0, <1>NothingPending, <1>Frame DEF NothingPending, Goto, Live, Evaluating,
     TaskType
<1>QuietCommit. ASSUME NEW c \in Callers, QuietCommit(c) PROVE StartupAhead'
  BY <1>0, <1>QuietCommit, <1>Frame DEF QuietCommit, Goto, Live, Evaluating, TaskType
<1>LoudCommit. ASSUME NEW c \in Callers, LoudCommit(c) PROVE StartupAhead'
  BY <1>0, <1>LoudCommit, <1>Frame DEF LoudCommit, Goto, Live, Evaluating, TaskType
<1>PhaseDone. ASSUME NEW c \in Callers, PhaseDone(c) PROVE StartupAhead'
  BY <1>0, <1>PhaseDone, CallersAssumption DEF PhaseDone, Goto, StartupAhead,
     DriverInv, RunnerRuns, WindowOpen, SingleFlight, Live, Driving, Evaluating,
     TaskType, RunType, HistType
<1>Preempt. ASSUME NEW c \in Callers, Preempt(c) PROVE StartupAhead'
  BY <1>0, <1>Preempt, CallersAssumption DEF Preempt, Goto, StartupAhead, DriverInv,
     RunnerRuns, WindowOpen, SingleFlight, Live, Driving, Evaluating, TaskType,
     RunType, HistType
<1>OpenWindow. ASSUME NEW c \in Callers, OpenWindow(c) PROVE StartupAhead'
  BY <1>0, <1>OpenWindow, CallersAssumption DEF OpenWindow, Goto, StartupAhead,
     DriverInv, RunnerRuns, WindowOpen, SingleFlight, Live, Driving, Evaluating,
     TaskType, RunType, HistType
<1>WindowDrained. ASSUME NEW c \in Callers, WindowDrained(c) PROVE StartupAhead'
  BY <1>0, <1>WindowDrained, CallersAssumption DEF WindowDrained, Goto, StartupAhead,
     DriverInv, RunnerRuns, WindowOpen, SingleFlight, Live, Driving, Evaluating,
     TaskType, RunType, HistType
<1>CloseWindow. ASSUME NEW c \in Callers, CloseWindow(c) PROVE StartupAhead'
  BY <1>0, <1>CloseWindow, CallersAssumption DEF CloseWindow, Goto, StartupAhead,
     DriverInv, RunnerRuns, WindowOpen, SingleFlight, DriverRuns, Live, Driving,
     Evaluating, TaskType, RunType, HistType
<1>CompleteGeneration. ASSUME NEW c \in Callers, CompleteGeneration(c) PROVE StartupAhead'
  BY <1>0, <1>CompleteGeneration, CallersAssumption DEF CompleteGeneration, WakeUpTo,
     Goto, StartupAhead, DriverInv, RunnerRuns, WindowOpen, SingleFlight, Live,
     Driving, Evaluating, TaskType, RunType, HistType
<1>ReleaseRunner. ASSUME NEW c \in Callers, ReleaseRunner(c) PROVE StartupAhead'
  BY <1>0, <1>ReleaseRunner, CallersAssumption DEF ReleaseRunner, Goto, StartupAhead,
     DriverInv, RunnerRuns, WindowOpen, SingleFlight, Live, Driving, Evaluating,
     TaskType, RunType, HistType
<1>Cancel. ASSUME NEW c \in Callers, Cancel(c) PROVE StartupAhead'
  BY <1>0, <1>Cancel, BoundsAssumption DEF Cancel, Undropped, DriverInv, NoDrops
<1>DropEvaluation. ASSUME NEW c \in Callers, DropEvaluation(c) PROVE StartupAhead'
  BY <1>0, <1>DropEvaluation DEF DropEvaluation, DriverInv, NoDrops, Dropped
<1>DropRunner. ASSUME NEW c \in Callers, DropRunner(c) PROVE StartupAhead'
  BY <1>0, <1>DropRunner DEF DropRunner, DriverInv, NoDrops, Dropped
<1>DropEpoch. ASSUME NEW c \in Callers, DropEpoch(c) PROVE StartupAhead'
  BY <1>0, <1>DropEpoch DEF DropEpoch, DriverInv, NoDrops, Dropped
<1>InsertIdle. ASSUME NEW w \in Writers, InsertIdle(w) PROVE StartupAhead'
  BY <1>InsertIdle, <1>Frame DEF InsertIdle
<1>InsertDeferred. ASSUME NEW w \in Writers, InsertDeferred(w) PROVE StartupAhead'
  BY <1>InsertDeferred, <1>Frame DEF InsertDeferred
<1>InsertPreempting. ASSUME NEW w \in Writers, InsertPreempting(w) PROVE StartupAhead'
  BY <1>InsertPreempting, <1>Frame DEF InsertPreempting
<1>BeginMut. ASSUME NEW w \in Writers, BeginMut(w) PROVE StartupAhead'
  BY <1>BeginMut, <1>Frame DEF BeginMut
<1>PreemptingInsertLands. ASSUME NEW w \in Writers, PreemptingInsertLands(w) PROVE StartupAhead'
  BY <1>0, <1>PreemptingInsertLands, CallersAssumption DEF PreemptingInsertLands,
     AtBoundary, Goto, StartupAhead, DriverInv, RunnerRuns, WindowOpen, SingleFlight,
     Live, Driving, Evaluating, TaskType, RunType, HistType
<1>MutLands. ASSUME NEW w \in Writers, MutLands(w) PROVE StartupAhead'
  BY <1>0, <1>MutLands, CallersAssumption DEF MutLands, AtBoundary, Goto,
     StartupAhead, DriverInv, RunnerRuns, WindowOpen, SingleFlight, Live, Driving,
     Evaluating, TaskType, RunType, HistType
<1>AwaitBoundary. ASSUME NEW w \in Writers, AwaitBoundary(w) PROVE StartupAhead'
  BY <1>AwaitBoundary, <1>Frame DEF AwaitBoundary
<1>MutStale. ASSUME NEW w \in Writers, MutStale(w) PROVE StartupAhead'
  BY <1>MutStale, <1>Frame DEF MutStale
<1>MutBusy. ASSUME NEW w \in Writers, MutBusy(w) PROVE StartupAhead'
  BY <1>0, <1>MutBusy, CallersAssumption DEF MutBusy, Goto, StartupAhead, DriverInv,
     RunnerRuns, WindowOpen, SingleFlight, Live, Driving, Evaluating, TaskType,
     RunType, HistType
<1>CancelWriter. ASSUME NEW w \in Writers, CancelWriter(w) PROVE StartupAhead'
  BY <1>0, <1>CancelWriter, BoundsAssumption DEF CancelWriter, Undropped, DriverInv,
     NoDrops
<1>Stutter. CASE UNCHANGED vars
  BY <1>Stutter, <1>Frame
<1> QED
  BY <1>CallSettle, <1>CallTake, <1>FastPath, <1>EnterEpoch, <1>BoundaryPromote,
     <1>BoundaryReturn, <1>PickTarget, <1>CheckClean, <1>Enqueue, <1>Heal,
     <1>NothingToHeal, <1>HooksTake, <1>HooksCommit, <1>HooksRestore, <1>SettleTake,
     <1>SettlePlan, <1>SettleCommit, <1>SettleRestore, <1>Followup,
     <1>PublishPromote, <1>Publish, <1>ExitEpoch, <1>Read, <1>ForEach, <1>Take,
     <1>Ensure, <1>TryRunner, <1>WaitGeneration, <1>StartEvaluation,
     <1>NothingPending, <1>QuietCommit, <1>LoudCommit, <1>PhaseDone, <1>Preempt,
     <1>OpenWindow, <1>WindowDrained, <1>CloseWindow, <1>CompleteGeneration,
     <1>ReleaseRunner, <1>Cancel, <1>DropEvaluation, <1>DropRunner, <1>DropEpoch,
     <1>InsertIdle, <1>InsertDeferred, <1>InsertPreempting, <1>BeginMut,
     <1>PreemptingInsertLands, <1>MutLands, <1>AwaitBoundary, <1>MutStale,
     <1>MutBusy, <1>CancelWriter, <1>Stutter
     DEF Next, CallerStep, SettleStep, DriveStep, DropStep, WriterStep, Finished,
         OutOfBounds

-----------------------------------------------------------------------------
\* The three parts together.
UndroppedInv == ControlInv /\ DriverInv /\ SleepInv /\ StartupAhead

\* They hold in every state a bowl without dropped futures reaches.
THEOREM UndroppedCorrect ==
  ASSUME Undropped
  PROVE  Spec => []UndroppedInv
<1>1. Init => UndroppedInv
  BY ControlInit, DriverInit, SleepInit, StartupInit DEF UndroppedInv
<1>2. UndroppedInv /\ [Next]_vars => UndroppedInv'
  BY Undropped, ControlStep, DriverStep, SleepStep, StartupStep DEF UndroppedInv
<1> QED BY <1>1, <1>2, PTL DEF Spec

\* A running generation has a live driver: whoever waits for it waits for a
\* task that holds the runner lock and will complete it.
THEOREM RunsAreDriven ==
  ASSUME Undropped
  PROVE  Spec => []DriverAlive
<1>1. UndroppedInv => DriverAlive
  BY DEF UndroppedInv, DriverInv, RunnerRuns, DriverAlive, Live
<1> QED BY <1>1, UndroppedCorrect, PTL

\* No caller sleeps in wait_for_generation with nobody left to wake it.
THEOREM SleepersAreWatched ==
  ASSUME Undropped
  PROVE  Spec => []WaiterHasDriver
<1>1. UndroppedInv => WaiterHasDriver
  BY DEF UndroppedInv, SleepInv, SleepersWait, Watched, Starved, WaiterHasDriver, Awake,
     Driving, Evaluating
<1> QED BY <1>1, UndroppedCorrect, PTL

\* No mutator sleeps on a boundary that nobody will open.
THEOREM MutatorsAreServed ==
  ASSUME Undropped
  PROVE  Spec => []MutatorHasWaker
<1>1. UndroppedInv => MutatorHasWaker
  BY DEF UndroppedInv, DriverInv, RunnerRuns, BoundaryAhead, MutatorHasWaker, Live,
     Evaluating
<1> QED BY <1>1, UndroppedCorrect, PTL

\* No Evaluate or Complete row runs while a Startup is outstanding, whatever
\* the order of preemptions, restarts and generations.
THEOREM StartupRunsFirst ==
  ASSUME Undropped
  PROVE  Spec => []StartupFirst
<1>1. UndroppedInv => StartupFirst
  <2> SUFFICES ASSUME UndroppedInv, NEW c \in Callers, pc[c] = "phase",
                      phase \in NormalPhases, startupOwed
               PROVE  FALSE
    BY DEF StartupFirst
  <2>1. runner = c /\ running # 0
    BY DEF UndroppedInv, ControlInv, PcInv, SingleFlight, DriverRuns, Driving,
       Evaluating
  <2> QED BY <2>1 DEF UndroppedInv, StartupAhead, NormalPhases
<1> QED BY <1>1, UndroppedCorrect, PTL

-----------------------------------------------------------------------------
(* Any number of callers, and no settle phase.  A row that a write enables *)
(* behind a phase's last plan comes with a request for another generation. *)

\* No system runs in Phase::Settle.
Reapless == ~HasSettlePhase

\* Another generation is asked for, or a caller is on its way to ask.
Asked == pending # 0 \/ \E c \in Callers : pc[c] \in {"hooksMore", "enqueue"}

\* In the settle phase.
Reaping == {"settleRun", "settleCommit", "settleDone"}

\* Unless a generation is asked for, the one that runs has seen what every
\* write enabled: if it changes nothing, only the phases to come have rows.
CleanInv ==
    /\ \A c \in Callers : pc[c] \notin Reaping
    /\ ~Asked =>
          /\ "write" \notin unseen
          /\ running = 0 /\ normalClean => dirty = {}
          /\ running # 0 /\ ~changed =>
                /\ phase = "Complete" => dirty \subseteq {"Complete"}
                /\ (\E c \in Callers : pc[c] = "complete") => dirty = {}

\* The first generation is asked for when a system registers.
LEMMA CleanInit == Init => CleanInv
BY DEF Init, CleanInv, Asked, Reaping

\* Every critical section that enables rows asks for their generation.
LEMMA CleanStep ==
  ASSUME Undropped, Reapless, ControlInv, DriverInv, CleanInv, [Next]_vars
  PROVE  CleanInv'
<1>0. /\ Undropped /\ Reapless /\ TaskType /\ RunType /\ SingleFlight /\ DriverRuns
      /\ DriverInv /\ CleanInv /\ dirty \subseteq NormalPhases
      /\ GetOrInsert(pending, next) # 0
  BY DEF ControlInv, TypeOK, PcInv, WorldType, GenerationOrder, GetOrInsert, GenType
<1>Asks. ASSUME pending' # 0 \/ \E c \in Callers : pc'[c] \in {"hooksMore", "enqueue"},
                \A d \in Callers : pc'[d] = pc[d] \/ pc'[d] \notin Reaping
         PROVE  CleanInv'
  BY <1>0, <1>Asks DEF CleanInv, Asked
<1>Frame. ASSUME UNCHANGED <<running, normalClean, changed, phase>>, dirty' \subseteq dirty,
                 "write" \in unseen' => "write" \in unseen,
                 pending' = pending \/ pending' = GetOrInsert(pending, next),
                 \A d \in Callers :
                     \/ pc'[d] = pc[d]
                     \/ /\ pc[d] \notin {"hooksMore", "enqueue"}
                        /\ pc'[d] \notin Reaping \cup {"complete"}
          PROVE  CleanInv'
  <2>1. (Asked => Asked') /\ \A d \in Callers : pc'[d] \notin Reaping
    BY <1>0, <1>Frame DEF CleanInv, Asked
  <2>2. \A d \in Callers : pc'[d] = "complete" => pc[d] = "complete"
    BY <1>Frame
  <2> QED BY <1>0, <1>Frame, <2>1, <2>2 DEF CleanInv
<1> USE DEF Reaping
<1>CallSettle. ASSUME NEW c \in Callers, CallSettle(c) PROVE CleanInv'
  BY <1>0, <1>CallSettle, <1>Frame DEF CallSettle, Goto, TaskType
<1>CallTake. ASSUME NEW c \in Callers, CallTake(c) PROVE CleanInv'
  BY <1>0, <1>CallTake, <1>Frame DEF CallTake, Goto, TaskType
<1>FastPath. ASSUME NEW c \in Callers, FastPath(c) PROVE CleanInv'
  BY <1>0, <1>FastPath, <1>Frame DEF FastPath, Goto, TaskType
<1>EnterEpoch. ASSUME NEW c \in Callers, EnterEpoch(c) PROVE CleanInv'
  BY <1>0, <1>EnterEpoch, <1>Frame DEF EnterEpoch, Goto, TaskType
<1>BoundaryPromote. ASSUME NEW c \in Callers, BoundaryPromote(c) PROVE CleanInv'
  BY <1>0, <1>BoundaryPromote, <1>Frame DEF BoundaryPromote, Promote, Goto, TaskType
<1>BoundaryReturn. ASSUME NEW c \in Callers, BoundaryReturn(c) PROVE CleanInv'
  BY <1>0, <1>BoundaryReturn, <1>Frame DEF BoundaryReturn, Goto, TaskType
<1>PickTarget. ASSUME NEW c \in Callers, PickTarget(c) PROVE CleanInv'
  BY <1>0, <1>PickTarget, <1>Frame DEF PickTarget, Goto, TaskType
<1>CheckClean. ASSUME NEW c \in Callers, CheckClean(c) PROVE CleanInv'
  BY <1>0, <1>CheckClean, <1>Frame DEF CheckClean, Goto, TaskType
<1>Enqueue. ASSUME NEW c \in Callers, Enqueue(c) PROVE CleanInv'
  <2>1. pending' # 0
    BY <1>0, <1>Enqueue DEF Enqueue
  <2> QED BY <1>0, <1>Enqueue, <2>1, <1>Asks DEF Enqueue, Goto, TaskType
<1>Heal. ASSUME NEW c \in Callers, Heal(c) PROVE CleanInv'
  <2>1. pc'[c] = "enqueue"
    BY <1>0, <1>Heal DEF Heal, Goto, TaskType
  <2> QED BY <1>0, <1>Heal, <2>1, <1>Asks DEF Heal, Goto, TaskType
<1>NothingToHeal. ASSUME NEW c \in Callers, NothingToHeal(c) PROVE CleanInv'
  BY <1>0, <1>NothingToHeal, <1>Frame DEF NothingToHeal, Goto, TaskType
<1>HooksTake. ASSUME NEW c \in Callers, HooksTake(c) PROVE CleanInv'
  BY <1>0, <1>HooksTake, <1>Frame DEF HooksTake, Goto, TaskType
<1>HooksCommit. ASSUME NEW c \in Callers, HooksCommit(c) PROVE CleanInv'
  <2>1. CASE Goto(c, "hooksDone") /\ UNCHANGED <<dirty, runVars>>
    BY <1>0, <1>HooksCommit, <2>1, <1>Frame DEF HooksCommit, Goto, TaskType
  <2>2. CASE Goto(c, "hooksMore")
    <3>1. pc'[c] = "hooksMore"
      BY <1>0, <2>2 DEF Goto, TaskType
    <3> QED BY <1>0, <2>2, <3>1, <1>Asks DEF Goto, TaskType
  <2> QED BY <1>HooksCommit, <2>1, <2>2 DEF HooksCommit
<1>HooksRestore. ASSUME NEW c \in Callers, HooksRestore(c) PROVE CleanInv'
  <2>1. CASE pc[c] = "hooksMore"
    <3>1. pc'[c] = "enqueue"
      BY <1>0, <1>HooksRestore, <2>1 DEF HooksRestore, Goto, TaskType
    <3> QED BY <1>0, <1>HooksRestore, <3>1, <1>Asks DEF HooksRestore, Goto, TaskType
  <2>2. CASE pc[c] = "hooksDone"
    BY <1>0, <1>HooksRestore, <2>2, <1>Frame DEF HooksRestore, Goto, TaskType
  <2> QED BY <1>HooksRestore, <2>1, <2>2 DEF HooksRestore
<1>SettleTake. ASSUME NEW c \in Callers, SettleTake(c) PROVE CleanInv'
  BY <1>0, <1>SettleTake, <1>Frame DEF SettleTake, Reapless, Goto, TaskType
<1>SettlePlan. ASSUME NEW c \in Callers, SettlePlan(c) PROVE CleanInv'
  BY <1>0, <1>SettlePlan DEF SettlePlan, CleanInv, Reaping
<1>SettleCommit. ASSUME NEW c \in Callers, SettleCommit(c) PROVE CleanInv'
  BY <1>0, <1>SettleCommit DEF SettleCommit, CleanInv, Reaping
<1>SettleRestore. ASSUME NEW c \in Callers, SettleRestore(c) PROVE CleanInv'
  BY <1>0, <1>SettleRestore DEF SettleRestore, CleanInv, Reaping
<1>Followup. ASSUME NEW c \in Callers, Followup(c) PROVE CleanInv'
  BY <1>0, <1>Followup, <1>Frame DEF Followup, Goto, TaskType
<1>PublishPromote. ASSUME NEW c \in Callers, PublishPromote(c) PROVE CleanInv'
  BY <1>0, <1>PublishPromote, <1>Frame DEF PublishPromote, Promote, Goto, TaskType
<1>Publish. ASSUME NEW c \in Callers, Publish(c) PROVE CleanInv'
  BY <1>0, <1>Publish, <1>Frame DEF Publish, Goto, TaskType
<1>ExitEpoch. ASSUME NEW c \in Callers, ExitEpoch(c) PROVE CleanInv'
  BY <1>0, <1>ExitEpoch, <1>Frame DEF ExitEpoch, LeaveEpoch, Promote, Goto, TaskType
<1>Read. ASSUME NEW c \in Callers, Read(c) PROVE CleanInv'
  BY <1>0, <1>Read, <1>Frame DEF Read, Goto, TaskType
<1>ForEach. ASSUME NEW c \in Callers, ForEach(c) PROVE CleanInv'
  <2>1. pending' # 0
    BY <1>0, <1>ForEach DEF ForEach
  <2> QED BY <1>0, <1>ForEach, <2>1, <1>Asks DEF ForEach, Goto, TaskType
<1>Take. ASSUME NEW c \in Callers, Take(c) PROVE CleanInv'
  <2>1. "write" \in unseen' => "write" \in unseen
    BY <1>Take DEF Take, BehindDriver, Moved
  <2> QED
    BY <1>0, <1>Take, <2>1, <1>Frame DEF Take, RemoveFromWorld, BehindDriver, Goto,
       TaskType
<1>Ensure. ASSUME NEW c \in Callers, Ensure(c) PROVE CleanInv'
  BY <1>0, <1>Ensure, <1>Frame DEF Ensure, Goto, TaskType
<1>TryRunner. ASSUME NEW c \in Callers, TryRunner(c) PROVE CleanInv'
  BY <1>0, <1>TryRunner, <1>Frame DEF TryRunner, Goto, TaskType
<1>WaitGeneration. ASSUME NEW c \in Callers, WaitGeneration(c) PROVE CleanInv'
  BY <1>0, <1>WaitGeneration, <1>Frame DEF WaitGeneration, Goto, TaskType
<1>StartEvaluation. ASSUME NEW c \in Callers, StartEvaluation(c) PROVE CleanInv'
  <2>1. /\ running' # 0 /\ phase' # "Complete" /\ unseen' = {}
        /\ pc' = [pc EXCEPT ![c] = "phase"]
    BY <1>0, <1>StartEvaluation DEF StartEvaluation, AdvanceGeneration, Goto
  <2>2. \A d \in Callers : pc'[d] # "complete"
    BY <1>0, <1>StartEvaluation, <2>1 DEF StartEvaluation, SingleFlight, Driving, TaskType
  <2>3. \A d \in Callers : pc'[d] \notin Reaping
    BY <1>0, <2>1 DEF CleanInv, Reaping, TaskType
  <2> QED BY <2>1, <2>2, <2>3 DEF CleanInv
<1>NothingPending. ASSUME NEW c \in Callers, NothingPending(c) PROVE CleanInv'
  BY <1>0, <1>NothingPending, <1>Frame DEF NothingPending, Goto, TaskType
<1>QuietCommit. ASSUME NEW c \in Callers, QuietCommit(c) PROVE CleanInv'
  BY <1>0, <1>QuietCommit, <1>Frame DEF QuietCommit
<1>LoudCommit. ASSUME NEW c \in Callers, LoudCommit(c) PROVE CleanInv'
  <2>1. /\ changed' /\ running # 0 /\ UNCHANGED <<running, pc>> /\ "write" \notin unseen'
    BY <1>0, <1>LoudCommit DEF LoudCommit, Moved, DriverRuns, Evaluating
  <2> QED BY <1>0, <2>1 DEF CleanInv
<1>PhaseDone. ASSUME NEW c \in Callers, PhaseDone(c) PROVE CleanInv'
  <2>1. /\ pc[c] = "phase" /\ running # 0 /\ unseen' = {} /\ phase' = NextPhase(phase)
        /\ UNCHANGED <<running, pending, dirty, changed>>
        /\ pc' = [pc EXCEPT ![c] = IF phase = "Complete" THEN "complete" ELSE "phase"]
    BY <1>0, <1>PhaseDone DEF PhaseDone, Goto, DriverRuns, Evaluating
  <2>2. (Asked <=> Asked') /\ \A d \in Callers : pc'[d] \notin Reaping
    BY <1>0, <2>1 DEF Asked, CleanInv, Reaping, TaskType
  <2>3. ~Asked => phase \notin dirty
    BY <1>0, <1>PhaseDone DEF PhaseDone, Converged, CleanInv
  <2>4. ~Asked /\ phase' = "Complete" /\ ~changed => dirty \subseteq {"Complete"}
    BY <1>0, <2>1, <2>3 DEF CleanInv, NextPhase, NormalPhases, RunType, Phases
  <2>5. ~Asked /\ ~changed /\ (\E d \in Callers : pc'[d] = "complete") => dirty = {}
    BY <1>0, <2>1, <2>3 DEF CleanInv, TaskType
  <2> QED BY <2>1, <2>2, <2>4, <2>5 DEF CleanInv
<1>Preempt. ASSUME NEW c \in Callers, Preempt(c) PROVE CleanInv'
  BY <1>0, <1>Preempt, <1>Frame DEF Preempt, Goto, TaskType
<1>OpenWindow. ASSUME NEW c \in Callers, OpenWindow(c) PROVE CleanInv'
  BY <1>0, <1>OpenWindow, <1>Frame DEF OpenWindow, Goto, TaskType
<1>WindowDrained. ASSUME NEW c \in Callers, WindowDrained(c) PROVE CleanInv'
  BY <1>0, <1>WindowDrained, <1>Frame DEF WindowDrained, Goto, TaskType
<1>CloseWindow. ASSUME NEW c \in Callers, CloseWindow(c) PROVE CleanInv'
  <2>1. /\ pc[c] = "closeWindow" /\ running # 0 /\ unseen' = {} /\ phase' = "Startup"
        /\ UNCHANGED <<running, pending, dirty, changed>>
        /\ pc' = [pc EXCEPT ![c] = "phase"]
    BY <1>0, <1>CloseWindow DEF CloseWindow, Goto, DriverRuns, Evaluating
  <2>2. (Asked <=> Asked') /\ \A d \in Callers : pc'[d] \notin Reaping
    BY <1>0, <2>1 DEF Asked, CleanInv, Reaping, TaskType
  <2>3. \A d \in Callers : pc'[d] = "complete" => pc[d] = "complete"
    BY <1>0, <2>1 DEF TaskType
  <2> QED BY <1>0, <2>1, <2>2, <2>3 DEF CleanInv
<1>CompleteGeneration. ASSUME NEW c \in Callers, CompleteGeneration(c) PROVE CleanInv'
  <2>1. /\ pc[c] = "complete" /\ running # 0 /\ running' = 0 /\ unseen' = {}
        /\ normalClean' = ~changed /\ UNCHANGED <<pending, dirty>>
    BY <1>0, <1>CompleteGeneration DEF CompleteGeneration, EndEvaluation, DriverRuns
  <2>2. \A d \in Callers : pc'[d] = pc[d] \/ pc'[d] \in {"release", "ensure"}
    BY <1>0, <1>CompleteGeneration DEF CompleteGeneration, WakeUpTo, TaskType
  <2>3. Asked => Asked'
    BY <1>0, <1>CompleteGeneration, <2>1 DEF CompleteGeneration, WakeUpTo, Asked, TaskType
  <2>4. \A d \in Callers : pc'[d] \notin Reaping
    BY <1>0, <2>2 DEF CleanInv, Reaping
  <2> QED BY <1>0, <2>1, <2>3, <2>4 DEF CleanInv
<1>ReleaseRunner. ASSUME NEW c \in Callers, ReleaseRunner(c) PROVE CleanInv'
  BY <1>0, <1>ReleaseRunner, <1>Frame DEF ReleaseRunner, Goto, TaskType
<1>Cancel. ASSUME NEW c \in Callers, Cancel(c) PROVE CleanInv'
  BY <1>0, <1>Cancel, BoundsAssumption DEF Cancel, Undropped, DriverInv, NoDrops
<1>DropEvaluation. ASSUME NEW c \in Callers, DropEvaluation(c) PROVE CleanInv'
  BY <1>0, <1>DropEvaluation DEF DropEvaluation, DriverInv, NoDrops, Dropped
<1>DropRunner. ASSUME NEW c \in Callers, DropRunner(c) PROVE CleanInv'
  BY <1>0, <1>DropRunner DEF DropRunner, DriverInv, NoDrops, Dropped
<1>DropEpoch. ASSUME NEW c \in Callers, DropEpoch(c) PROVE CleanInv'
  BY <1>0, <1>DropEpoch DEF DropEpoch, DriverInv, NoDrops, Dropped
<1>InsertIdle. ASSUME NEW w \in Writers, InsertIdle(w) PROVE CleanInv'
  BY <1>0, <1>InsertIdle, <1>Frame DEF InsertIdle
<1>InsertDeferred. ASSUME NEW w \in Writers, InsertDeferred(w) PROVE CleanInv'
  BY <1>0, <1>InsertDeferred, <1>Frame DEF InsertDeferred
<1>InsertPreempting. ASSUME NEW w \in Writers, InsertPreempting(w) PROVE CleanInv'
  BY <1>0, <1>InsertPreempting, <1>Frame DEF InsertPreempting
<1>BeginMut. ASSUME NEW w \in Writers, BeginMut(w) PROVE CleanInv'
  BY <1>0, <1>BeginMut, <1>Frame DEF BeginMut
<1>PreemptingInsertLands. ASSUME NEW w \in Writers, PreemptingInsertLands(w) PROVE CleanInv'
  BY <1>0, <1>PreemptingInsertLands, <1>Frame DEF PreemptingInsertLands, AtBoundary
<1>MutLands. ASSUME NEW w \in Writers, MutLands(w) PROVE CleanInv'
  <2>1. CASE UNCHANGED <<dirty, normalClean, pending>>
    BY <1>0, <1>MutLands, <2>1, <1>Frame DEF MutLands, AtBoundary
  <2>2. CASE pending' = GetOrInsert(pending, next)
    BY <1>0, <1>MutLands, <2>2, <1>Asks DEF MutLands, AtBoundary, CleanInv, Reaping
  <2> QED BY <1>MutLands, <2>1, <2>2 DEF MutLands
<1>AwaitBoundary. ASSUME NEW w \in Writers, AwaitBoundary(w) PROVE CleanInv'
  BY <1>0, <1>AwaitBoundary, <1>Frame DEF AwaitBoundary
<1>MutStale. ASSUME NEW w \in Writers, MutStale(w) PROVE CleanInv'
  BY <1>0, <1>MutStale, <1>Frame DEF MutStale
<1>MutBusy. ASSUME NEW w \in Writers, MutBusy(w) PROVE CleanInv'
  BY <1>0, <1>MutBusy, <1>Frame DEF MutBusy
<1>CancelWriter. ASSUME NEW w \in Writers, CancelWriter(w) PROVE CleanInv'
  BY <1>0, <1>CancelWriter, <1>Frame DEF CancelWriter
<1>Stutter. CASE UNCHANGED vars
  BY <1>0, <1>Stutter, <1>Frame
<1> QED
  BY <1>CallSettle, <1>CallTake, <1>FastPath, <1>EnterEpoch, <1>BoundaryPromote,
     <1>BoundaryReturn, <1>PickTarget, <1>CheckClean, <1>Enqueue, <1>Heal,
     <1>NothingToHeal, <1>HooksTake, <1>HooksCommit, <1>HooksRestore, <1>SettleTake,
     <1>SettlePlan, <1>SettleCommit, <1>SettleRestore, <1>Followup,
     <1>PublishPromote, <1>Publish, <1>ExitEpoch, <1>Read, <1>ForEach, <1>Take,
     <1>Ensure, <1>TryRunner, <1>WaitGeneration, <1>StartEvaluation,
     <1>NothingPending, <1>QuietCommit, <1>LoudCommit, <1>PhaseDone, <1>Preempt,
     <1>OpenWindow, <1>WindowDrained, <1>CloseWindow, <1>CompleteGeneration,
     <1>ReleaseRunner, <1>Cancel, <1>DropEvaluation, <1>DropRunner, <1>DropEpoch,
     <1>InsertIdle, <1>InsertDeferred, <1>InsertPreempting, <1>BeginMut,
     <1>PreemptingInsertLands, <1>MutLands, <1>AwaitBoundary, <1>MutStale,
     <1>MutBusy, <1>CancelWriter, <1>Stutter
     DEF Next, CallerStep, SettleStep, DriveStep, DropStep, WriterStep, Finished,
         OutOfBounds

\* A bowl that takes its last generation for clean has no runnable row that a
\* write enabled, or a caller is on its way to ask for the next generation:
\* for any number of overlapping settles, takes and in-place writers, as long
\* as no system runs in the settle phase (complete_generation, for_each).
THEOREM CleanGenerations ==
  ASSUME Undropped, Reapless
  PROVE  Spec => []CleanIsFixpoint
<1> DEFINE Inv == ControlInv /\ DriverInv /\ CleanInv
<1>1. Init => Inv
  BY ControlInit, DriverInit, CleanInit
<1>2. Inv /\ [Next]_vars => Inv'
  BY Undropped, Reapless, ControlStep, DriverStep, CleanStep
<1>3. Inv => CleanIsFixpoint
  BY DEF CleanInv, Asked, CleanIsFixpoint
<1> QED BY <1>1, <1>2, <1>3, PTL DEF Spec

-----------------------------------------------------------------------------
(* One caller.  A settle publishes without looking again, so another caller *)
(* that writes, heals or drives in between invalidates what it found.       *)

\* Where a settle has found a clean generation and relies on it ...
Calm ==
    {"heal", "hooks", "hooksRun", "hooksDone", "settle", "settleRun", "settleCommit", "publish"}

\* ... and where it has not published yet.
Finishing == Calm \cup {"hooksMore", "settleDone", "healAgain", "followup"}

\* The world moved since it was last published as settled.
Ahead == settledRev < revision

\* What the caller knows of the runnable rows: between generations a row is
\* left only if the settle goes round again, and within a generation that
\* changed nothing only in the phases that are still to come.
FixAt(c) ==
    /\ pc[c] \in Finishing => Ahead
    /\ pc[c] \in {"settleRun", "settleCommit", "settleDone"} => revBefore[c] <= revision
    /\ pending = 0 /\ dirty # {} =>
          /\ running = 0 => ~normalClean \/ pc[c] \in {"hooksMore", "enqueue"}
          /\ pc[c] \notin Calm
          /\ pc[c] = "settleDone" => ~normalClean /\ revision # revBefore[c]
          /\ pc[c] \in {"healAgain", "followup"} => ~normalClean
    /\ running # 0 /\ pending = 0 /\ ~changed =>
          /\ phase = "Complete" => dirty \subseteq {"Complete"}
          /\ pc[c] = "complete" => dirty = {}

FixInv ==
    /\ settledRev <= revision
    /\ "write" \notin unseen /\ (unseen # {} => running # 0 /\ changed)
    /\ running = 0 /\ pending = 0 /\ dirty # {} => Ahead
    /\ running # 0 /\ changed => Ahead
    /\ \A c \in Callers : FixAt(c)

\* An empty world is settled once the first generation ran.
LEMMA FixInit == Init => FixInv
BY DEF Init, FixInv, FixAt, Calm, Finishing

\* Every critical section of the caller, and every writer, keeps the rows it
\* enables in front of a generation.
LEMMA FixStep ==
  ASSUME Alone, Undropped, ControlInv, DriverInv, FixInv, [Next]_vars
  PROVE  FixInv'
<1>0. /\ Alone /\ Undropped /\ GenType /\ SettleType /\ RunType /\ WorldType /\ TaskType
      /\ DriverInv /\ FixInv /\ revision \in Nat /\ settledRev \in Nat
      /\ dirty \subseteq NormalPhases
      /\ GetOrInsert(pending, next) # 0
  BY DEF ControlInv, TypeOK, GenerationOrder, GetOrInsert, GenType, SettleType,
     WorldType
<1>Idle. ASSUME NEW c \in Callers
         PROVE  running = 0 <=> pc[c] \notin Live
  BY <1>Idle DEF Alone, DriverInv, RunnerRuns, ControlInv, PcInv, DriverRuns, Live
<1>One. ASSUME NEW c \in Callers, FixAt(c)', settledRev' <= revision', "write" \notin unseen',
               unseen' # {} => running' # 0 /\ changed',
               running' = 0 /\ pending' = 0 /\ dirty' # {} => Ahead',
               running' # 0 /\ changed' => Ahead'
        PROVE  FixInv'
  BY <1>One DEF FixInv, Alone
<1>Still. ASSUME UNCHANGED <<settledRev, revision, unseen, running, pending, dirty, changed,
                             pc, revBefore, normalClean, phase>>
          PROVE  FixInv'
  BY <1>0, <1>Still DEF FixInv, FixAt, Ahead
<1>Asked. ASSUME UNCHANGED <<settledRev, revision, unseen, running, dirty, changed, pc,
                             revBefore, normalClean, phase>>,
                 pending' = GetOrInsert(pending, next)
          PROVE  FixInv'
  BY <1>0, <1>Asked DEF FixInv, FixAt, Ahead
<1>CallSettle. ASSUME NEW c \in Callers, CallSettle(c) PROVE FixInv'
  BY <1>0, <1>CallSettle, <1>Idle, <1>One DEF CallSettle, Goto, FixInv, FixAt, Ahead,
     Calm, Finishing, Live, Evaluating, TaskType
<1>CallTake. ASSUME NEW c \in Callers, CallTake(c) PROVE FixInv'
  BY <1>0, <1>CallTake, <1>Idle, <1>One DEF CallTake, Goto, FixInv, FixAt, Ahead,
     Calm, Finishing, Live, Evaluating, TaskType
<1>FastPath. ASSUME NEW c \in Callers, FastPath(c) PROVE FixInv'
  BY <1>0, <1>FastPath, <1>Idle, <1>One DEF FastPath, Goto, FixInv, FixAt, Ahead,
     Calm, Finishing, Live, Evaluating, TaskType
<1>EnterEpoch. ASSUME NEW c \in Callers, EnterEpoch(c) PROVE FixInv'
  BY <1>0, <1>EnterEpoch, <1>Idle, <1>One DEF EnterEpoch, Goto, FixInv, FixAt, Ahead,
     Calm, Finishing, Live, Evaluating, TaskType
<1>BoundaryPromote. ASSUME NEW c \in Callers, BoundaryPromote(c) PROVE FixInv'
  BY <1>0, <1>BoundaryPromote, <1>Idle, <1>One DEF BoundaryPromote, Goto, Promote,
     Quiescent, FixInv, FixAt, Ahead, Calm, Finishing, Live, Evaluating, TaskType
<1>BoundaryReturn. ASSUME NEW c \in Callers, BoundaryReturn(c) PROVE FixInv'
  BY <1>0, <1>BoundaryReturn, <1>Idle, <1>One DEF BoundaryReturn, Goto, Quiescent,
     FixInv, FixAt, Ahead, Calm, Finishing, Live, Evaluating, TaskType
<1>PickTarget. ASSUME NEW c \in Callers, PickTarget(c) PROVE FixInv'
  BY <1>0, <1>PickTarget, <1>Idle, <1>One DEF PickTarget, Goto, FixInv, FixAt, Ahead,
     Calm, Finishing, Live, Evaluating, TaskType
<1>CheckClean. ASSUME NEW c \in Callers, CheckClean(c) PROVE FixInv'
  BY <1>0, <1>CheckClean, <1>Idle, <1>One DEF CheckClean, Goto, Quiescent, WorldType,
     SettleType, FixInv, FixAt, Ahead, Calm, Finishing, Live, Evaluating, TaskType
<1>Enqueue. ASSUME NEW c \in Callers, Enqueue(c) PROVE FixInv'
  BY <1>0, <1>Enqueue, <1>Idle, <1>One DEF Enqueue, Goto, Quiescent, FixInv, FixAt,
     Ahead, Calm, Finishing, Live, Evaluating, TaskType
<1>Heal. ASSUME NEW c \in Callers, Heal(c) PROVE FixInv'
  BY <1>0, <1>Heal, <1>Idle, <1>One DEF Heal, Goto, BehindDriver, RunType, FixInv,
     FixAt, Ahead, Calm, Finishing, Live, Evaluating, TaskType
<1>NothingToHeal. ASSUME NEW c \in Callers, NothingToHeal(c) PROVE FixInv'
  BY <1>0, <1>NothingToHeal, <1>Idle, <1>One DEF NothingToHeal, Goto, FixInv, FixAt,
     Ahead, Calm, Finishing, Live, Evaluating, TaskType
<1>HooksTake. ASSUME NEW c \in Callers, HooksTake(c) PROVE FixInv'
  BY <1>0, <1>HooksTake, <1>Idle, <1>One DEF HooksTake, Goto, FixInv, FixAt, Ahead,
     Calm, Finishing, Live, Evaluating, TaskType
<1>HooksCommit. ASSUME NEW c \in Callers, HooksCommit(c) PROVE FixInv'
  <2>1. /\ pc[c] = "hooksRun" /\ running = 0 /\ Ahead /\ unseen = {}
        /\ UNCHANGED <<running, pending, settledRev, normalClean, revBefore>>
    BY <1>0, <1>HooksCommit, <1>Idle DEF HooksCommit, FixInv, FixAt, Calm, Finishing,
       Live, Evaluating
  <2>2. CASE UNCHANGED <<revision, dirty, runVars>> /\ Goto(c, "hooksDone")
    BY <1>0, <2>1, <2>2, <1>One DEF Goto, FixInv, FixAt, Ahead, Calm, Finishing,
       TaskType
  <2>3. CASE MoveWorld /\ BehindDriver(Moved("write")) /\ Goto(c, "hooksMore")
    <3>1. /\ running' = 0 /\ unseen' = {} /\ revision' = revision + 1
          /\ pc'[c] = "hooksMore"
      BY <1>0, <2>1, <2>3 DEF MoveWorld, MoveStores, BehindDriver, Goto, TaskType
    <3>2. Ahead' /\ settledRev' <= revision'
      BY <1>0, <2>1, <3>1 DEF Ahead
    <3> QED BY <3>1, <3>2, <1>One DEF FixAt, Calm, Finishing
  <2> QED BY <1>HooksCommit, <2>2, <2>3 DEF HooksCommit
<1>HooksRestore. ASSUME NEW c \in Callers, HooksRestore(c) PROVE FixInv'
  BY <1>0, <1>HooksRestore, <1>Idle, <1>One DEF HooksRestore, Goto, FixInv, FixAt,
     Ahead, Calm, Finishing, Live, Evaluating, TaskType
<1>SettleTake. ASSUME NEW c \in Callers, SettleTake(c) PROVE FixInv'
  BY <1>0, <1>SettleTake, <1>Idle, <1>One DEF SettleTake, Goto, Set, FixInv, FixAt,
     Ahead, Calm, Finishing, Live, Evaluating, TaskType
<1>SettlePlan. ASSUME NEW c \in Callers, SettlePlan(c) PROVE FixInv'
  BY <1>0, <1>SettlePlan, <1>Idle, <1>One DEF SettlePlan, Goto, FixInv, FixAt, Ahead,
     Calm, Finishing, Live, Evaluating, TaskType
<1>SettleCommit. ASSUME NEW c \in Callers, SettleCommit(c) PROVE FixInv'
  <2>1. /\ pc[c] = "settleCommit" /\ running = 0 /\ Ahead /\ unseen = {}
        /\ revBefore[c] \in Nat /\ revBefore[c] <= revision
        /\ pending = 0 => dirty = {}
        /\ UNCHANGED <<running, pending, settledRev, revBefore>> /\ pc'[c] = "settleDone"
    BY <1>0, <1>SettleCommit, <1>Idle DEF SettleCommit, Goto, FixInv, FixAt, Calm,
       Finishing, Live, Evaluating, TaskType
  <2>2. CASE UNCHANGED <<revision, dirty, normalClean, runVars>>
    BY <1>0, <2>1, <2>2, <1>One DEF FixAt, Ahead, Calm, Finishing
  <2>3. CASE \/ MoveWorld /\ BehindDriver(Moved("write")) /\ normalClean' = FALSE
             \/ RemoveFromWorld /\ BehindDriver(Moved("removal")) /\ UNCHANGED normalClean
    <3>0. /\ revision' = revision + 1 /\ UNCHANGED unseen
          /\ normalClean' = FALSE \/ UNCHANGED <<normalClean, dirty>>
      BY <2>1, <2>3 DEF MoveWorld, RemoveFromWorld, MoveStores, BehindDriver
    <3>1. running' = 0 /\ unseen' = {}
      BY <2>1, <3>0
    <3>2. /\ Ahead' /\ settledRev' <= revision'
          /\ revision' # revBefore'[c] /\ revBefore'[c] <= revision'
      BY <1>0, <2>1, <3>0 DEF Ahead
    <3>3. pending' = 0 /\ dirty' # {} => ~normalClean'
      BY <2>1, <3>0
    <3> QED BY <2>1, <3>1, <3>2, <3>3, <1>One DEF FixAt, Calm, Finishing
  <2> QED BY <1>SettleCommit, <2>2, <2>3 DEF SettleCommit
<1>SettleRestore. ASSUME NEW c \in Callers, SettleRestore(c) PROVE FixInv'
  BY <1>0, <1>SettleRestore, <1>Idle, <1>One DEF SettleRestore, Goto, Set, FixInv,
     FixAt, Ahead, Calm, Finishing, Live, Evaluating, TaskType
<1>Followup. ASSUME NEW c \in Callers, Followup(c) PROVE FixInv'
  BY <1>0, <1>Followup, <1>Idle, <1>One DEF Followup, Goto, FixInv, FixAt, Ahead,
     Calm, Finishing, Live, Evaluating, TaskType
<1>PublishPromote. ASSUME NEW c \in Callers, PublishPromote(c) PROVE FixInv'
  BY <1>0, <1>PublishPromote, <1>Idle, <1>One DEF PublishPromote, Goto, Promote,
     Quiescent, FixInv, FixAt, Ahead, Calm, Finishing, Live, Evaluating, TaskType
<1>Publish. ASSUME NEW c \in Callers, Publish(c) PROVE FixInv'
  BY <1>0, <1>Publish, <1>Idle, <1>One DEF Publish, Goto, WorldType, SettleType,
     FixInv, FixAt, Ahead, Calm, Finishing, Live, Evaluating, TaskType
<1>ExitEpoch. ASSUME NEW c \in Callers, ExitEpoch(c) PROVE FixInv'
  BY <1>0, <1>ExitEpoch, <1>Idle, <1>One DEF ExitEpoch, Goto, LeaveEpoch, Promote,
     FixInv, FixAt, Ahead, Calm, Finishing, Live, Evaluating, TaskType
<1>Read. ASSUME NEW c \in Callers, Read(c) PROVE FixInv'
  BY <1>0, <1>Read, <1>Idle, <1>One DEF Read, Goto, FixInv, FixAt, Ahead, Calm,
     Finishing, Live, Evaluating, TaskType
<1>ForEach. ASSUME NEW c \in Callers, ForEach(c) PROVE FixInv'
  BY <1>0, <1>ForEach, <1>Idle, <1>One DEF ForEach, Goto, BehindDriver, MoveWorld,
     MoveStores, RunType, WorldType, SettleType, FixInv, FixAt, Ahead, Calm, Finishing, Live,
     Evaluating, TaskType
<1>Take. ASSUME NEW c \in Callers, Take(c) PROVE FixInv'
  <2>1. running = 0 /\ pc'[c] = "idle" /\ unseen = {} /\ settledRev <= revision
    BY <1>0, <1>Take, <1>Idle DEF Take, Goto, FixInv, Live, Evaluating, TaskType
  <2>2. /\ revision' = revision + 1
        /\ UNCHANGED <<running, pending, dirty, changed, unseen, normalClean>>
    BY <1>Take, <2>1 DEF Take, RemoveFromWorld, MoveStores, BehindDriver
  <2>3. settledRev' = IF Quiescent THEN revision + 1 ELSE settledRev
    BY <1>Take DEF Take
  <2>4. settledRev' <= revision' /\ (pending' = 0 /\ dirty' # {} => Ahead')
    BY <1>0, <2>1, <2>2, <2>3 DEF Quiescent, FixInv, Ahead
  <2>5. pending' = 0 /\ dirty' # {} => ~normalClean'
    BY <1>0, <1>Take, <2>1, <2>2 DEF Take, FixInv, FixAt
  <2> QED BY <2>1, <2>2, <2>4, <2>5, <1>One DEF FixAt, Calm, Finishing
<1>Ensure. ASSUME NEW c \in Callers, Ensure(c) PROVE FixInv'
  BY <1>0, <1>Ensure, <1>Idle, <1>One DEF Ensure, Goto, FixInv, FixAt, Ahead, Calm,
     Finishing, Live, Evaluating, TaskType
<1>TryRunner. ASSUME NEW c \in Callers, TryRunner(c) PROVE FixInv'
  BY <1>0, <1>TryRunner, <1>Idle, <1>One DEF TryRunner, Goto, FixInv, FixAt, Ahead,
     Calm, Finishing, Live, Evaluating, TaskType
<1>WaitGeneration. ASSUME NEW c \in Callers, WaitGeneration(c) PROVE FixInv'
  BY <1>0, <1>WaitGeneration, <1>Idle, <1>One DEF WaitGeneration, Goto, FixInv, FixAt,
     Ahead, Calm, Finishing, Live, Evaluating, TaskType
<1>StartEvaluation. ASSUME NEW c \in Callers, StartEvaluation(c) PROVE FixInv'
  <2>1. /\ pc'[c] = "phase" /\ running' # 0 /\ ~changed' /\ unseen' = {}
        /\ phase' # "Complete" /\ settledRev' = settledRev
    BY <1>0, <1>StartEvaluation DEF StartEvaluation, AdvanceGeneration, Goto, TaskType
  <2>2. revision' \in {revision, revision + 1}
    BY <1>StartEvaluation DEF StartEvaluation, MoveWorld, MoveStores
  <2>3. settledRev' <= revision'
    BY <1>0, <2>1, <2>2 DEF FixInv
  <2> QED BY <2>1, <2>3, <1>One DEF FixAt, Calm, Finishing
<1>NothingPending. ASSUME NEW c \in Callers, NothingPending(c) PROVE FixInv'
  BY <1>0, <1>NothingPending, <1>Idle, <1>One DEF NothingPending, Goto, FixInv, FixAt,
     Ahead, Calm, Finishing, Live, Evaluating, TaskType
<1>QuietCommit. ASSUME NEW c \in Callers, QuietCommit(c) PROVE FixInv'
  BY <1>0, <1>QuietCommit, <1>Idle, <1>One DEF QuietCommit, Goto, NormalPhases,
     WorldType, FixInv, FixAt, Ahead, Calm, Finishing, Live, Evaluating, TaskType
<1>LoudCommit. ASSUME NEW c \in Callers, LoudCommit(c) PROVE FixInv'
  BY <1>0, <1>LoudCommit, <1>Idle, <1>One DEF LoudCommit, Moved, Goto, NormalPhases,
     WorldType, SettleType, FixInv, FixAt, Ahead, Calm, Finishing, Live, Evaluating,
     TaskType
<1>PhaseDone. ASSUME NEW c \in Callers, PhaseDone(c) PROVE FixInv'
  <2>1. /\ pc[c] = "phase" /\ running # 0 /\ phase \notin dirty /\ unseen' = {}
        /\ UNCHANGED <<running, pending, dirty, changed, settledRev, revision>>
        /\ phase' = NextPhase(phase)
    BY <1>0, <1>PhaseDone, <1>Idle DEF PhaseDone, Converged, FixInv, Live, Evaluating
  <2>2. CASE phase = "Complete"
    <3>1. pc'[c] = "complete" /\ phase' = "Complete"
      BY <1>0, <1>PhaseDone, <2>1, <2>2 DEF PhaseDone, Goto, NextPhase, TaskType
    <3>2. pending = 0 /\ ~changed => dirty = {}
      BY <1>0, <2>1, <2>2 DEF FixInv, FixAt
    <3> QED BY <1>0, <2>1, <3>1, <3>2, <1>One DEF FixInv, FixAt, Ahead, Calm, Finishing
  <2>3. CASE phase # "Complete"
    <3>1. pc'[c] = "phase" /\ (phase' = "Complete" => phase = "Evaluate")
      BY <1>0, <1>PhaseDone, <2>1, <2>3 DEF PhaseDone, Goto, NextPhase, RunType,
         Phases, TaskType
    <3>2. phase' = "Complete" => dirty \subseteq {"Complete"}
      BY <1>0, <2>1, <3>1 DEF NormalPhases
    <3> QED BY <1>0, <2>1, <3>1, <3>2, <1>One DEF FixInv, FixAt, Ahead, Calm, Finishing
  <2> QED BY <2>2, <2>3
<1>Preempt. ASSUME NEW c \in Callers, Preempt(c) PROVE FixInv'
  BY <1>0, <1>Preempt, <1>Idle, <1>One DEF Preempt, Goto, FixInv, FixAt, Ahead, Calm,
     Finishing, Live, Evaluating, TaskType
<1>OpenWindow. ASSUME NEW c \in Callers, OpenWindow(c) PROVE FixInv'
  BY <1>0, <1>OpenWindow, <1>Idle, <1>One DEF OpenWindow, Goto, FixInv, FixAt, Ahead,
     Calm, Finishing, Live, Evaluating, TaskType
<1>WindowDrained. ASSUME NEW c \in Callers, WindowDrained(c) PROVE FixInv'
  BY <1>0, <1>WindowDrained, <1>Idle, <1>One DEF WindowDrained, Goto, FixInv, FixAt,
     Ahead, Calm, Finishing, Live, Evaluating, TaskType
<1>CloseWindow. ASSUME NEW c \in Callers, CloseWindow(c) PROVE FixInv'
  BY <1>0, <1>CloseWindow, <1>Idle, <1>One DEF CloseWindow, Goto, FixInv, FixAt,
     Ahead, Calm, Finishing, Live, Evaluating, TaskType
<1>CompleteGeneration. ASSUME NEW c \in Callers, CompleteGeneration(c) PROVE FixInv'
  BY <1>0, <1>CompleteGeneration, <1>Idle, <1>One DEF CompleteGeneration, WakeUpTo,
     EndEvaluation, FixInv, FixAt, Ahead, Calm, Finishing, Live, Evaluating, TaskType
<1>ReleaseRunner. ASSUME NEW c \in Callers, ReleaseRunner(c) PROVE FixInv'
  BY <1>0, <1>ReleaseRunner, <1>Idle, <1>One DEF ReleaseRunner, Goto, FixInv, FixAt,
     Ahead, Calm, Finishing, Live, Evaluating, TaskType
<1>Cancel. ASSUME NEW c \in Callers, Cancel(c) PROVE FixInv'
  BY <1>0, <1>Cancel, BoundsAssumption DEF Cancel, Undropped, DriverInv, NoDrops
<1>DropEvaluation. ASSUME NEW c \in Callers, DropEvaluation(c) PROVE FixInv'
  BY <1>0, <1>DropEvaluation DEF DropEvaluation, DriverInv, NoDrops, Dropped
<1>DropRunner. ASSUME NEW c \in Callers, DropRunner(c) PROVE FixInv'
  BY <1>0, <1>DropRunner DEF DropRunner, DriverInv, NoDrops, Dropped
<1>DropEpoch. ASSUME NEW c \in Callers, DropEpoch(c) PROVE FixInv'
  BY <1>0, <1>DropEpoch DEF DropEpoch, DriverInv, NoDrops, Dropped
<1>InsertIdle. ASSUME NEW w \in Writers, InsertIdle(w) PROVE FixInv'
  BY <1>0, <1>InsertIdle, <1>Asked DEF InsertIdle
<1>InsertDeferred. ASSUME NEW w \in Writers, InsertDeferred(w) PROVE FixInv'
  BY <1>InsertDeferred, <1>Still DEF InsertDeferred
<1>InsertPreempting. ASSUME NEW w \in Writers, InsertPreempting(w) PROVE FixInv'
  BY <1>InsertPreempting, <1>Still DEF InsertPreempting
<1>BeginMut. ASSUME NEW w \in Writers, BeginMut(w) PROVE FixInv'
  BY <1>BeginMut, <1>Still DEF BeginMut
<1>PreemptingInsertLands. ASSUME NEW w \in Writers, PreemptingInsertLands(w) PROVE FixInv'
  BY <1>0, <1>PreemptingInsertLands, <1>Asked DEF PreemptingInsertLands, AtBoundary
<1>MutLands. ASSUME NEW w \in Writers, MutLands(w) PROVE FixInv'
  <2>1. CASE UNCHANGED <<revision, dirty, normalClean, pending>>
    BY <1>MutLands, <2>1, <1>Still DEF MutLands, AtBoundary
  <2>2. CASE MoveWorld /\ pending' = GetOrInsert(pending, next)
    BY <1>0, <1>MutLands, <2>2 DEF MutLands, AtBoundary, MoveWorld, MoveStores, FixInv, FixAt,
       Ahead, Calm, Finishing, WorldType, SettleType, TaskType
  <2> QED BY <1>MutLands, <2>1, <2>2 DEF MutLands
<1>AwaitBoundary. ASSUME NEW w \in Writers, AwaitBoundary(w) PROVE FixInv'
  BY <1>AwaitBoundary, <1>Still DEF AwaitBoundary
<1>MutStale. ASSUME NEW w \in Writers, MutStale(w) PROVE FixInv'
  BY <1>MutStale, <1>Still DEF MutStale
<1>MutBusy. ASSUME NEW w \in Writers, MutBusy(w) PROVE FixInv'
  BY <1>MutBusy, <1>Still DEF MutBusy
<1>CancelWriter. ASSUME NEW w \in Writers, CancelWriter(w) PROVE FixInv'
  BY <1>0, <1>CancelWriter, BoundsAssumption DEF CancelWriter, Undropped, DriverInv,
     NoDrops
<1>Stutter. CASE UNCHANGED vars
  BY <1>Stutter, <1>Still
<1> QED
  BY <1>CallSettle, <1>CallTake, <1>FastPath, <1>EnterEpoch, <1>BoundaryPromote,
     <1>BoundaryReturn, <1>PickTarget, <1>CheckClean, <1>Enqueue, <1>Heal,
     <1>NothingToHeal, <1>HooksTake, <1>HooksCommit, <1>HooksRestore, <1>SettleTake,
     <1>SettlePlan, <1>SettleCommit, <1>SettleRestore, <1>Followup,
     <1>PublishPromote, <1>Publish, <1>ExitEpoch, <1>Read, <1>ForEach, <1>Take,
     <1>Ensure, <1>TryRunner, <1>WaitGeneration, <1>StartEvaluation,
     <1>NothingPending, <1>QuietCommit, <1>LoudCommit, <1>PhaseDone, <1>Preempt,
     <1>OpenWindow, <1>WindowDrained, <1>CloseWindow, <1>CompleteGeneration,
     <1>ReleaseRunner, <1>Cancel, <1>DropEvaluation, <1>DropRunner, <1>DropEpoch,
     <1>InsertIdle, <1>InsertDeferred, <1>InsertPreempting, <1>BeginMut,
     <1>PreemptingInsertLands, <1>MutLands, <1>AwaitBoundary, <1>MutStale,
     <1>MutBusy, <1>CancelWriter, <1>Stutter
     DEF Next, CallerStep, SettleStep, DriveStep, DropStep, WriterStep, Finished,
         OutOfBounds

-----------------------------------------------------------------------------
\* Where the caller holds the memo table.
Holding ==
    Live \cup {"hooksRun", "hooksDone", "hooksMore", "settleRun", "settleCommit", "settleDone"}

\* The viewer's memo entry, wherever the table is.
Entry(c) == IF pc[c] \in Holding THEN held[c] ELSE memo

\* The viewer computed in this settle from facts that moved afterwards.
Stale == outEpoch = settleEpoch /\ viewStale

\* Output of this settle has its memo entry, so that healing can find it, or
\* is about to be computed again; and once healing looked, it is not stale.
HealAt(c) ==
    /\ outEpoch = settleEpoch =>
          Entry(c) = outEpoch \/ (Entry(c) = NoEntry /\ "Complete" \in dirty)
    /\ Stale /\ pending = 0 =>
          /\ pc[c] \notin {"hooks", "hooksRun", "hooksDone", "settle", "settleRun",
                           "settleCommit", "publish"}
          /\ pc[c] = "settleDone" => revision # revBefore[c]
          /\ pc[c] = "followup" => ~normalClean

HealInv ==
    /\ outEpoch <= settleEpoch
    /\ ~HasViews => outEpoch = NoEntry
    /\ Stale => Ahead
    /\ \A c \in Callers : HealAt(c)

\* There is no output at first.
LEMMA HealInit == Init => HealInv
BY DEF Init, HealInv, HealAt, Stale, NoEntry

\* Every critical section keeps stale output within the reach of healing.
LEMMA HealStep ==
  ASSUME Alone, Undropped, ControlInv, DriverInv, FixInv, HealInv, [Next]_vars
  PROVE  HealInv'
<1>0. /\ Alone /\ Undropped /\ MemoType /\ TaskType /\ DriverInv /\ FixInv /\ HealInv
      /\ revision \in Nat /\ settledRev \in Nat /\ settledRev <= revision
      /\ settleEpoch \in Nat /\ outEpoch \in Int
      /\ (~HasViews => outEpoch # settleEpoch)
      /\ GetOrInsert(pending, next) # 0
  BY DEF ControlInv, TypeOK, GenerationOrder, GetOrInsert, GenType, SettleType,
     WorldType, HistType, FixInv, HealInv, NoEntry
<1>Idle. ASSUME NEW c \in Callers
         PROVE  running = 0 <=> pc[c] \notin Live
  BY <1>Idle DEF Alone, DriverInv, RunnerRuns, ControlInv, PcInv, DriverRuns, Live
<1>One. ASSUME NEW c \in Callers, HealAt(c)', outEpoch' <= settleEpoch',
               ~HasViews => outEpoch' = NoEntry, Stale' => Ahead'
        PROVE  HealInv'
  BY <1>One DEF HealInv, Alone
<1>Still. ASSUME UNCHANGED <<outEpoch, settleEpoch, viewStale, settledRev, revision, pending,
                             dirty, pc, memo, held, revBefore, normalClean>>
          PROVE  HealInv'
  BY <1>0, <1>Still DEF HealInv, HealAt, Entry, Stale, Ahead
<1>Asked. ASSUME UNCHANGED <<outEpoch, settleEpoch, viewStale, settledRev, revision,
                             dirty, pc, memo, held, revBefore, normalClean>>,
                 pending' = GetOrInsert(pending, next)
          PROVE  HealInv'
  BY <1>0, <1>Asked DEF HealInv, HealAt, Entry, Stale, Ahead
<1>CallSettle. ASSUME NEW c \in Callers, CallSettle(c) PROVE HealInv'
  BY <1>0, <1>CallSettle, <1>Idle, <1>One DEF CallSettle, Goto, HealInv, HealAt,
     Entry, Stale, Ahead, Holding, Live, Evaluating, TaskType
<1>CallTake. ASSUME NEW c \in Callers, CallTake(c) PROVE HealInv'
  BY <1>0, <1>CallTake, <1>Idle, <1>One DEF CallTake, Goto, HealInv, HealAt, Entry,
     Stale, Ahead, Holding, Live, Evaluating, TaskType
<1>FastPath. ASSUME NEW c \in Callers, FastPath(c) PROVE HealInv'
  BY <1>0, <1>FastPath, <1>Idle, <1>One DEF FastPath, Goto, HealInv, HealAt, Entry,
     Stale, Ahead, Holding, Live, Evaluating, TaskType
<1>EnterEpoch. ASSUME NEW c \in Callers, EnterEpoch(c) PROVE HealInv'
  BY <1>0, <1>EnterEpoch, <1>Idle, <1>One DEF EnterEpoch, Goto, HealInv, HealAt,
     Entry, Stale, Ahead, Holding, Live, Evaluating, TaskType
<1>BoundaryPromote. ASSUME NEW c \in Callers, BoundaryPromote(c) PROVE HealInv'
  BY <1>0, <1>BoundaryPromote, <1>Idle, <1>One DEF BoundaryPromote, Goto, Promote,
     HealInv, HealAt, Entry, Stale, Ahead, Holding, Live, Evaluating, TaskType
<1>BoundaryReturn. ASSUME NEW c \in Callers, BoundaryReturn(c) PROVE HealInv'
  BY <1>0, <1>BoundaryReturn, <1>Idle, <1>One DEF BoundaryReturn, Goto, HealInv,
     HealAt, Entry, Stale, Ahead, Holding, Live, Evaluating, TaskType
<1>PickTarget. ASSUME NEW c \in Callers, PickTarget(c) PROVE HealInv'
  BY <1>0, <1>PickTarget, <1>Idle, <1>One DEF PickTarget, Goto, HealInv, HealAt,
     Entry, Stale, Ahead, Holding, Live, Evaluating, TaskType
<1>CheckClean. ASSUME NEW c \in Callers, CheckClean(c) PROVE HealInv'
  BY <1>0, <1>CheckClean, <1>Idle, <1>One DEF CheckClean, Goto, HealInv, HealAt,
     Entry, Stale, Ahead, Holding, Live, Evaluating, TaskType
<1>Enqueue. ASSUME NEW c \in Callers, Enqueue(c) PROVE HealInv'
  BY <1>0, <1>Enqueue, <1>Idle, <1>One DEF Enqueue, Goto, HealInv, HealAt, Entry,
     Stale, Ahead, Holding, Live, Evaluating, TaskType
<1>Heal. ASSUME NEW c \in Callers, Heal(c) PROVE HealInv'
  BY <1>0, <1>Heal, <1>Idle, <1>One DEF Heal, Goto, MemoType, HealInv, HealAt, Entry,
     Stale, Ahead, Holding, Live, Evaluating, TaskType
<1>NothingToHeal. ASSUME NEW c \in Callers, NothingToHeal(c) PROVE HealInv'
  BY <1>0, <1>NothingToHeal, <1>Idle, <1>One DEF NothingToHeal, Goto, Victim, FixInv,
     FixAt, Calm, HealInv, HealAt, Entry, Stale, Ahead, Holding, Live, Evaluating,
     TaskType
<1>HooksTake. ASSUME NEW c \in Callers, HooksTake(c) PROVE HealInv'
  BY <1>0, <1>HooksTake, <1>Idle, <1>One DEF HooksTake, Goto, Set, MemoType, HealInv,
     HealAt, Entry, Stale, Ahead, Holding, Live, Evaluating, TaskType
<1>HooksCommit. ASSUME NEW c \in Callers, HooksCommit(c) PROVE HealInv'
  <2>1. /\ pc[c] = "hooksRun" /\ pc'[c] \in {"hooksDone", "hooksMore"}
        /\ UNCHANGED <<memo, held, outEpoch, settleEpoch, settledRev, pending, normalClean>>
    BY <1>0, <1>HooksCommit DEF HooksCommit, Goto, TaskType
  <2>2. Entry(c)' = Entry(c)
    BY <2>1 DEF Entry, Holding
  <2>3. CASE UNCHANGED <<revision, dirty, viewStale>>
    BY <1>0, <2>1, <2>2, <2>3, <1>One DEF HealInv, HealAt, Stale, Ahead
  <2>4. CASE MoveWorld /\ Goto(c, "hooksMore")
    <3>1. revision' = revision + 1 /\ dirty \subseteq dirty' /\ pc'[c] = "hooksMore"
      BY <1>0, <2>4 DEF MoveWorld, MoveStores, Goto, TaskType
    <3>2. Ahead'
      BY <1>0, <2>1, <3>1 DEF Ahead
    <3>3. HealAt(c)'
      BY <1>0, <2>1, <2>2, <3>1 DEF HealInv, HealAt
    <3> QED BY <1>0, <2>1, <3>2, <3>3, <1>One DEF HealInv
  <2> QED BY <1>HooksCommit, <2>3, <2>4 DEF HooksCommit
<1>HooksRestore. ASSUME NEW c \in Callers, HooksRestore(c) PROVE HealInv'
  BY <1>0, <1>HooksRestore, <1>Idle, <1>One DEF HooksRestore, Goto, Set, MemoType,
     HealInv, HealAt, Entry, Stale, Ahead, Holding, Live, Evaluating, TaskType
<1>SettleTake. ASSUME NEW c \in Callers, SettleTake(c) PROVE HealInv'
  BY <1>0, <1>SettleTake, <1>Idle, <1>One DEF SettleTake, Goto, Set, MemoType,
     HealInv, HealAt, Entry, Stale, Ahead, Holding, Live, Evaluating, TaskType
<1>SettlePlan. ASSUME NEW c \in Callers, SettlePlan(c) PROVE HealInv'
  BY <1>0, <1>SettlePlan, <1>Idle, <1>One DEF SettlePlan, Goto, HealInv, HealAt,
     Entry, Stale, Ahead, Holding, Live, Evaluating, TaskType
<1>SettleCommit. ASSUME NEW c \in Callers, SettleCommit(c) PROVE HealInv'
  <2>1. /\ pc[c] = "settleCommit" /\ pc'[c] = "settleDone"
        /\ UNCHANGED <<memo, held, outEpoch, settleEpoch, settledRev, pending, revBefore>>
    BY <1>0, <1>SettleCommit DEF SettleCommit, Goto, TaskType
  <2>2. Entry(c)' = Entry(c)
    BY <2>1 DEF Entry, Holding
  <2>3. CASE UNCHANGED <<revision, dirty, viewStale>>
    BY <1>0, <2>1, <2>2, <2>3, <1>One DEF HealInv, HealAt, Stale, Ahead
  <2>4. CASE revision' = revision + 1 /\ dirty \subseteq dirty'
    <3>1. revBefore[c] \in Nat /\ revBefore[c] <= revision
      BY <1>0, <2>1 DEF FixInv, FixAt, TaskType
    <3>2. Ahead' /\ revision' # revBefore'[c]
      BY <1>0, <2>1, <2>4, <3>1 DEF Ahead
    <3>3. HealAt(c)'
      BY <1>0, <2>1, <2>2, <2>4, <3>2 DEF HealInv, HealAt
    <3> QED BY <1>0, <2>1, <3>2, <3>3, <1>One DEF HealInv
  <2> QED
    BY <1>SettleCommit, <2>3, <2>4 DEF SettleCommit, MoveWorld, RemoveFromWorld, MoveStores
<1>SettleRestore. ASSUME NEW c \in Callers, SettleRestore(c) PROVE HealInv'
  BY <1>0, <1>SettleRestore, <1>Idle, <1>One DEF SettleRestore, Goto, Set, MemoType,
     HealInv, HealAt, Entry, Stale, Ahead, Holding, Live, Evaluating, TaskType
<1>Followup. ASSUME NEW c \in Callers, Followup(c) PROVE HealInv'
  BY <1>0, <1>Followup, <1>Idle, <1>One DEF Followup, Goto, HealInv, HealAt, Entry,
     Stale, Ahead, Holding, Live, Evaluating, TaskType
<1>PublishPromote. ASSUME NEW c \in Callers, PublishPromote(c) PROVE HealInv'
  BY <1>0, <1>PublishPromote, <1>Idle, <1>One DEF PublishPromote, Goto, Promote,
     HealInv, HealAt, Entry, Stale, Ahead, Holding, Live, Evaluating, TaskType
<1>Publish. ASSUME NEW c \in Callers, Publish(c) PROVE HealInv'
  BY <1>0, <1>Publish, <1>Idle, <1>One DEF Publish, Goto, HealInv, HealAt, Entry,
     Stale, Ahead, Holding, Live, Evaluating, TaskType
<1>ExitEpoch. ASSUME NEW c \in Callers, ExitEpoch(c) PROVE HealInv'
  BY <1>0, <1>ExitEpoch, <1>Idle, <1>One DEF ExitEpoch, Goto, LeaveEpoch, Promote,
     HealInv, HealAt, Entry, Stale, Ahead, Holding, Live, Evaluating, TaskType
<1>Read. ASSUME NEW c \in Callers, Read(c) PROVE HealInv'
  BY <1>0, <1>Read, <1>Idle, <1>One DEF Read, Goto, HealInv, HealAt, Entry, Stale,
     Ahead, Holding, Live, Evaluating, TaskType
<1>ForEach. ASSUME NEW c \in Callers, ForEach(c) PROVE HealInv'
  BY <1>0, <1>ForEach, <1>Idle, <1>One DEF ForEach, Goto, MoveWorld, MoveStores, HealInv,
     HealAt, Entry, Stale, Ahead, Holding, Live, Evaluating, TaskType
<1>Take. ASSUME NEW c \in Callers, Take(c) PROVE HealInv'
  <2>1. /\ pc[c] = "read" /\ pc'[c] = "idle" /\ revision' = revision + 1
        /\ UNCHANGED <<memo, held, outEpoch, dirty>>
        /\ settleEpoch' = settleEpoch + 1 \/ UNCHANGED <<settleEpoch, settledRev>>
    BY <1>0, <1>Take DEF Take, RemoveFromWorld, MoveStores, Goto, TaskType
  <2>2. Entry(c)' = Entry(c)
    BY <2>1 DEF Entry, Holding, Live, Evaluating
  <2>3. CASE settleEpoch' = settleEpoch + 1
    <3>1. outEpoch' # settleEpoch' /\ outEpoch' <= settleEpoch'
      BY <1>0, <2>1, <2>3 DEF HealInv
    <3> QED BY <1>0, <2>1, <3>1, <1>One DEF HealInv, HealAt, Stale
  <2>4. CASE UNCHANGED <<settleEpoch, settledRev>>
    <3>1. Ahead'
      BY <1>0, <2>1, <2>4 DEF Ahead
    <3> QED BY <1>0, <2>1, <2>2, <2>4, <3>1, <1>One DEF HealInv, HealAt
  <2> QED BY <2>1, <2>3, <2>4
<1>Ensure. ASSUME NEW c \in Callers, Ensure(c) PROVE HealInv'
  BY <1>0, <1>Ensure, <1>Idle, <1>One DEF Ensure, Goto, HealInv, HealAt, Entry, Stale,
     Ahead, Holding, Live, Evaluating, TaskType
<1>TryRunner. ASSUME NEW c \in Callers, TryRunner(c) PROVE HealInv'
  BY <1>0, <1>TryRunner, <1>Idle, <1>One DEF TryRunner, Goto, HealInv, HealAt, Entry,
     Stale, Ahead, Holding, Live, Evaluating, TaskType
<1>WaitGeneration. ASSUME NEW c \in Callers, WaitGeneration(c) PROVE HealInv'
  BY <1>0, <1>WaitGeneration, <1>Idle, <1>One DEF WaitGeneration, Goto, HealInv,
     HealAt, Entry, Stale, Ahead, Holding, Live, Evaluating, TaskType
<1>StartEvaluation. ASSUME NEW c \in Callers, StartEvaluation(c) PROVE HealInv'
  <2>1. /\ pc[c] = "start" /\ pc'[c] = "phase" /\ held'[c] = memo
        /\ UNCHANGED <<outEpoch, settleEpoch, settledRev>>
    BY <1>0, <1>StartEvaluation DEF StartEvaluation, Goto, Set, MemoType, TaskType
  <2>2. Entry(c)' = Entry(c)
    BY <2>1 DEF Entry, Holding, Live, Evaluating
  <2>3. /\ dirty \subseteq dirty'
        /\ UNCHANGED <<revision, viewStale>> \/ revision' = revision + 1
    BY <1>StartEvaluation DEF StartEvaluation, MoveWorld, MoveStores
  <2>4. HealAt(c)'
    BY <1>0, <2>1, <2>2, <2>3 DEF HealInv, HealAt
  <2>5. Stale' => Ahead'
    <3>1. CASE UNCHANGED <<revision, viewStale>>
      BY <1>0, <2>1, <3>1 DEF HealInv, Stale, Ahead
    <3>2. CASE revision' = revision + 1
      BY <1>0, <2>1, <3>2 DEF Ahead
    <3> QED BY <2>3, <3>1, <3>2
  <2> QED BY <1>0, <2>1, <2>4, <2>5, <1>One DEF HealInv
<1>NothingPending. ASSUME NEW c \in Callers, NothingPending(c) PROVE HealInv'
  BY <1>0, <1>NothingPending, <1>Idle, <1>One DEF NothingPending, Goto, HealInv,
     HealAt, Entry, Stale, Ahead, Holding, Live, Evaluating, TaskType
<1>QuietCommit. ASSUME NEW c \in Callers, QuietCommit(c) PROVE HealInv'
  <2>1. pc[c] = "phase" /\ UNCHANGED <<pc, memo, settleEpoch, settledRev, revision>>
    BY <1>QuietCommit DEF QuietCommit
  <2>2. CASE ViewerCommit(c)
    <3>1. /\ outEpoch' = settleEpoch /\ HasViews
          /\ held'[c] = settleEpoch /\ pc'[c] = "phase"
      BY <1>0, <2>1, <2>2 DEF ViewerCommit, Set, MemoType
    <3>2. HealAt(c)'
      BY <2>1, <3>1 DEF HealAt, Entry, Holding, Live, Evaluating
    <3>3. Stale' => Ahead'
      BY <1>0, <2>1, <2>2 DEF ViewerCommit, Stale, Ahead, FixInv
    <3> QED BY <1>0, <2>1, <3>1, <3>2, <3>3, <1>One
  <2>3. CASE ~ViewerDue(c) /\ UNCHANGED <<held, outEpoch, viewStale>>
    <3>1. (dirty \ {phase}) \subseteq dirty' /\ Entry(c) = held[c] /\ Entry(c)' = held[c]
      BY <1>QuietCommit, <2>1, <2>3 DEF QuietCommit, Entry, Holding, Live, Evaluating
    <3>2. outEpoch = settleEpoch => Entry(c) = outEpoch \/ "Complete" \in dirty'
      BY <1>0, <2>1, <2>3, <3>1 DEF ViewerDue, HealInv, HealAt
    <3>3. outEpoch = settleEpoch => Entry(c) = outEpoch \/ Entry(c) = NoEntry
      BY <1>0 DEF HealInv, HealAt
    <3>4. HealAt(c)'
      BY <2>1, <2>3, <3>1, <3>2, <3>3 DEF HealAt
    <3> QED BY <1>0, <2>1, <2>3, <3>4, <1>One DEF HealInv, Stale, Ahead
  <2> QED BY <1>QuietCommit, <2>2, <2>3 DEF QuietCommit
<1>LoudCommit. ASSUME NEW c \in Callers, LoudCommit(c) PROVE HealInv'
  <2>1. /\ pc[c] = "phase" /\ UNCHANGED <<pc, memo, settleEpoch, settledRev>>
        /\ revision' = revision + 1
    BY <1>LoudCommit DEF LoudCommit
  <2>2. Ahead'
    BY <1>0, <2>1 DEF Ahead
  <2>3. CASE ViewerCommit(c)
    <3>1. /\ outEpoch' = settleEpoch /\ HasViews
          /\ held'[c] = settleEpoch /\ pc'[c] = "phase"
      BY <1>0, <2>1, <2>3 DEF ViewerCommit, Set, MemoType
    <3>2. HealAt(c)'
      BY <2>1, <3>1 DEF HealAt, Entry, Holding, Live, Evaluating
    <3> QED BY <1>0, <2>1, <2>2, <3>1, <3>2, <1>One
  <2>4. CASE /\ (dirty \ {phase}) \subseteq dirty' /\ (ViewerDue(c) => phase \in dirty')
             /\ UNCHANGED <<held, outEpoch>>
    <3>1. Entry(c) = held[c] /\ Entry(c)' = held[c]
      BY <2>1, <2>4 DEF Entry, Holding, Live, Evaluating
    <3>2. outEpoch = settleEpoch => Entry(c) = outEpoch \/ "Complete" \in dirty'
      BY <1>0, <2>1, <2>4, <3>1 DEF ViewerDue, HealInv, HealAt
    <3>3. outEpoch = settleEpoch => Entry(c) = outEpoch \/ Entry(c) = NoEntry
      BY <1>0 DEF HealInv, HealAt
    <3>4. HealAt(c)'
      BY <2>1, <2>4, <3>1, <3>2, <3>3 DEF HealAt
    <3> QED BY <1>0, <2>1, <2>2, <2>4, <3>4, <1>One DEF HealInv
  <2> QED BY <1>LoudCommit, <2>3, <2>4 DEF LoudCommit
<1>PhaseDone. ASSUME NEW c \in Callers, PhaseDone(c) PROVE HealInv'
  BY <1>0, <1>PhaseDone, <1>Idle, <1>One DEF PhaseDone, Goto, HealInv, HealAt, Entry,
     Stale, Ahead, Holding, Live, Evaluating, TaskType
<1>Preempt. ASSUME NEW c \in Callers, Preempt(c) PROVE HealInv'
  BY <1>0, <1>Preempt, <1>Idle, <1>One DEF Preempt, Goto, HealInv, HealAt, Entry,
     Stale, Ahead, Holding, Live, Evaluating, TaskType
<1>OpenWindow. ASSUME NEW c \in Callers, OpenWindow(c) PROVE HealInv'
  BY <1>0, <1>OpenWindow, <1>Idle, <1>One DEF OpenWindow, Goto, HealInv, HealAt,
     Entry, Stale, Ahead, Holding, Live, Evaluating, TaskType
<1>WindowDrained. ASSUME NEW c \in Callers, WindowDrained(c) PROVE HealInv'
  BY <1>0, <1>WindowDrained, <1>Idle, <1>One DEF WindowDrained, Goto, HealInv, HealAt,
     Entry, Stale, Ahead, Holding, Live, Evaluating, TaskType
<1>CloseWindow. ASSUME NEW c \in Callers, CloseWindow(c) PROVE HealInv'
  BY <1>0, <1>CloseWindow, <1>Idle, <1>One DEF CloseWindow, Goto, HealInv, HealAt,
     Entry, Stale, Ahead, Holding, Live, Evaluating, TaskType
<1>CompleteGeneration. ASSUME NEW c \in Callers, CompleteGeneration(c) PROVE HealInv'
  BY <1>0, <1>CompleteGeneration, <1>Idle, <1>One DEF CompleteGeneration, WakeUpTo,
     Set, MemoType, HealInv, HealAt, Entry, Stale, Ahead, Holding, Live, Evaluating,
     TaskType
<1>ReleaseRunner. ASSUME NEW c \in Callers, ReleaseRunner(c) PROVE HealInv'
  BY <1>0, <1>ReleaseRunner, <1>Idle, <1>One DEF ReleaseRunner, Goto, HealInv, HealAt,
     Entry, Stale, Ahead, Holding, Live, Evaluating, TaskType
<1>Cancel. ASSUME NEW c \in Callers, Cancel(c) PROVE HealInv'
  BY <1>0, <1>Cancel, BoundsAssumption DEF Cancel, Undropped, DriverInv, NoDrops
<1>DropEvaluation. ASSUME NEW c \in Callers, DropEvaluation(c) PROVE HealInv'
  BY <1>0, <1>DropEvaluation DEF DropEvaluation, DriverInv, NoDrops, Dropped
<1>DropRunner. ASSUME NEW c \in Callers, DropRunner(c) PROVE HealInv'
  BY <1>0, <1>DropRunner DEF DropRunner, DriverInv, NoDrops, Dropped
<1>DropEpoch. ASSUME NEW c \in Callers, DropEpoch(c) PROVE HealInv'
  BY <1>0, <1>DropEpoch DEF DropEpoch, DriverInv, NoDrops, Dropped
<1>InsertIdle. ASSUME NEW w \in Writers, InsertIdle(w) PROVE HealInv'
  BY <1>0, <1>InsertIdle, <1>Asked DEF InsertIdle
<1>InsertDeferred. ASSUME NEW w \in Writers, InsertDeferred(w) PROVE HealInv'
  BY <1>InsertDeferred, <1>Still DEF InsertDeferred
<1>InsertPreempting. ASSUME NEW w \in Writers, InsertPreempting(w) PROVE HealInv'
  BY <1>InsertPreempting, <1>Still DEF InsertPreempting
<1>BeginMut. ASSUME NEW w \in Writers, BeginMut(w) PROVE HealInv'
  BY <1>BeginMut, <1>Still DEF BeginMut
<1>PreemptingInsertLands. ASSUME NEW w \in Writers, PreemptingInsertLands(w) PROVE HealInv'
  BY <1>0, <1>PreemptingInsertLands, <1>Asked DEF PreemptingInsertLands, AtBoundary
<1>MutLands. ASSUME NEW w \in Writers, MutLands(w) PROVE HealInv'
  <2>1. CASE UNCHANGED <<revision, dirty, viewStale, normalClean, pending>>
    BY <1>MutLands, <2>1, <1>Still DEF MutLands, AtBoundary
  <2>2. CASE MoveWorld /\ pending' = GetOrInsert(pending, next)
    BY <1>0, <1>MutLands, <2>2 DEF MutLands, AtBoundary, MoveWorld, MoveStores, HealInv,
       HealAt, Entry, Stale, Ahead
  <2> QED BY <1>MutLands, <2>1, <2>2 DEF MutLands
<1>AwaitBoundary. ASSUME NEW w \in Writers, AwaitBoundary(w) PROVE HealInv'
  BY <1>AwaitBoundary, <1>Still DEF AwaitBoundary
<1>MutStale. ASSUME NEW w \in Writers, MutStale(w) PROVE HealInv'
  BY <1>MutStale, <1>Still DEF MutStale
<1>MutBusy. ASSUME NEW w \in Writers, MutBusy(w) PROVE HealInv'
  BY <1>MutBusy, <1>Still DEF MutBusy
<1>CancelWriter. ASSUME NEW w \in Writers, CancelWriter(w) PROVE HealInv'
  BY <1>0, <1>CancelWriter, BoundsAssumption DEF CancelWriter, Undropped, DriverInv,
     NoDrops
<1>Stutter. CASE UNCHANGED vars
  BY <1>Stutter, <1>Still
<1> QED
  BY <1>CallSettle, <1>CallTake, <1>FastPath, <1>EnterEpoch, <1>BoundaryPromote,
     <1>BoundaryReturn, <1>PickTarget, <1>CheckClean, <1>Enqueue, <1>Heal,
     <1>NothingToHeal, <1>HooksTake, <1>HooksCommit, <1>HooksRestore, <1>SettleTake,
     <1>SettlePlan, <1>SettleCommit, <1>SettleRestore, <1>Followup,
     <1>PublishPromote, <1>Publish, <1>ExitEpoch, <1>Read, <1>ForEach, <1>Take,
     <1>Ensure, <1>TryRunner, <1>WaitGeneration, <1>StartEvaluation,
     <1>NothingPending, <1>QuietCommit, <1>LoudCommit, <1>PhaseDone, <1>Preempt,
     <1>OpenWindow, <1>WindowDrained, <1>CloseWindow, <1>CompleteGeneration,
     <1>ReleaseRunner, <1>Cancel, <1>DropEvaluation, <1>DropRunner, <1>DropEpoch,
     <1>InsertIdle, <1>InsertDeferred, <1>InsertPreempting, <1>BeginMut,
     <1>PreemptingInsertLands, <1>MutLands, <1>AwaitBoundary, <1>MutStale,
     <1>MutBusy, <1>CancelWriter, <1>Stutter
     DEF Next, CallerStep, SettleStep, DriveStep, DropStep, WriterStep, Finished,
         OutOfBounds

\* No step settles the bowl over stale output.
LEMMA HealedStep ==
  ASSUME ControlInv, HealInv, HealInv', [Next]_vars, ~Quiescent, Quiescent'
  PROVE  ~(outEpoch' = settleEpoch /\ viewStale')
<1> DEFINE Fresh == ~(outEpoch' = settleEpoch /\ viewStale')
<1>Same. ASSUME UNCHANGED settleEpoch PROVE Fresh
  <2>1. revision' \in Nat /\ settledRev' = revision'
    BY TypeStep DEF ControlInv, TypeOK, WorldType, Quiescent
  <2> QED BY <1>Same, <2>1 DEF HealInv, Stale, Ahead
<1>CallSettle. ASSUME NEW c \in Callers, CallSettle(c) PROVE Fresh
  BY <1>CallSettle, <1>Same DEF CallSettle
<1>CallTake. ASSUME NEW c \in Callers, CallTake(c) PROVE Fresh
  BY <1>CallTake, <1>Same DEF CallTake
<1>FastPath. ASSUME NEW c \in Callers, FastPath(c) PROVE Fresh
  BY <1>FastPath, <1>Same DEF FastPath
<1>EnterEpoch. ASSUME NEW c \in Callers, EnterEpoch(c) PROVE Fresh
  BY <1>EnterEpoch, <1>Same DEF EnterEpoch
<1>BoundaryPromote. ASSUME NEW c \in Callers, BoundaryPromote(c) PROVE Fresh
  BY <1>BoundaryPromote, <1>Same DEF BoundaryPromote
<1>BoundaryReturn. ASSUME NEW c \in Callers, BoundaryReturn(c) PROVE Fresh
  BY <1>BoundaryReturn, <1>Same DEF BoundaryReturn
<1>PickTarget. ASSUME NEW c \in Callers, PickTarget(c) PROVE Fresh
  BY <1>PickTarget, <1>Same DEF PickTarget
<1>CheckClean. ASSUME NEW c \in Callers, CheckClean(c) PROVE Fresh
  BY <1>CheckClean, <1>Same DEF CheckClean
<1>Enqueue. ASSUME NEW c \in Callers, Enqueue(c) PROVE Fresh
  BY <1>Enqueue, <1>Same DEF Enqueue
<1>Heal. ASSUME NEW c \in Callers, Heal(c) PROVE Fresh
  BY <1>Heal, <1>Same DEF Heal
<1>NothingToHeal. ASSUME NEW c \in Callers, NothingToHeal(c) PROVE Fresh
  BY <1>NothingToHeal, <1>Same DEF NothingToHeal
<1>HooksTake. ASSUME NEW c \in Callers, HooksTake(c) PROVE Fresh
  BY <1>HooksTake, <1>Same DEF HooksTake
<1>HooksCommit. ASSUME NEW c \in Callers, HooksCommit(c) PROVE Fresh
  BY <1>HooksCommit, <1>Same DEF HooksCommit
<1>HooksRestore. ASSUME NEW c \in Callers, HooksRestore(c) PROVE Fresh
  BY <1>HooksRestore, <1>Same DEF HooksRestore
<1>SettleTake. ASSUME NEW c \in Callers, SettleTake(c) PROVE Fresh
  BY <1>SettleTake, <1>Same DEF SettleTake
<1>SettlePlan. ASSUME NEW c \in Callers, SettlePlan(c) PROVE Fresh
  BY <1>SettlePlan, <1>Same DEF SettlePlan
<1>SettleCommit. ASSUME NEW c \in Callers, SettleCommit(c) PROVE Fresh
  BY <1>SettleCommit, <1>Same DEF SettleCommit
<1>SettleRestore. ASSUME NEW c \in Callers, SettleRestore(c) PROVE Fresh
  BY <1>SettleRestore, <1>Same DEF SettleRestore
<1>Followup. ASSUME NEW c \in Callers, Followup(c) PROVE Fresh
  BY <1>Followup, <1>Same DEF Followup
<1>PublishPromote. ASSUME NEW c \in Callers, PublishPromote(c) PROVE Fresh
  BY <1>PublishPromote, <1>Same DEF PublishPromote
<1>Publish. ASSUME NEW c \in Callers, Publish(c) PROVE Fresh
  <2>1. pc[c] = "publish" /\ UNCHANGED <<outEpoch, viewStale, pending>>
    BY <1>Publish DEF Publish
  <2> QED BY <2>1 DEF HealInv, HealAt, Stale, Quiescent
<1>ExitEpoch. ASSUME NEW c \in Callers, ExitEpoch(c) PROVE Fresh
  BY <1>ExitEpoch, <1>Same DEF ExitEpoch, LeaveEpoch
<1>Read. ASSUME NEW c \in Callers, Read(c) PROVE Fresh
  BY <1>Read, <1>Same DEF Read
<1>ForEach. ASSUME NEW c \in Callers, ForEach(c) PROVE Fresh
  BY <1>ForEach, <1>Same DEF ForEach
<1>Take. ASSUME NEW c \in Callers, Take(c) PROVE Fresh
  BY <1>Take, <1>Same DEF Take
<1>Ensure. ASSUME NEW c \in Callers, Ensure(c) PROVE Fresh
  BY <1>Ensure, <1>Same DEF Ensure
<1>TryRunner. ASSUME NEW c \in Callers, TryRunner(c) PROVE Fresh
  BY <1>TryRunner, <1>Same DEF TryRunner
<1>WaitGeneration. ASSUME NEW c \in Callers, WaitGeneration(c) PROVE Fresh
  BY <1>WaitGeneration, <1>Same DEF WaitGeneration
<1>StartEvaluation. ASSUME NEW c \in Callers, StartEvaluation(c) PROVE Fresh
  BY <1>StartEvaluation, <1>Same DEF StartEvaluation
<1>NothingPending. ASSUME NEW c \in Callers, NothingPending(c) PROVE Fresh
  BY <1>NothingPending, <1>Same DEF NothingPending
<1>QuietCommit. ASSUME NEW c \in Callers, QuietCommit(c) PROVE Fresh
  BY <1>QuietCommit, <1>Same DEF QuietCommit
<1>LoudCommit. ASSUME NEW c \in Callers, LoudCommit(c) PROVE Fresh
  BY <1>LoudCommit, <1>Same DEF LoudCommit
<1>PhaseDone. ASSUME NEW c \in Callers, PhaseDone(c) PROVE Fresh
  BY <1>PhaseDone, <1>Same DEF PhaseDone
<1>Preempt. ASSUME NEW c \in Callers, Preempt(c) PROVE Fresh
  BY <1>Preempt, <1>Same DEF Preempt
<1>OpenWindow. ASSUME NEW c \in Callers, OpenWindow(c) PROVE Fresh
  BY <1>OpenWindow, <1>Same DEF OpenWindow
<1>WindowDrained. ASSUME NEW c \in Callers, WindowDrained(c) PROVE Fresh
  BY <1>WindowDrained, <1>Same DEF WindowDrained
<1>CloseWindow. ASSUME NEW c \in Callers, CloseWindow(c) PROVE Fresh
  BY <1>CloseWindow, <1>Same DEF CloseWindow
<1>CompleteGeneration. ASSUME NEW c \in Callers, CompleteGeneration(c) PROVE Fresh
  BY <1>CompleteGeneration, <1>Same DEF CompleteGeneration
<1>ReleaseRunner. ASSUME NEW c \in Callers, ReleaseRunner(c) PROVE Fresh
  BY <1>ReleaseRunner, <1>Same DEF ReleaseRunner
<1>Cancel. ASSUME NEW c \in Callers, Cancel(c) PROVE Fresh
  BY <1>Cancel, <1>Same DEF Cancel
<1>DropEvaluation. ASSUME NEW c \in Callers, DropEvaluation(c) PROVE Fresh
  BY <1>DropEvaluation, <1>Same DEF DropEvaluation
<1>DropRunner. ASSUME NEW c \in Callers, DropRunner(c) PROVE Fresh
  BY <1>DropRunner, <1>Same DEF DropRunner
<1>DropEpoch. ASSUME NEW c \in Callers, DropEpoch(c) PROVE Fresh
  BY <1>DropEpoch, <1>Same DEF DropEpoch, LeaveEpoch
<1>InsertIdle. ASSUME NEW w \in Writers, InsertIdle(w) PROVE Fresh
  BY <1>InsertIdle, <1>Same DEF InsertIdle
<1>InsertDeferred. ASSUME NEW w \in Writers, InsertDeferred(w) PROVE Fresh
  BY <1>InsertDeferred, <1>Same DEF InsertDeferred
<1>InsertPreempting. ASSUME NEW w \in Writers, InsertPreempting(w) PROVE Fresh
  BY <1>InsertPreempting, <1>Same DEF InsertPreempting
<1>BeginMut. ASSUME NEW w \in Writers, BeginMut(w) PROVE Fresh
  BY <1>BeginMut, <1>Same DEF BeginMut
<1>PreemptingInsertLands. ASSUME NEW w \in Writers, PreemptingInsertLands(w) PROVE Fresh
  BY <1>PreemptingInsertLands, <1>Same DEF PreemptingInsertLands
<1>MutLands. ASSUME NEW w \in Writers, MutLands(w) PROVE Fresh
  BY <1>MutLands, <1>Same DEF MutLands
<1>AwaitBoundary. ASSUME NEW w \in Writers, AwaitBoundary(w) PROVE Fresh
  BY <1>AwaitBoundary, <1>Same DEF AwaitBoundary
<1>MutStale. ASSUME NEW w \in Writers, MutStale(w) PROVE Fresh
  BY <1>MutStale, <1>Same DEF MutStale
<1>MutBusy. ASSUME NEW w \in Writers, MutBusy(w) PROVE Fresh
  BY <1>MutBusy, <1>Same DEF MutBusy
<1>CancelWriter. ASSUME NEW w \in Writers, CancelWriter(w) PROVE Fresh
  BY <1>CancelWriter, <1>Same DEF CancelWriter
<1>Stutter. ASSUME UNCHANGED vars PROVE Fresh
  BY <1>Stutter, <1>Same
<1> HIDE DEF Fresh
<1>1. Fresh
  BY <1>CallSettle, <1>CallTake, <1>FastPath, <1>EnterEpoch, <1>BoundaryPromote,
     <1>BoundaryReturn, <1>PickTarget, <1>CheckClean, <1>Enqueue, <1>Heal,
     <1>NothingToHeal, <1>HooksTake, <1>HooksCommit, <1>HooksRestore, <1>SettleTake,
     <1>SettlePlan, <1>SettleCommit, <1>SettleRestore, <1>Followup,
     <1>PublishPromote, <1>Publish, <1>ExitEpoch, <1>Read, <1>ForEach, <1>Take,
     <1>Ensure, <1>TryRunner, <1>WaitGeneration, <1>StartEvaluation,
     <1>NothingPending, <1>QuietCommit, <1>LoudCommit, <1>PhaseDone, <1>Preempt,
     <1>OpenWindow, <1>WindowDrained, <1>CloseWindow, <1>CompleteGeneration,
     <1>ReleaseRunner, <1>Cancel, <1>DropEvaluation, <1>DropRunner, <1>DropEpoch,
     <1>InsertIdle, <1>InsertDeferred, <1>InsertPreempting, <1>BeginMut,
     <1>PreemptingInsertLands, <1>MutLands, <1>AwaitBoundary, <1>MutStale,
     <1>MutBusy, <1>CancelWriter, <1>Stutter
     DEF Next, CallerStep, SettleStep, DriveStep, DropStep, WriterStep, Finished,
         OutOfBounds
<1> QED BY <1>1 DEF Fresh

\* The invariant of one caller whose futures are not dropped.
SettleInv == ControlInv /\ DriverInv /\ FixInv /\ HealInv

\* It holds in every reachable state.
THEOREM SettleCorrect ==
  ASSUME Alone, Undropped
  PROVE  Spec => []SettleInv
<1>1. Init => SettleInv
  BY ControlInit, DriverInit, FixInit, HealInit DEF SettleInv
<1>2. SettleInv /\ [Next]_vars => SettleInv'
  BY Alone, Undropped, ControlStep, DriverStep, FixStep, HealStep DEF SettleInv
<1> QED BY <1>1, <1>2, PTL DEF Spec

\* A bowl that calls itself settled has run every row that a write or a retired
\* output enabled: hooks, reaps, healing, preemption and in-place writes all
\* come before the revision is published (settle, bowl_is_settled).  Rows that
\* a mere removal enabled may be left (late).
THEOREM SettledAtFixpoint ==
  ASSUME Alone, Undropped
  PROVE  Spec => []SettledIsFixpoint
<1>1. SettleInv => SettledIsFixpoint
  BY DEF SettleInv, ControlInv, TypeOK, WorldType, FixInv, Ahead, SettledIsFixpoint,
     Quiescent
<1> QED BY <1>1, SettleCorrect, PTL

\* No settle completes over output that a View consumer computed in it from
\* facts that moved afterwards: heal_stale_ambient looks after the last
\* step that can move them, or the settle goes round again.
THEOREM ViewsHealed ==
  ASSUME Alone, Undropped
  PROVE  Spec => HealedBeforeSettled
<1>1. Init => SettleInv
  BY ControlInit, DriverInit, FixInit, HealInit DEF SettleInv
<1>2. SettleInv /\ [Next]_vars => SettleInv'
  BY Alone, Undropped, ControlStep, DriverStep, FixStep, HealStep DEF SettleInv
<1>3. SettleInv /\ SettleInv' /\ [Next]_vars =>
        [~Quiescent /\ Quiescent' => ~(outEpoch' = settleEpoch /\ viewStale')]_vars
  BY HealedStep DEF SettleInv
<1> QED BY <1>1, <1>2, <1>3, PTL DEF Spec, HealedBeforeSettled
=============================================================================
