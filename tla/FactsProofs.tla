---------------------------- MODULE FactsProofs -----------------------------
(***************************************************************************)
(* Proofs about Facts, for every set of entities, types, systems and       *)
(* relations: the indexes the engine reads instead of the stores are exact *)
(* in every reachable state, since each action is made of operations that  *)
(* keep its worlds Sound (WorldProofs).                                    *)
(***************************************************************************)
EXTENDS Facts, WorldProofs

\* Draining the change log touches no store.
LEMMA DrainedSound ==
  ASSUME NEW w, NEW taken, Sound(w, taken)
  PROVE  Sound(Drained(w), taken)
<1> DEFINE n == Drained(w)
<1>1. w = [f \in Fields |-> w[f]] /\ IsList(w.pending)
  BY DEF Sound, Core, IsWorld, Total, Finite
<1>2. Frame(w, n)
  BY <1>1 DEF Drained, Frame, Fields, Total, Keeps, At
<1> HIDE DEF n
<1>3. Sound(n, taken)
  BY <1>2, FrameSound
<1> QED BY <1>3 DEF n

\* A command names types of the schema, and no inverse: the engine writes those.
Writable == Components \ Inverses
CommandOK(cmd) ==
    /\ "op" \in DOMAIN cmd /\ cmd.op \in {"insert", "spawn", "remove", "despawn"}
    /\ cmd.op \in {"insert", "remove"} => "type" \in DOMAIN cmd /\ cmd.type \in Writable
    /\ cmd.op = "spawn" => /\ "bundle" \in DOMAIN cmd /\ IsList(cmd.bundle)
                           /\ \A i \in DOMAIN cmd.bundle : cmd.bundle[i][1] \in Writable
CommandsOK(cmds) == \E S : cmds \in Seq(S) /\ \A c \in S : CommandOK(c)

\* A well-formed queue is a list of well-formed commands.
LEMMA Commands ==
  ASSUME NEW cmds, CommandsOK(cmds)
  PROVE  IsList(cmds) /\ \A i \in DOMAIN cmds : CommandOK(cmds[i])
<1>1. PICK S : cmds \in Seq(S) /\ \A c \in S : CommandOK(c)
  BY DEF CommandsOK
<1>2. \A i \in DOMAIN cmds : cmds[i] \in S
  BY <1>1
<1>3. IsList(cmds)
  BY <1>1 DEF IsList
<1> QED BY <1>1, <1>2, <1>3

\* The empty queue is well-formed.
LEMMA NoCommands == CommandsOK(<<>>)
<1>1. PICK S : S = {}
  OBVIOUS
<1>2. <<>> \in Seq(S)
  OBVIOUS
<1>3. \A c \in S : CommandOK(c)
  BY <1>1
<1> QED BY <1>2, <1>3, Zenon DEF CommandsOK

\* A well-formed queue with one more well-formed command.
LEMMA OneMoreCommand ==
  ASSUME NEW cmds, NEW c, CommandsOK(cmds), CommandOK(c)
  PROVE  CommandsOK(Append(cmds, c))
<1>1. PICK S : cmds \in Seq(S) /\ \A x \in S : CommandOK(x)
  BY DEF CommandsOK
<1> DEFINE T == S \cup {c}
<1>2. cmds \in Seq(T) /\ c \in T /\ \A x \in T : CommandOK(x)
  BY <1>1
<1> HIDE DEF T
<1>3. Append(cmds, c) \in Seq(T)
  BY <1>2
<1> QED BY <1>2, <1>3 DEF CommandsOK

BundleStep(p, i, v) == Insert(v, p.e, p.list[i][1], p.list[i][2], p.o)
Bundling == INSTANCE FoldFacts WITH op <- BundleStep, pick <- LastOf, Inv <- FoldSound

\* insert_bundle keeps the world sound.
LEMMA InsertBundleSound ==
  ASSUME NEW w, NEW e, NEW bundle, NEW o, NEW taken, Sound(w, taken), IsList(bundle),
         \A i \in DOMAIN bundle : bundle[i][1] \in Writable
  PROVE  Sound(InsertBundle(w, e, bundle, o), taken)
<1> DEFINE p == [list |-> bundle, e |-> e, o |-> o, taken |-> taken]
           n == InsertBundle(w, e, bundle, o)
<1>0. p.list = bundle /\ p.e = e /\ p.o = o /\ p.taken = taken
  OBVIOUS
<1>1. n = Bundling!Fold(p, w, DOMAIN bundle)
  BY SMT DEF InsertBundle, FoldLeft, MapThenFoldSet, Bundling!Fold, BundleStep, LastOf
<1> HIDE DEF n, p
<1>2. IsFiniteSet(DOMAIN bundle) /\ \A s \in SUBSET DOMAIN bundle : s # {} => LastOf(s) \in s
  BY Positions
<1>3. FoldSound(p, w, {})
  BY <1>0 DEF FoldSound
<1>4. ASSUME NEW v, NEW s \in SUBSET DOMAIN bundle, s # {}, FoldSound(p, v, s \ {LastOf(s)})
      PROVE  FoldSound(p, BundleStep(p, LastOf(s), v), s)
  <2> DEFINE x == bundle[LastOf(s)]
  <2>1. Sound(v, taken) /\ x[1] \in Writable
    BY <1>0, <1>2, <1>4 DEF FoldSound
  <2> HIDE DEF x
  <2>2. Sound(Insert(v, e, x[1], x[2], o), taken)
    BY <2>1, InsertSound DEF Writable
  <2> QED BY <1>0, <2>2 DEF FoldSound, BundleStep, x
<1>5. FoldSound(p, n, DOMAIN bundle)
  BY <1>1, <1>2, <1>3, <1>4, Bundling!FoldInv DEF Bundling!IsFiniteSet, IsFiniteSet
<1> QED BY <1>0, <1>5 DEF FoldSound, n

RegisterStep(p, c, v) == RegisterSingleton(v, c, p.e)
Registering == INSTANCE FoldFacts WITH op <- RegisterStep, pick <- AnyOf, Inv <- FoldSound

\* Registering the singleton markers of a bundle keeps the world sound.
LEMMA RegisteredSound ==
  ASSUME NEW w, NEW bundle, NEW e, NEW taken, Sound(w, taken), IsFiniteSet(Components)
  PROVE  Sound(RegisterMarkers(w, bundle, e), taken)
<1> DEFINE p == [e |-> e, taken |-> taken]
           keys == Markers(bundle)
           n == RegisterMarkers(w, bundle, e)
<1>0. p.e = e /\ p.taken = taken
  OBVIOUS
<1>1. n = Registering!Fold(p, w, keys)
  BY SMT DEF RegisterMarkers, FoldSet, MapThenFoldSet, Registering!Fold, RegisterStep, AnyOf
<1>f. IsFiniteSet(keys)
  <2>1. keys \subseteq Components
    BY WorldAssumption DEF Markers
  <2> HIDE DEF keys
  <2> QED BY <2>1, FS_Subset
<1> HIDE DEF n, p, keys
<1>2. FoldSound(p, w, {})
  BY <1>0 DEF FoldSound
<1>3. ASSUME NEW v, NEW s \in SUBSET keys, s # {}, FoldSound(p, v, s \ {AnyOf(s)})
      PROVE  FoldSound(p, RegisterStep(p, AnyOf(s), v), s)
  BY <1>0, <1>3, RegisterSound DEF FoldSound, RegisterStep
<1>4. FoldSound(p, n, keys)
  <2>1. \A s \in SUBSET keys : s # {} => AnyOf(s) \in s
    BY AnyOfMember
  <2> QED BY <1>1, <1>f, <1>2, <1>3, <2>1, Registering!FoldInv DEF Registering!IsFiniteSet, IsFiniteSet
<1> QED BY <1>0, <1>4 DEF FoldSound, n

\* CommandOp::apply
LEMMA ApplySound ==
  ASSUME NEW w, NEW cmd, NEW o, NEW taken, Sound(w, taken), CommandOK(cmd), IsFiniteSet(Components)
  PROVE  Sound(Apply(w, cmd, o), taken)
<1>1. CASE cmd.op = "insert"
  <2>1. Apply(w, cmd, o) = Insert(w, cmd.at, cmd.type, cmd.value, o)
    BY <1>1 DEF Apply
  <2> QED BY <1>1, <2>1, InsertSound DEF CommandOK, Writable
<1>2. CASE cmd.op = "spawn"
  <2> DEFINE at == HomeOf(w, cmd.bundle, cmd.at)
             m == RegisterMarkers(w, cmd.bundle, cmd.at)
             u == RecordDerivedSpawn(m, o, at)
  <2>1. Apply(w, cmd, o) = Spawn(w, cmd, o)
    BY <1>2 DEF Apply
  <2>2. Spawn(w, cmd, o) = InsertBundle(u, at, cmd.bundle, o)
    BY Zenon DEF Spawn
  <2> HIDE DEF at
  <2>4. Sound(m, taken)
    BY RegisteredSound
  <2> HIDE DEF m
  <2>5. Sound(u, taken)
    BY <2>4, RecordSound
  <2> HIDE DEF u
  <2>6. Sound(InsertBundle(u, at, cmd.bundle, o), taken)
    BY <1>2, <2>5, InsertBundleSound DEF CommandOK
  <2> QED BY <2>1, <2>2, <2>6
<1>3. CASE cmd.op = "remove"
  <2>1. Apply(w, cmd, o) = RemoveComponent(w, cmd.type, cmd.at, o)
    BY <1>3 DEF Apply
  <2> QED BY <1>3, <2>1, RemoveComponentSound DEF CommandOK, Writable
<1>4. CASE cmd.op = "despawn"
  <2>1. Apply(w, cmd, o) = RemoveEntity(w, cmd.at)
    BY <1>4 DEF Apply
  <2> QED BY <2>1, RemoveEntitySound
<1> QED BY <1>1, <1>2, <1>3, <1>4 DEF CommandOK

ApplyStep(p, i, v) == Apply(v, p.list[i], p.o)
Applying == INSTANCE FoldFacts WITH op <- ApplyStep, pick <- LastOf, Inv <- FoldSound

\* A command buffer, applied in order.
LEMMA ApplyAllSound ==
  ASSUME NEW w, NEW cmds, NEW o, NEW taken, Sound(w, taken), CommandsOK(cmds),
         IsFiniteSet(Components)
  PROVE  Sound(ApplyAll(w, cmds, o), taken)
<1> DEFINE p == [list |-> cmds, o |-> o, taken |-> taken]
           n == ApplyAll(w, cmds, o)
<1>0. p.list = cmds /\ p.o = o /\ p.taken = taken
  OBVIOUS
<1>1. n = Applying!Fold(p, w, DOMAIN cmds)
  BY SMT DEF ApplyAll, FoldLeft, MapThenFoldSet, Applying!Fold, ApplyStep, LastOf
<1> HIDE DEF n, p
<1>2. IsFiniteSet(DOMAIN cmds) /\ \A s \in SUBSET DOMAIN cmds : s # {} => LastOf(s) \in s
  BY Commands, Positions
<1>3. FoldSound(p, w, {})
  BY <1>0 DEF FoldSound
<1>4. ASSUME NEW v, NEW s \in SUBSET DOMAIN cmds, s # {}, FoldSound(p, v, s \ {LastOf(s)})
      PROVE  FoldSound(p, ApplyStep(p, LastOf(s), v), s)
  <2>1. Sound(v, taken) /\ CommandOK(cmds[LastOf(s)])
    BY <1>0, <1>2, <1>4, Commands DEF FoldSound
  <2>2. Sound(Apply(v, cmds[LastOf(s)], o), taken)
    BY <2>1, ApplySound
  <2> QED BY <1>0, <2>2 DEF FoldSound, ApplyStep
<1>5. FoldSound(p, n, DOMAIN cmds)
  BY <1>1, <1>2, <1>3, <1>4, Applying!FoldInv DEF Applying!IsFiniteSet, IsFiniteSet
<1> QED BY <1>0, <1>5 DEF FoldSound, n

-----------------------------------------------------------------------------
(* What a run buffers *)

KeptOK(p, v, done) == CommandsOK(v)
NowStep(p, i, v) == IF DefersAtSettle(p[i]) THEN v ELSE Append(v, p[i])
Sorting == INSTANCE FoldFacts WITH op <- NowStep, pick <- LastOf, Inv <- KeptOK
LaterStep(p, i, v) == IF DefersAtSettle(p[i]) THEN Append(v, p[i]) ELSE v
Deferring == INSTANCE FoldFacts WITH op <- LaterStep, pick <- LastOf, Inv <- KeptOK

\* Both halves of a split settle queue are well-formed.
LEMMA HalvesOK ==
  ASSUME NEW cmds, CommandsOK(cmds)
  PROVE  CommandsOK(Immediate(cmds)) /\ CommandsOK(Held(cmds))
<1>1. Immediate(cmds) = Sorting!Fold(cmds, <<>>, DOMAIN cmds)
  BY SMT DEF Immediate, FoldLeft, MapThenFoldSet, Sorting!Fold, NowStep, LastOf
<1>2. Held(cmds) = Deferring!Fold(cmds, <<>>, DOMAIN cmds)
  BY SMT DEF Held, FoldLeft, MapThenFoldSet, Deferring!Fold, LaterStep, LastOf
<1>3. IsFiniteSet(DOMAIN cmds) /\ \A s \in SUBSET DOMAIN cmds : s # {} => LastOf(s) \in s
  BY Commands, Positions
<1>4. KeptOK(cmds, <<>>, {})
  BY NoCommands DEF KeptOK
<1>5. ASSUME NEW v, NEW s \in SUBSET DOMAIN cmds, s # {}, KeptOK(cmds, v, s \ {LastOf(s)})
      PROVE  KeptOK(cmds, NowStep(cmds, LastOf(s), v), s) /\ KeptOK(cmds, LaterStep(cmds, LastOf(s), v), s)
  <2>1. CommandOK(cmds[LastOf(s)]) /\ CommandsOK(v)
    BY <1>3, <1>5, Commands DEF KeptOK
  <2> QED BY <2>1, OneMoreCommand DEF KeptOK, NowStep, LaterStep
<1>6. KeptOK(cmds, Sorting!Fold(cmds, <<>>, DOMAIN cmds), DOMAIN cmds)
  BY <1>3, <1>4, <1>5, Sorting!FoldInv DEF Sorting!IsFiniteSet, IsFiniteSet
<1>7. KeptOK(cmds, Deferring!Fold(cmds, <<>>, DOMAIN cmds), DOMAIN cmds)
  BY <1>3, <1>4, <1>5, Deferring!FoldInv DEF Deferring!IsFiniteSet, IsFiniteSet
<1> QED BY <1>1, <1>2, <1>6, <1>7 DEF KeptOK

\* Reserve only names entities.
LEMMA PlacedOK ==
  ASSUME NEW cmd, NEW id, CommandOK(cmd)
  PROVE  CommandOK([cmd EXCEPT !.at = id])
<1> DEFINE n == [cmd EXCEPT !.at = id]
<1>1. /\ DOMAIN n = DOMAIN cmd
      /\ \A f \in DOMAIN cmd : f # "at" => n[f] = cmd[f]
  OBVIOUS
<1> HIDE DEF n
<1>2. n.op = cmd.op
  BY <1>1 DEF CommandOK
<1>3. cmd.op \in {"insert", "remove"} => n.type = cmd.type
  BY <1>1 DEF CommandOK
<1>4. cmd.op = "spawn" => n.bundle = cmd.bundle
  BY <1>1 DEF CommandOK
<1>5. CommandOK(n)
  BY <1>1, <1>2, <1>3, <1>4 DEF CommandOK
<1> QED BY <1>5 DEF n

ReserveStep(p, i, acc) ==
    IF p.list[i].op # "spawn"
    THEN [acc EXCEPT !.ops = Append(@, IF p.list[i].at = None
                                        THEN [p.list[i] EXCEPT !.at = acc.last] ELSE p.list[i])]
    ELSE LET slots == SpawnSlots(p.w, p.o)
             reuse == acc.used < Len(slots)
             id == IF reuse THEN slots[acc.used + 1] ELSE acc.next
         IN  [ops |-> Append(acc.ops, [p.list[i] EXCEPT !.at = id]), last |-> id,
              used |-> acc.used + 1, next |-> IF reuse THEN acc.next ELSE acc.next + 1]
ReserveInv(p, acc, done) == "ops" \in DOMAIN acc /\ CommandsOK(acc.ops)
Reserving == INSTANCE FoldFacts WITH op <- ReserveStep, pick <- LastOf, Inv <- ReserveInv

\* Reserving the ids of a body leaves its commands well-formed.
LEMMA ReserveOK ==
  ASSUME NEW w, NEW o, NEW body, CommandsOK(body)
  PROVE  CommandsOK(Reserve(w, o, body).ops)
<1> DEFINE p == [list |-> body, w |-> w, o |-> o]
           base == [ops |-> <<>>, last |-> None, used |-> 0, next |-> w.next]
           n == Reserve(w, o, body)
<1>0. p.list = body /\ p.w = w /\ p.o = o
  OBVIOUS
<1>1. n = Reserving!Fold(p, base, DOMAIN body)
  BY SMT DEF Reserve, FoldLeft, MapThenFoldSet, Reserving!Fold, ReserveStep, LastOf
<1>2. ReserveInv(p, base, {})
  BY NoCommands DEF ReserveInv
<1> HIDE DEF n, p, base
<1>3. IsFiniteSet(DOMAIN body) /\ \A s \in SUBSET DOMAIN body : s # {} => LastOf(s) \in s
  BY Commands, Positions
<1>4. ASSUME NEW acc, NEW s \in SUBSET DOMAIN body, s # {}, ReserveInv(p, acc, s \ {LastOf(s)})
      PROVE  ReserveInv(p, ReserveStep(p, LastOf(s), acc), s)
  <2> DEFINE cmd == body[LastOf(s)]
  <2>1. CommandOK(cmd) /\ "ops" \in DOMAIN acc /\ CommandsOK(acc.ops)
    BY <1>3, <1>4, Commands DEF ReserveInv
  <2>2. CASE cmd.op # "spawn"
    <3> DEFINE c == IF cmd.at = None THEN [cmd EXCEPT !.at = acc.last] ELSE cmd
    <3>1. ReserveStep(p, LastOf(s), acc) = [acc EXCEPT !.ops = Append(acc.ops, c)]
      BY <1>0, <2>2, Zenon DEF ReserveStep
    <3>2. CommandOK(c)
      <4>1. CASE cmd.at = None
        BY <4>1, <2>1, PlacedOK
      <4>2. CASE cmd.at # None
        BY <4>2, <2>1
      <4> QED BY <4>1, <4>2
    <3> HIDE DEF c
    <3>3. CommandsOK(Append(acc.ops, c))
      BY <2>1, <3>2, OneMoreCommand
    <3> QED BY <2>1, <3>1, <3>3 DEF ReserveInv
  <2>3. CASE cmd.op = "spawn"
    <3> DEFINE slots == SpawnSlots(w, o)
               reuse == acc.used < Len(slots)
               id == IF reuse THEN slots[acc.used + 1] ELSE acc.next
               c == [cmd EXCEPT !.at = id]
    <3>1. ReserveStep(p, LastOf(s), acc) =
            [ops |-> Append(acc.ops, c), last |-> id,
             used |-> acc.used + 1, next |-> IF reuse THEN acc.next ELSE acc.next + 1]
      BY <1>0, <2>3 DEF ReserveStep
    <3> HIDE DEF id, reuse
    <3>2. CommandOK(c)
      BY <2>1, PlacedOK
    <3> HIDE DEF c
    <3>3. CommandsOK(Append(acc.ops, c))
      BY <2>1, <3>2, OneMoreCommand
    <3> QED BY <3>1, <3>3 DEF ReserveInv
  <2> QED BY <2>2, <2>3
<1>5. ReserveInv(p, n, DOMAIN body)
  BY <1>1, <1>2, <1>3, <1>4, Reserving!FoldInv DEF Reserving!IsFiniteSet, IsFiniteSet
<1> QED BY <1>5 DEF ReserveInv, n

-----------------------------------------------------------------------------
(* The cascades and the commit *)

\* Dropping the memo entries of retired owners does not touch the world.
LEMMA RetireOwnersWorld ==
  ASSUME NEW x, NEW owners, NEW systems, "world" \in DOMAIN x
  PROVE  RetireOwners(x, owners, systems).world = x.world
  BY DEF RetireOwners

TurnStep(p, i, y) == Turn(y, p)
TurnInv(p, y, done) == Sound(y.world, {})
Turning == INSTANCE FoldFacts WITH op <- TurnStep, pick <- LastOf, Inv <- TurnInv

\* The removal cascade ends in a sound world, however many rounds it takes.
LEMMA CascadeSound ==
  ASSUME NEW x, NEW roots, NEW seen, NEW systems, Sound(x.world, {}), IsFiniteSet(Entities)
  PROVE  Sound(Cascade(x, roots, seen, systems).world, {})
<1> DEFINE base == [world |-> x.world, memo |-> x.memo, retired |-> x.retired,
                    seen |-> seen, frontier |-> roots]
           turns == [i \in 1 .. Cardinality(Entities) + 2 |-> i]
           end == Turning!Fold(systems, base, DOMAIN turns)
<1>1. Cascade(x, roots, seen, systems) = [world |-> end.world, memo |-> end.memo, retired |-> end.retired]
  BY SMT DEF Cascade, FoldLeft, MapThenFoldSet, Turning!Fold, TurnStep, LastOf
<1>2. IsList(turns)
  <2>1. Cardinality(Entities) + 2 \in Nat
    BY FS_CardinalityType
  <2>2. turns \in Seq(Nat)
    BY <2>1
  <2> QED BY <2>2 DEF IsList
<1>3. TurnInv(systems, base, {})
  BY DEF TurnInv
<1> HIDE DEF base, turns
<1>4. IsFiniteSet(DOMAIN turns) /\ \A s \in SUBSET DOMAIN turns : s # {} => LastOf(s) \in s
  BY <1>2, Positions
<1>5. ASSUME NEW y, NEW s \in SUBSET DOMAIN turns, s # {}, TurnInv(systems, y, s \ {LastOf(s)})
      PROVE  TurnInv(systems, TurnStep(systems, LastOf(s), y), s)
  <2>1. \/ Turn(y, systems) = y
        \/ Turn(y, systems).world = Retire(y.world, TouchedOwners(y.world, y.frontier, systems))
    BY DEF Turn, RemoveDerivedTouchedBy
  <2>2. \A owners : Sound(Retire(y.world, owners), {})
    BY <1>5, RetireSound DEF TurnInv
  <2> QED BY <1>5, <2>1, <2>2 DEF TurnInv, TurnStep
<1>6. TurnInv(systems, end, DOMAIN turns)
  BY <1>3, <1>4, <1>5, Turning!FoldInv DEF Turning!IsFiniteSet, IsFiniteSet
<1> HIDE DEF end
<1> QED BY <1>1, <1>6 DEF TurnInv

\* Reconciling removed entities and owners ends in a sound world.
LEMMA ReconcileRemovedSound ==
  ASSUME NEW x, NEW removed, NEW owners, NEW systems, "world" \in DOMAIN x, Sound(x.world, {}),
         IsFiniteSet(Entities)
  PROVE  Sound(ReconcileRemoved(x, removed, owners, systems).world, {})
<1>1. Sound(RetireOwners(x, owners, systems).world, {})
  BY RetireOwnersWorld
<1> QED BY <1>1, CascadeSound DEF ReconcileRemoved

\* The reconciliation at the end of a commit.
LEMMA ReconcileCommitSound ==
  ASSUME NEW w, NEW m, Sound(w, {}), IsFiniteSet(Entities)
  PROVE  Sound(ReconcileCommit(w, m).world, {})
<1> DEFINE b == [world |-> Drained(w), memo |-> m, retired |-> FALSE]
           x == RetireOwners(b, w.removedComponentOwners, Systems)
<1>1. x.world = Drained(w) /\ "world" \in DOMAIN x
  <2>1. "world" \in DOMAIN b /\ b.world = Drained(w)
    OBVIOUS
  <2> HIDE DEF b
  <2>2. "world" \in DOMAIN x
    BY <2>1 DEF RetireOwners
  <2> QED BY <2>1, <2>2, RetireOwnersWorld
<1>2. Sound(x.world, {})
  BY <1>1, DrainedSound
<1>3. ReconcileCommit(w, m) = x \/
      ReconcileCommit(w, m) = ReconcileRemoved(x, w.removedEntities, w.removedOwners, PairBound)
  BY DEF ReconcileCommit
<1> HIDE DEF x
<1> QED BY <1>1, <1>2, <1>3, ReconcileRemovedSound

\* The reconciliation of external removals.
LEMMA ReconcileInputsSound ==
  ASSUME NEW w, NEW m, Sound(w, {}), IsFiniteSet(Entities)
  PROVE  Sound(ReconcileInputs(w, m).world, {})
<1> DEFINE b == [world |-> Drained(w), memo |-> m, retired |-> FALSE]
           x == RetireOwners(b, w.removedComponentOwners, Systems)
<1>1. x.world = Drained(w) /\ "world" \in DOMAIN x
  <2>1. "world" \in DOMAIN b /\ b.world = Drained(w)
    OBVIOUS
  <2> HIDE DEF b
  <2>2. "world" \in DOMAIN x
    BY <2>1 DEF RetireOwners
  <2> QED BY <2>1, <2>2, RetireOwnersWorld
<1>2. Sound(x.world, {})
  BY <1>1, DrainedSound
<1>3. ReconcileInputs(w, m) = ReconcileRemoved(x, w.removedEntities, {}, Systems)
  BY DEF ReconcileInputs
<1> HIDE DEF x
<1> QED BY <1>1, <1>2, <1>3, ReconcileRemovedSound

\* The outputs of a run replace the previous ones of its owner.
LEMMA ReplacedSound ==
  ASSUME NEW w, NEW o, NEW cmds, Sound(w, {}), CommandsOK(cmds), IsFiniteSet(Components)
  PROVE  Sound(Replaced(w, o, cmds), {})
<1> DEFINE previous == OutputsOf(w, {o})
           taken == TakeOutputs(w, {o})
           applied == ApplyAll(taken, cmds, o)
           flushed == FlushDerivedFrom(applied)
           m == FinishDerivedSpawns(flushed, o)
<1>1. Replaced(w, o, cmds) = RemoveDerivedStale(m, previous)
  BY DEF Replaced
<1>2. IsFiniteSet(previous) /\ \A x \in previous : IsOutput(x)
  <2>1. previous \subseteq w.owned /\ IsFiniteSet(w.owned)
    BY DEF OutputsOf, Sound, Core, Finite
  <2> HIDE DEF previous
  <2> QED BY <2>1, FS_Subset, OwnedAreOutputs
<1>3. Sound(taken, previous)
  BY TakeOutputsSound
<1> HIDE DEF previous, taken
<1>4. Sound(applied, previous)
  BY <1>3, ApplyAllSound
<1> HIDE DEF applied
<1>5. Sound(flushed, previous)
  BY <1>4, FlushSound
<1> HIDE DEF flushed
<1>6. Sound(m, previous)
  BY <1>5, FinishSound
<1> HIDE DEF m
<1> QED BY <1>1, <1>2, <1>6, StaleSound

RetireStep(p, o, v) == RemoveDerivedOwned(v, o)
Retiring == INSTANCE FoldFacts WITH op <- RetireStep, pick <- AnyOf, Inv <- SoundInv
RetiredAll(w, owners) == FoldSet(LAMBDA o, v : RemoveDerivedOwned(v, o), w, owners)

\* Retiring a set of owners ends in a sound world.
LEMMA RetiredAllSound ==
  ASSUME NEW w, NEW owners, IsFiniteSet(owners), Sound(w, {})
  PROVE  Sound(RetiredAll(w, owners), {})
<1> DEFINE p == {}
           n == RetiredAll(w, owners)
<1>1. n = Retiring!Fold(p, w, owners)
  BY SMT DEF RetiredAll, FoldSet, MapThenFoldSet, Retiring!Fold, RetireStep, AnyOf
<1>2. SoundInv(p, w, {})
  BY DEF SoundInv
<1>3. ASSUME NEW v, NEW s \in SUBSET owners, s # {}, SoundInv(p, v, s \ {AnyOf(s)})
      PROVE  SoundInv(p, RetireStep(p, AnyOf(s), v), s)
  BY <1>3, RetireSound DEF SoundInv, RetireStep, RemoveDerivedOwned
<1> HIDE DEF n, p
<1>4. SoundInv(p, n, owners)
  <2>1. \A s \in SUBSET owners : s # {} => AnyOf(s) \in s
    BY AnyOfMember
  <2> QED BY <1>1, <1>2, <1>3, <2>1, Retiring!FoldInv DEF Retiring!IsFiniteSet, IsFiniteSet
<1> QED BY <1>4 DEF SoundInv, n, p

DeferredStep(p, i, v) == ApplyAll(v, p[i][2], p[i][1])
DeferredInv(p, v, done) == Sound(v, {})
Settling == INSTANCE FoldFacts WITH op <- DeferredStep, pick <- LastOf, Inv <- DeferredInv

\* The outputs the settle phase deferred.
LEMMA SettledSound ==
  ASSUME NEW w, NEW outs, IsList(outs), \A i \in DOMAIN outs : CommandsOK(outs[i][2]),
         Sound(w, {}), IsFiniteSet(Components)
  PROVE  Sound(Settled(w, outs), {})
<1> DEFINE n == Settled(w, outs)
<1>1. n = Settling!Fold(outs, w, DOMAIN outs)
  BY SMT DEF Settled, FoldLeft, MapThenFoldSet, Settling!Fold, DeferredStep, LastOf
<1> HIDE DEF n
<1>2. IsFiniteSet(DOMAIN outs) /\ \A s \in SUBSET DOMAIN outs : s # {} => LastOf(s) \in s
  BY Positions
<1>3. DeferredInv(outs, w, {})
  BY DEF DeferredInv
<1>4. ASSUME NEW v, NEW s \in SUBSET DOMAIN outs, s # {}, DeferredInv(outs, v, s \ {LastOf(s)})
      PROVE  DeferredInv(outs, DeferredStep(outs, LastOf(s), v), s)
  <2>1. CommandsOK(outs[LastOf(s)][2]) /\ Sound(v, {})
    BY <1>2, <1>4 DEF DeferredInv
  <2> QED BY <2>1, ApplyAllSound DEF DeferredInv, DeferredStep
<1>5. DeferredInv(outs, n, DOMAIN outs)
  BY <1>1, <1>2, <1>3, <1>4, Settling!FoldInv DEF Settling!IsFiniteSet, IsFiniteSet
<1> QED BY <1>5 DEF DeferredInv, n

-----------------------------------------------------------------------------
(* The specification *)

\* What a run buffers and writes in place.
BodyOK(body) ==
    /\ CommandsOK(body.commands)
    /\ IsFiniteSet(body.writes) /\ \A x \in body.writes : PlainRow(x)

\* Programs the theorem is about: nobody but the engine writes an inverse, and
\* edges change by commands.
Admissible ==
    /\ IsFiniteSet(Components) /\ IsFiniteSet(Entities) /\ SettleSystems \subseteq Systems
    /\ Sound(InitWorld, {})
    /\ \A cmd \in Inputs : CommandOK(cmd)
    /\ \A s \in Systems : \A keys, w : Sound(w, {}) => \A body \in Bodies(s, keys, w) : BodyOK(body)

\* The buffers in flight, queued and deferred are well formed, and the snapshot of
\* the settle phase is a world like the live one.
RunOK(r) ==
    /\ CommandsOK(r.commands)
    /\ IsFiniteSet(r.writes) /\ \A x \in r.writes : PlainRow(x)
QueuesOK(list) == IsList(list) /\ \A i \in DOMAIN list : CommandsOK(list[i][2])
FactsInv ==
    /\ Sound(world, {})
    /\ mode = "settle" => Sound(snap, {})
    /\ \A o \in todo : o.system \in Systems
    /\ \A r \in runs : RunOK(r)
    /\ CommandsOK(pending) /\ QueuesOK(deferred)

\* A sound world has exact indexes.
LEMMA SoundExact ==
  ASSUME NEW w, Sound(w, {})
  PROVE  /\ OwnersExact(w) /\ FingerprintsExact(w) /\ PresenceExact(w)
         /\ InversesExact(w) /\ RevisionsBounded(w)
<1>1. FingerprintsExact(w) /\ PresenceExact(w) /\ RevisionsBounded(w)
  BY DEF Sound, Core, Exact, Indexed
<1>2. OwnersExact(w)
  <2>1. w.owned = Live(w)
    BY DEF Sound, Core, Exact, OwnersOwed
  <2> QED BY <2>1 DEF OwnersExact, Live
<1>3. InversesExact(w)
  <2> SUFFICES ASSUME NEW c \in DOMAIN InverseOf, NEW e \in Entities
               PROVE  Members(w, InverseOf[c], e) = {s \in DOMAIN w.entries[c] : Entry(w, c, s).value = e}
    BY DEF InversesExact
  <2> DEFINE M == Members(w, InverseOf[c], e)
  <2>1. \A s : s \in M <=> s \in DOMAIN w.entries[c] /\ w.entries[c][s].value = e
    BY DEF Sound, Linked, Edge, Member, Edges
  <2> HIDE DEF M
  <2>2. M = {s \in DOMAIN w.entries[c] : Entry(w, c, s).value = e}
    BY <2>1 DEF Entry
  <2> QED BY <2>2 DEF M
<1> QED BY <1>1, <1>2, <1>3

\* The invariant holds initially.
LEMMA InvInit ==
  ASSUME Admissible, Init
  PROVE  FactsInv
<1>1. IsList(<<>>)
  BY NoCommands, Commands
<1>2. QueuesOK(<<>>)
  BY <1>1 DEF QueuesOK
<1> QED BY <1>2, NoCommands DEF Admissible, Init, FactsInv

\* One more well-formed queue held until the settle.
LEMMA OneMoreQueue ==
  ASSUME NEW list, NEW o, NEW cmds, QueuesOK(list), CommandsOK(cmds)
  PROVE  QueuesOK(Append(list, <<o, cmds>>))
<1> DEFINE x == <<o, cmds>>
<1>0. x[2] = cmds
  OBVIOUS
<1> HIDE DEF x
<1>1. IsList(Append(list, x))
  BY AppendList DEF QueuesOK
<1>2. PICK S : list \in Seq(S)
  BY DEF QueuesOK, IsList
<1>3. ASSUME NEW i \in DOMAIN Append(list, x)
      PROVE  (i \in DOMAIN list /\ Append(list, x)[i] = list[i]) \/ Append(list, x)[i] = x
  BY <1>2
<1>4. ASSUME NEW i \in DOMAIN Append(list, x) PROVE CommandsOK(Append(list, x)[i][2])
  BY <1>0, <1>3 DEF QueuesOK
<1> QED BY <1>1, <1>4 DEF QueuesOK, x

\* An invocation starts.
LEMMA StartKeeps ==
  ASSUME FactsInv, Admissible, NEW w, NEW o, NEW body, Start(w, o, body), BodyOK(body)
  PROVE  /\ Sound(world', {}) /\ \A r \in runs' : RunOK(r)
         /\ UNCHANGED <<snap, pending, deferred, mode>>
<1> DEFINE buffer == Reserve(world, o, body.commands)
           writes == {<<x[1], x[2]>> : x \in body.writes}
           r == [owner |-> o, deps |-> Deps(w, o.system, o.keys), commands |-> buffer.ops, writes |-> writes]
           m == Written(world, body.writes)
<1>1. /\ runs' = runs \cup {r} /\ world' = [m EXCEPT !.next = buffer.next]
      /\ UNCHANGED <<snap, pending, deferred, mode>>
  BY Zenon DEF Start, Written
<1>2. CommandsOK(buffer.ops)
  BY ReserveOK DEF BodyOK
<1>3. IsFiniteSet(writes)
  <2> DEFINE f == [x \in body.writes |-> <<x[1], x[2]>>]
  <2>1. f \in Surjection(body.writes, writes)
    BY DEF Surjection
  <2> HIDE DEF f, writes
  <2> QED BY <2>1, FS_Surjection DEF BodyOK
<1>4. \A x \in writes : PlainRow(x)
  BY DEF BodyOK, PlainRow
<1>5. RunOK(r)
  <2> HIDE DEF writes, buffer
  <2> QED BY <1>2, <1>3, <1>4 DEF RunOK
<1>6. Sound(m, {})
  BY WrittenSound DEF FactsInv, BodyOK
<1> HIDE DEF m, r, buffer
<1>7. Sound(world', {})
  BY <1>1, <1>6, NextIdSound
<1> QED BY <1>1, <1>5, <1>7 DEF FactsInv

\* run: the result waits, the world is not touched.
LEMMA RunKeeps ==
  ASSUME FactsInv, Admissible, NEW s \in Systems, NEW o \in Due(world, s),
         NEW body \in Bodies(s, o.keys, world), Run(o, body)
  PROVE  FactsInv'
<1>1. BodyOK(body)
  BY DEF FactsInv, Admissible
<1>2. Start(world, o, body) /\ todo' = todo
  BY DEF Run
<1>3. /\ Sound(world', {}) /\ \A r \in runs' : RunOK(r)
      /\ UNCHANGED <<snap, pending, deferred, mode>>
  BY <1>1, <1>2, StartKeeps
<1> QED BY <1>2, <1>3 DEF FactsInv

\* A settle system runs on the frozen snapshot.
LEMMA RunSettleKeeps ==
  ASSUME FactsInv, Admissible, NEW o \in todo, NEW body \in Bodies(o.system, o.keys, snap),
         RunSettle(o, body)
  PROVE  FactsInv'
<1>1. BodyOK(body)
  BY DEF FactsInv, Admissible, RunSettle
<1>2. Start(snap, o, body) /\ todo' = todo \ {o}
  BY DEF RunSettle
<1>3. /\ Sound(world', {}) /\ \A r \in runs' : RunOK(r)
      /\ UNCHANGED <<snap, pending, deferred, mode>>
  BY <1>1, <1>2, StartKeeps
<1> QED BY <1>2, <1>3 DEF FactsInv

\* A result of a superseded planning is dropped.
LEMMA CommitStaleKeeps ==
  ASSUME FactsInv, NEW r \in runs, CommitStale(r)
  PROVE  FactsInv'
<1>1. Sound(ReconcileWritten(world, r.writes), {})
  BY ReconcileWrittenSound DEF FactsInv, RunOK
<1> QED BY <1>1 DEF CommitStale, FactsInv

\* commit_invocation, with the stale sweep, the change log and the removals.
LEMMA CommitKeeps ==
  ASSUME FactsInv, Admissible, NEW r \in runs, Commit(r)
  PROVE  FactsInv'
<1> DEFINE now == IF mode = "settle" THEN Immediate(r.commands) ELSE r.commands
           later == IF mode = "settle" THEN Held(r.commands) ELSE <<>>
           replaced == Replaced(world, r.owner, now)
           written == ReconcileWritten(replaced, r.writes)
           m == (r.owner :> RefreshWritten(written, r.deps, r.writes)) @@ held
           x == ReconcileCommit(written, m)
<1>1. /\ world' = x.world /\ runs' = runs \ {r}
      /\ deferred' = IF later = <<>> THEN deferred ELSE Append(deferred, <<r.owner, later>>)
      /\ UNCHANGED <<todo, snap, pending, mode>>
  BY Zenon DEF Commit
<1>2. RunOK(r)
  BY DEF FactsInv
<1>3. CommandsOK(now) /\ CommandsOK(later)
  BY <1>2, HalvesOK, NoCommands DEF RunOK
<1> HIDE DEF now, later
<1>4. Sound(replaced, {})
  BY <1>3, ReplacedSound DEF FactsInv, Admissible
<1> HIDE DEF replaced
<1>5. Sound(written, {})
  BY <1>2, <1>4, ReconcileWrittenSound DEF RunOK
<1> HIDE DEF written, m
<1>6. Sound(x.world, {})
  BY <1>5, ReconcileCommitSound DEF Admissible
<1> HIDE DEF x
<1>7. QueuesOK(deferred')
  BY <1>1, <1>3, OneMoreQueue DEF FactsInv
<1> QED BY <1>1, <1>6, <1>7 DEF FactsInv

\* The start of an evaluation: pending inputs are applied and reconciled.
LEMMA StartEvaluationKeeps ==
  ASSUME FactsInv, Admissible, StartEvaluation
  PROVE  FactsInv'
<1> DEFINE rolled == RollPlanEpoch(world, 0)
           settled == Settled(rolled, deferred)
           applied == ApplyAll(settled, pending, None)
           written == FlushDerivedFrom(applied)
           x == ReconcileInputs(written, memo)
<1>1. /\ world' = x.world /\ pending' = <<>> /\ deferred' = <<>> /\ mode' = "normal"
      /\ UNCHANGED <<runs, todo, snap>>
  BY Zenon DEF StartEvaluation, Settled
<1>2. Sound(rolled, {})
  BY RollSound DEF FactsInv
<1> HIDE DEF rolled
<1>3. Sound(settled, {})
  BY <1>2, SettledSound DEF FactsInv, QueuesOK, Admissible
<1> HIDE DEF settled
<1>4. Sound(applied, {})
  BY <1>3, ApplyAllSound DEF FactsInv, Admissible
<1> HIDE DEF applied
<1>5. Sound(written, {})
  BY <1>4, FlushSound
<1> HIDE DEF written
<1>6. Sound(x.world, {})
  BY <1>5, ReconcileInputsSound DEF Admissible
<1> HIDE DEF x
<1>7. CommandsOK(<<>>) /\ QueuesOK(<<>>)
  BY NoCommands, Commands DEF QueuesOK
<1> QED BY <1>1, <1>6, <1>7 DEF FactsInv

\* The cleanup of a bound entity whose host is gone.
LEMMA CleanupKeeps ==
  ASSUME FactsInv, Admissible, NEW b, CleanupBound(b)
  PROVE  FactsInv'
<1> DEFINE y == [world |-> world, memo |-> memo, retired |-> FALSE]
           x == Cascade(y, {b}, {}, Systems)
           owners == OwnersOn(x.world, b)
           m == RemoveEntity(x.world, b)
<1>1. /\ world' = RetiredAll(m, owners)
      /\ UNCHANGED <<runs, todo, snap, pending, deferred, mode>>
  BY Zenon DEF CleanupBound, RetiredAll
<1>2. Sound(x.world, {})
  <2>1. Sound(y.world, {})
    BY DEF FactsInv
  <2> HIDE DEF y
  <2> QED BY <2>1, CascadeSound DEF Admissible
<1> HIDE DEF x
<1>3. Sound(m, {})
  BY <1>2, RemoveEntitySound DEF Admissible
<1> HIDE DEF m
<1>4. IsFiniteSet(owners)
  <2> DEFINE types == {t \in Components : Has(x.world, t, b)}
             all == {Entry(x.world, c, b).owner : c \in types}
             f == [c \in types |-> Entry(x.world, c, b).owner]
  <2>1. IsFiniteSet(types)
    BY FS_Subset DEF Admissible
  <2>2. f \in Surjection(types, all)
    BY DEF Surjection
  <2>3. owners \subseteq all
    BY DEF OwnersOn
  <2> HIDE DEF types, all, f, owners
  <2>4. IsFiniteSet(all)
    BY <2>1, <2>2, FS_Surjection
  <2> QED BY <2>3, <2>4, FS_Subset
<1> HIDE DEF owners
<1>5. Sound(world', {})
  BY <1>1, <1>3, <1>4, RetiredAllSound
<1> QED BY <1>1, <1>5 DEF FactsInv

\* The settle phase freezes its snapshot, which is a sound world.
LEMMA BeginSettleKeeps ==
  ASSUME FactsInv, Admissible, BeginSettle
  PROVE  FactsInv'
<1>1. \A s : \A o \in Due(world, s) : o.system = s
  BY DEF Due, Owner
<1>2. todo' = UNION {Due(world, s) : s \in SettleSystems} /\ SettleSystems \subseteq Systems
  BY DEF BeginSettle, Admissible
<1>3. \A o \in todo' : o.system \in Systems
  BY <1>1, <1>2
<1> QED BY <1>3 DEF BeginSettle, FactsInv

\* A concatenation of two well-formed queues.
LEMMA JoinedCommands ==
  ASSUME NEW cmds, NEW more, CommandsOK(cmds), IsList(more),
         \A i \in DOMAIN more : CommandOK(more[i])
  PROVE  CommandsOK(cmds \o more)
<1>1. PICK S : cmds \in Seq(S) /\ \A c \in S : CommandOK(c)
  BY DEF CommandsOK
<1>2. PICK R : more \in Seq(R)
  BY DEF IsList
<1> DEFINE T == S \cup {more[i] : i \in DOMAIN more}
<1>3. cmds \in Seq(T) /\ more \in Seq(T) /\ \A c \in T : CommandOK(c)
  BY <1>1, <1>2
<1> HIDE DEF T
<1>4. cmds \o more \in Seq(T)
  BY <1>3
<1> QED BY <1>3, <1>4 DEF CommandsOK

\* A caller's insert: its marker is registered and the parts are queued.
LEMMA QueueInsertKeeps ==
  ASSUME FactsInv, Admissible, NEW cmd \in Inputs, QueueInsert(cmd)
  PROVE  FactsInv'
<1> DEFINE at == HomeOf(world, cmd.bundle, world.next)
           m == RegisterMarkers(world, cmd.bundle, at)
           id == IF at = m.next THEN m.next + 1 ELSE m.next
           more == [i \in DOMAIN cmd.bundle |->
                      [op |-> "insert", at |-> at, type |-> cmd.bundle[i][1],
                       value |-> cmd.bundle[i][2]]]
<1>1. /\ world' = [m EXCEPT !.next = id] /\ pending' = pending \o more
      /\ UNCHANGED <<runs, todo, snap, deferred, mode>>
  BY Zenon DEF QueueInsert
<1>2. /\ CommandOK(cmd) /\ cmd.op = "spawn" /\ IsList(cmd.bundle)
      /\ \A i \in DOMAIN cmd.bundle : cmd.bundle[i][1] \in Writable
  BY DEF Admissible, QueueInsert, CommandOK
<1> HIDE DEF at
<1>3. \A i \in DOMAIN more : CommandOK(more[i])
  BY <1>2 DEF CommandOK
<1>4. IsList(more)
  <2>1. PICK S : cmd.bundle \in Seq(S)
    BY <1>2 DEF IsList
  <2>2. Len(cmd.bundle) \in Nat /\ DOMAIN cmd.bundle = 1 .. Len(cmd.bundle)
    BY <2>1
  <2> DEFINE R == {more[i] : i \in DOMAIN cmd.bundle}
  <2>3. more \in [1 .. Len(cmd.bundle) -> R]
    BY <2>2
  <2> HIDE DEF more, R
  <2>4. more \in Seq(R)
    BY <2>2, <2>3
  <2> QED BY <2>4 DEF IsList
<1> HIDE DEF more
<1>5. CommandsOK(pending')
  BY <1>1, <1>3, <1>4, JoinedCommands DEF FactsInv
<1>6. Sound(m, {})
  BY RegisteredSound DEF FactsInv, Admissible
<1> HIDE DEF m, id
<1>7. Sound(world', {})
  BY <1>1, <1>6, NextIdSound
<1> QED BY <1>1, <1>5, <1>7 DEF FactsInv

\* Every step keeps the invariant.
LEMMA InvNext ==
  ASSUME FactsInv, Admissible, [Next]_vars
  PROVE  FactsInv'
<1>1. CASE UNCHANGED vars
  BY <1>1 DEF vars, FactsInv
<1>2. ASSUME NEW cmd \in Inputs, Queue(cmd) PROVE FactsInv'
  <2>1. CommandsOK(pending')
    BY <1>2, OneMoreCommand DEF FactsInv, Queue, Admissible
  <2> QED BY <1>2, <2>1 DEF FactsInv, Queue
<1>3. CASE EndSettle
  BY <1>3 DEF FactsInv, EndSettle
<1> QED BY <1>1, <1>2, <1>3, QueueInsertKeeps, RunKeeps, RunSettleKeeps, CommitStaleKeeps, CommitKeeps,
           StartEvaluationKeeps, CleanupKeeps, BeginSettleKeeps DEF Next

\* Every index the engine consults instead of the stores agrees with them, in
\* every reachable state: owners, fingerprints, presence, inverses, revisions.
THEOREM IndexesAreExact == Admissible => (Spec => []IndexesExact)
<1> SUFFICES ASSUME Admissible PROVE Spec => []IndexesExact
  OBVIOUS
<1>1. Init => FactsInv
  BY InvInit
<1>2. FactsInv /\ [Next]_vars => FactsInv'
  BY InvNext
<1>3. FactsInv => IndexesExact
  BY SoundExact DEF FactsInv, IndexesExact
<1> QED BY <1>1, <1>2, <1>3, PTL DEF Spec

\* At most one entity carries a singleton marker: wherever callers and systems
\* send a singleton bundle, it lands on the entity the marker is registered on.
THEOREM SingletonsAreUnique == Admissible => (Spec => []SingletonUnique)
<1> SUFFICES ASSUME Admissible PROVE Spec => []SingletonUnique
  OBVIOUS
<1>1. Init => FactsInv
  BY InvInit
<1>2. FactsInv /\ [Next]_vars => FactsInv'
  BY InvNext
<1>3. FactsInv => SingletonUnique
  <2> SUFFICES ASSUME FactsInv, NEW c \in Singletons
               PROVE  Cardinality(DOMAIN world.entries[c]) <= 1
    BY DEF SingletonUnique
  <2> DEFINE home == {world.singletons[c]}
  <2>1. DOMAIN world.entries[c] \subseteq home
    BY DEF FactsInv, Sound, Core, Homed, At
  <2>2. IsFiniteSet(home) /\ Cardinality(home) = 1
    BY FS_Singleton
  <2> HIDE DEF home
  <2> QED BY <2>1, <2>2, FS_Subset
<1> QED BY <1>1, <1>2, <1>3, PTL DEF Spec
=============================================================================
