--------------------------- MODULE DispatchProofs ---------------------------
(***************************************************************************)
(* Proofs about Dispatch, for every set of rows and cells, every batch     *)
(* size and every number of tasks: the lock words of the cells count the   *)
(* guards that exist, a parked thread has something to wait for, a         *)
(* reservation has a result still to come, no in-place write is left       *)
(* unpublished where callers may write, and threads that take their cells  *)
(* in one order never wait in a circle.                                    *)
(***************************************************************************)
EXTENDS Dispatch, FiniteSetTheorems, WellFoundedInduction, TLAPS

TypeOK ==
    /\ parallel \in BOOLEAN
    /\ cell \in [Cells -> [readers : Nat, writer : BOOLEAN]]
    /\ tasks \in [Slots -> Task \cup {None}]
    /\ reserved \subseteq Rows /\ due \subseteq Rows /\ dirty \subseteq Rows
    /\ pc \in {"idle", "plan", "wait", "drain", "window"}
    /\ mutator \in [st : {"idle", "waiting", "writing"}, at : Cells \cup {None}]
    /\ scoop \in [st : {"done", "fetch", "parked"}, held : 0 .. Len(ScoopCells)]
    /\ cow \in [st : {"done", "locked", "parked", "writing"}, at : Cells \cup {None}]
    /\ events \in Nat

\* A caller that waits for a cell, or has it, names it.
CallersOK ==
    /\ mutator.st # "idle" => mutator.at \in Cells
    /\ scoop.st = "done" => scoop.held = 0
    /\ scoop.st = "parked" => scoop.held < Len(ScoopCells)
    /\ cow.st # "done" => cow.at \in Cells

\* How far the rows of a task are, and the guards they hold: none before the
\* first fetch and after the result, all of them in the body; a synchronous row
\* holds guards only while the task is busy with it.
RowsOK(t) ==
    /\ \A r \in Rows : t.held[r] <= Len(Accesses[r])
    /\ \A r \in Rows : t.st[r] \in {"new", "sent"} => t.held[r] = 0
    /\ \A r \in Rows : t.st[r] \in {"fetch", "parked"} => t.held[r] < Len(Accesses[r])
    /\ \A r \in Rows : t.held[r] # 0 => r \in t.rows /\ (r \in Sync => r = t.cur)
    /\ t.cur # None => t.cur \in t.rows
    /\ t.run = "done" => \A r \in t.rows : t.st[r] = "sent"

\* Every result in the completion channel is there once and was sent.
ChanOK(t) ==
    /\ \A n \in DOMAIN t.chan : t.chan[n] \in t.rows /\ t.st[t.chan[n]] = "sent"
    /\ \A m, n \in DOMAIN t.chan : t.chan[m] = t.chan[n] => m = n

\* A batch holds rows of one sort, and only batches of readers are cancelled.
BatchOK(t) ==
    /\ \A q, r \in t.rows : (Writes(q) <=> Writes(r)) /\ (q \in Sync <=> r \in Sync)
    /\ t.fate = "cancelled" => \A r \in t.rows : ~Writes(r)

TaskOK(t) == RowsOK(t) /\ ChanOK(t) /\ BatchOK(t)

TasksOK(ts) == \A k \in Slots : ts[k] # None => TaskOK(ts[k])

-----------------------------------------------------------------------------
(* Tasks *)

\* An empty slot is no task and no row.
LEMMA NoneIsNoTask == None \notin Task /\ None \notin Rows
BY DispatchAssumption

\* The plan of a row is a list of accesses to cells.
LEMMA AccessesType ==
  ASSUME NEW r \in Rows
  PROVE  /\ Accesses[r] \in Seq([cell : Cells, kind : Kinds])
         /\ Len(Accesses[r]) \in Nat /\ DOMAIN Accesses[r] = 1 .. Len(Accesses[r])
         /\ \A n \in DOMAIN Accesses[r] :
                /\ Accesses[r][n] \in [cell : Cells, kind : Kinds]
                /\ Accesses[r][n].cell \in Cells /\ Accesses[r][n].kind \in Kinds
<1> DEFINE A == [cell : Cells, kind : Kinds]
<1>1. Accesses \in [Rows -> Seq(A)]
  BY DispatchAssumption
<1> HIDE DEF A
<1>2. Accesses[r] \in Seq(A)
  BY <1>1
<1>3. \A n \in DOMAIN Accesses[r] : Accesses[r][n] \in A
  BY <1>2
<1>4. Len(Accesses[r]) \in Nat /\ DOMAIN Accesses[r] = 1 .. Len(Accesses[r])
  BY <1>2
<1> QED BY <1>2, <1>3, <1>4 DEF A

\* What a parked thread waits for is an access of its row.
LEMMA NextAccessType ==
  ASSUME NEW t \in Task, RowsOK(t), t.cur # None, t.st[t.cur] \in {"fetch", "parked"}
  PROVE  /\ t.cur \in Rows /\ t.held[t.cur] + 1 \in DOMAIN Accesses[t.cur]
         /\ NextAccess(t) = Accesses[t.cur][t.held[t.cur] + 1]
         /\ NextAccess(t).cell \in Cells /\ NextAccess(t).kind \in Kinds
<1>1. t.cur \in Rows /\ t.held[t.cur] \in Nat
  BY DEF Task
<1>2. t.held[t.cur] < Len(Accesses[t.cur])
  BY <1>1 DEF RowsOK
<1>3. t.held[t.cur] + 1 \in DOMAIN Accesses[t.cur]
  BY <1>1, <1>2, AccessesType
<1>4. NextAccess(t) = Accesses[t.cur][t.held[t.cur] + 1]
  BY DEF NextAccess, FetchOrder
<1> QED BY <1>1, <1>3, <1>4, AccessesType

\* notify_all moves parked rows back to their fetch and changes nothing else.
LEMMA WokenKeeps ==
  ASSUME NEW ts \in [Slots -> Task \cup {None}], NEW awake, NEW k \in Slots
  PROVE  /\ Woken(ts, awake)[k] \in Task \cup {None}
         /\ Woken(ts, awake)[k] = None <=> ts[k] = None
         /\ ts[k] # None =>
              /\ ts[k] \in Task /\ Woken(ts, awake)[k] \in Task
              /\ Woken(ts, awake)[k].rows = ts[k].rows
              /\ Woken(ts, awake)[k].held = ts[k].held
              /\ Woken(ts, awake)[k].cur = ts[k].cur
              /\ Woken(ts, awake)[k].run = ts[k].run
              /\ Woken(ts, awake)[k].chan = ts[k].chan
              /\ Woken(ts, awake)[k].fate = ts[k].fate
              /\ \A r \in Rows : \/ Woken(ts, awake)[k].st[r] = ts[k].st[r]
                                 \/ /\ ts[k].st[r] = "parked"
                                    /\ Woken(ts, awake)[k].st[r] = "fetch"
              /\ Parked(Woken(ts, awake)[k]) =>
                    Parked(ts[k]) /\ NextAccess(ts[k]).cell \notin awake
<1> DEFINE w == Woken(ts, awake)[k]
<1>1. CASE Parked(ts[k]) /\ NextAccess(ts[k]).cell \in awake
  <2>1. w = [ts[k] EXCEPT !.st[ts[k].cur] = "fetch"]
    BY <1>1 DEF Woken
  <2>2. ts[k] \in Task /\ ts[k].cur \in Rows /\ ts[k].st[ts[k].cur] = "parked"
    BY <1>1 DEF Parked, Task
  <2> HIDE DEF w
  <2>3. w \in Task
    BY <2>1, <2>2 DEF Task
  <2>4. /\ w.rows = ts[k].rows /\ w.held = ts[k].held /\ w.cur = ts[k].cur
        /\ w.run = ts[k].run /\ w.chan = ts[k].chan /\ w.fate = ts[k].fate
        /\ w.st = [ts[k].st EXCEPT ![ts[k].cur] = "fetch"]
    BY <2>1, <2>2 DEF Task
  <2>5. w.st[w.cur] = "fetch"
    BY <2>2, <2>4 DEF Task
  <2>6. ~Parked(w)
    BY <2>5 DEF Parked
  <2>7. \A r \in Rows : w.st[r] = ts[k].st[r] \/ (ts[k].st[r] = "parked" /\ w.st[r] = "fetch")
    BY <2>2, <2>4 DEF Task
  <2> QED BY <2>2, <2>3, <2>4, <2>6, <2>7, NoneIsNoTask DEF w
<1>2. CASE ~(Parked(ts[k]) /\ NextAccess(ts[k]).cell \in awake)
  <2>1. w = ts[k]
    BY <1>2 DEF Woken
  <2> QED BY <1>2, <2>1, NoneIsNoTask
<1> QED BY <1>1, <1>2

\* A wake-up leaves every task well-formed.
LEMMA WokenTasks ==
  ASSUME NEW ts \in [Slots -> Task \cup {None}], NEW awake, TasksOK(ts)
  PROVE  Woken(ts, awake) \in [Slots -> Task \cup {None}] /\ TasksOK(Woken(ts, awake))
<1>1. Woken(ts, awake) \in [Slots -> Task \cup {None}]
  <2>1. \A k \in Slots : Woken(ts, awake)[k] \in Task \cup {None}
    BY WokenKeeps
  <2> QED BY <2>1 DEF Woken
<1>2. ASSUME NEW k \in Slots, Woken(ts, awake)[k] # None
      PROVE  TaskOK(Woken(ts, awake)[k])
  <2> DEFINE w == Woken(ts, awake)[k]
  <2>1. /\ ts[k] \in Task /\ w \in Task /\ TaskOK(ts[k])
        /\ w.rows = ts[k].rows /\ w.held = ts[k].held /\ w.cur = ts[k].cur
        /\ w.run = ts[k].run /\ w.chan = ts[k].chan /\ w.fate = ts[k].fate
        /\ \A r \in Rows : w.st[r] = ts[k].st[r] \/ (ts[k].st[r] = "parked" /\ w.st[r] = "fetch")
    BY <1>2, WokenKeeps DEF TasksOK
  <2> HIDE DEF w
  <2>2. RowsOK(w)
    BY <2>1 DEF TaskOK, RowsOK, Task
  <2>3. ChanOK(w)
    BY <2>1 DEF TaskOK, ChanOK, Task
  <2>4. BatchOK(w)
    BY <2>1 DEF TaskOK, BatchOK
  <2> QED BY <2>2, <2>3, <2>4 DEF TaskOK, w
<1> QED BY <1>1, <1>2 DEF TasksOK

-----------------------------------------------------------------------------
(* Counting guards *)

\* The guards row r of task k has, and the guards of a cell that rows have.
HeldBy(ts, k, r) == IF ts[k] = None THEN 0 ELSE ts[k].held[r]

Guards(ts, c, kind) ==
    {g \in (Slots \X Rows) \X Positions :
        /\ g[2] <= HeldBy(ts, g[1][1], g[1][2])
        /\ Accesses[g[1][2]][g[2]] = [cell |-> c, kind |-> kind]}

\* The longest plan bounds the positions of the plans.
LEMMA PositionsFinite == Positions \subseteq Nat \ {0} /\ IsFiniteSet(Positions)
<1> DEFINE D == {DOMAIN Accesses[r] : r \in Rows}
           f == [r \in Rows |-> DOMAIN Accesses[r]]
<1>1. f \in Surjection(Rows, D)
  BY DEF Surjection
<1>2. IsFiniteSet(Rows)
  BY DispatchAssumption
<1>3. IsFiniteSet(D)
  <2> HIDE DEF f, D
  <2> QED BY <1>1, <1>2, FS_Surjection
<1>4. ASSUME NEW S \in D PROVE IsFiniteSet(S) /\ S \subseteq Nat \ {0}
  <2>1. PICK r \in Rows : S = 1 .. Len(Accesses[r]) /\ Len(Accesses[r]) \in Nat
    BY <1>4, AccessesType
  <2>2. IsFiniteSet(1 .. Len(Accesses[r]))
    BY <2>1, FS_Interval
  <2> QED BY <2>1, <2>2
<1>5. IsFiniteSet(UNION D)
  <2> HIDE DEF D
  <2> QED BY <1>3, <1>4, FS_UNION
<1> QED BY <1>4, <1>5 DEF Positions

\* There are finitely many slots, and so finitely many places for a guard.
LEMMA SlotsFinite == IsFiniteSet(Slots) /\ IsFiniteSet((Slots \X Rows) \X Positions)
<1>1. MaxTasks \in Nat /\ IsFiniteSet(Rows)
  BY DispatchAssumption
<1>2. IsFiniteSet(Slots)
  BY <1>1, FS_Interval DEF Slots
<1>3. IsFiniteSet(Slots \X Rows)
  BY <1>1, <1>2, FS_Product
<1> QED BY <1>2, <1>3, PositionsFinite, FS_Product

\* The guards on a cell can be counted.
LEMMA GuardsFinite ==
  ASSUME NEW ts, NEW c, NEW kind
  PROVE  IsFiniteSet(Guards(ts, c, kind)) /\ Cardinality(Guards(ts, c, kind)) \in Nat
<1>1. Guards(ts, c, kind) \in SUBSET ((Slots \X Rows) \X Positions)
  BY DEF Guards
<1> QED BY <1>1, SlotsFinite, FS_Subset, FS_CardinalityType

\* A fetch adds one guard to its cell and none to another.
LEMMA GuardsTaken ==
  ASSUME NEW ts, NEW us, NEW k \in Slots, NEW r \in Rows, NEW c, NEW kind,
         HeldBy(ts, k, r) \in Nat, HeldBy(ts, k, r) + 1 \in DOMAIN Accesses[r],
         HeldBy(us, k, r) = HeldBy(ts, k, r) + 1,
         \A l \in Slots, q \in Rows :
            l # k \/ q # r => HeldBy(us, l, q) = HeldBy(ts, l, q)
  PROVE  Cardinality(Guards(us, c, kind)) =
            IF Accesses[r][HeldBy(ts, k, r) + 1] = [cell |-> c, kind |-> kind]
            THEN Cardinality(Guards(ts, c, kind)) + 1 ELSE Cardinality(Guards(ts, c, kind))
<1> DEFINE n == HeldBy(ts, k, r) + 1
           G == Guards(ts, c, kind)
           H == Guards(us, c, kind)
           new == <<<<k, r>>, n>>
<1>1. n \in Positions /\ n \in Nat
  BY DEF Positions
<1>2. new \in (Slots \X Rows) \X Positions /\ new \notin G
  BY <1>1 DEF Guards
<1>3. ASSUME NEW g \in (Slots \X Rows) \X Positions, g # new
      PROVE  g \in H <=> g \in G
  <2>1. PICK l \in Slots, q \in Rows, m \in Positions : g = <<<<l, q>>, m>>
    OBVIOUS
  <2>2. m \in Nat
    BY PositionsFinite
  <2>3. m <= HeldBy(us, l, q) <=> m <= HeldBy(ts, l, q)
    <3>1. CASE l # k \/ q # r
      BY <3>1
    <3>2. CASE l = k /\ q = r
      BY <3>2, <2>1, <2>2, <1>3
    <3> QED BY <3>1, <3>2
  <2>4. g \in H <=> m <= HeldBy(us, l, q) /\ Accesses[q][m] = [cell |-> c, kind |-> kind]
    BY <2>1 DEF Guards
  <2>5. g \in G <=> m <= HeldBy(ts, l, q) /\ Accesses[q][m] = [cell |-> c, kind |-> kind]
    BY <2>1 DEF Guards
  <2> QED BY <2>3, <2>4, <2>5
<1>4. new \in H <=> Accesses[r][n] = [cell |-> c, kind |-> kind]
  BY <1>1, <1>2 DEF Guards
<1>5. G \subseteq (Slots \X Rows) \X Positions /\ H \subseteq (Slots \X Rows) \X Positions
  BY DEF Guards
<1>6. IsFiniteSet(G)
  BY GuardsFinite
<1> HIDE DEF G, H, new
<1>7. CASE Accesses[r][n] = [cell |-> c, kind |-> kind]
  <2>1. H = G \cup {new}
    BY <1>7, <1>2, <1>3, <1>4, <1>5
  <2> QED BY <2>1, <1>2, <1>6, <1>7, FS_AddElement DEF G, H
<1>8. CASE Accesses[r][n] # [cell |-> c, kind |-> kind]
  <2>1. new \notin H /\ new \notin G
    BY <1>8, <1>2, <1>4
  <2>2. \A g : g \in H <=> g \in G
    BY <2>1, <1>3, <1>5
  <2>3. H = G
    BY <2>2
  <2> QED BY <2>3, <1>8 DEF G, H
<1> QED BY <1>7, <1>8

HeldOf(ts, P, c, kind) == {g \in Guards(ts, c, kind) : g[1] \in P}

\* From ts to us, the rows P drop their guards, the others keep theirs.
Drops(ts, us, P) ==
    \A k \in Slots, r \in Rows :
        HeldBy(us, k, r) = IF <<k, r>> \in P THEN 0 ELSE HeldBy(ts, k, r)

\* Dropped guards are the ones that were there.
LEMMA GuardsDropped ==
  ASSUME NEW ts, NEW us, NEW P, NEW c, NEW kind, Drops(ts, us, P)
  PROVE  /\ Cardinality(Guards(us, c, kind)) =
                Cardinality(Guards(ts, c, kind)) - Cardinality(HeldOf(ts, P, c, kind))
         /\ Cardinality(HeldOf(ts, P, c, kind)) \in Nat
         /\ Cardinality(HeldOf(ts, P, c, kind)) <= Cardinality(Guards(ts, c, kind))
         /\ Cardinality(HeldOf(ts, P, c, kind)) = 0 <=> HeldOf(ts, P, c, kind) = {}
<1> DEFINE D == HeldOf(ts, P, c, kind)
           G == Guards(ts, c, kind)
           H == Guards(us, c, kind)
<1>1. H = G \ D
  <2>1. ASSUME NEW g \in (Slots \X Rows) \X Positions PROVE g \in H <=> g \in G \ D
    <3>1. PICK l \in Slots, q \in Rows, m \in Positions : g = <<<<l, q>>, m>>
      OBVIOUS
    <3>2. m \in Nat /\ m > 0
      BY PositionsFinite
    <3>3. g \in H <=> m <= HeldBy(us, l, q) /\ Accesses[q][m] = [cell |-> c, kind |-> kind]
      BY <3>1 DEF Guards
    <3>4. g \in G <=> m <= HeldBy(ts, l, q) /\ Accesses[q][m] = [cell |-> c, kind |-> kind]
      BY <3>1 DEF Guards
    <3>5. g \in D <=> g \in G /\ <<l, q>> \in P
      BY <3>1 DEF HeldOf
    <3>6. CASE <<l, q>> \in P
      BY <3>2, <3>3, <3>4, <3>5, <3>6 DEF Drops
    <3>7. CASE <<l, q>> \notin P
      BY <3>3, <3>4, <3>5, <3>7 DEF Drops
    <3> QED BY <3>6, <3>7
  <2>2. G \subseteq (Slots \X Rows) \X Positions /\ H \subseteq (Slots \X Rows) \X Positions
    BY DEF Guards
  <2> HIDE DEF G, H, D
  <2> QED BY <2>1, <2>2
<1>2. IsFiniteSet(G) /\ D \in SUBSET G
  BY GuardsFinite DEF HeldOf
<1> HIDE DEF G, H, D
<1>3. IsFiniteSet(D) /\ Cardinality(D) <= Cardinality(G)
  BY <1>2, FS_Subset
<1>4. Cardinality(D) \in Nat /\ (Cardinality(D) = 0 <=> D = {})
  BY <1>3, FS_CardinalityType, FS_EmptySet
<1>5. G \cap D = D
  BY <1>2
<1>6. Cardinality(H) = Cardinality(G) - Cardinality(G \cap D)
  BY <1>1, <1>2, FS_Difference
<1> QED BY <1>3, <1>4, <1>5, <1>6 DEF G, H, D

\* From ts to us no row takes or drops a guard.
Keeps(ts, us) == \A k \in Slots, r \in Rows : HeldBy(us, k, r) = HeldBy(ts, k, r)

\* Tasks that hold the same guards count the same.
LEMMA GuardsSame ==
  ASSUME NEW ts, NEW us, NEW c, NEW kind, Keeps(ts, us)
  PROVE  Guards(us, c, kind) = Guards(ts, c, kind)
<1>1. \A g \in (Slots \X Rows) \X Positions :
        HeldBy(us, g[1][1], g[1][2]) = HeldBy(ts, g[1][1], g[1][2])
  BY DEF Keeps
<1> QED BY <1>1 DEF Guards

\* What GuardsExact counts in this notation.
ScoopReads(c) == Cardinality({n \in 1 .. scoop.held : ScoopCells[n] = c})

MutatorWrites(c) == IF mutator.st = "writing" /\ mutator.at = c THEN 1 ELSE 0

CowWrites(c) == IF cow.st = "writing" /\ cow.at = c THEN 1 ELSE 0

ExactAt(c) ==
    /\ cell[c].readers = Cardinality(Guards(tasks, c, "Read")) + ScoopReads(c)
    /\ Cardinality(Guards(tasks, c, "Write")) + MutatorWrites(c) + CowWrites(c)
            = IF cell[c].writer THEN 1 ELSE 0
    /\ cell[c].writer => cell[c].readers = 0

Exact == \A c \in Cells : ExactAt(c)

\* The guards of the model, counted by slot, row and position.
LEMMA HeldIsGuards ==
  ASSUME NEW c, NEW kind, NEW P \in SUBSET (Live \X Rows)
  PROVE  /\ Held(P, c, kind) = HeldOf(tasks, P, c, kind)
         /\ Held(RowsOf(Live), c, kind) = Guards(tasks, c, kind)
<1>1. ASSUME NEW Q \in SUBSET (Live \X Rows), NEW g \in (Slots \X Rows) \X Positions
      PROVE  g \in Held(Q, c, kind) <=> g \in Guards(tasks, c, kind) /\ g[1] \in Q
  <2>1. PICK l \in Slots, q \in Rows, m \in Positions : g = <<<<l, q>>, m>>
    OBVIOUS
  <2>2. g \in Held(Q, c, kind) <=>
            <<l, q>> \in Q /\ m <= tasks[l].held[q]
                /\ Accesses[q][m] = [cell |-> c, kind |-> kind]
    BY <2>1 DEF Held, FetchOrder
  <2>3. g \in Guards(tasks, c, kind) <=>
            m <= HeldBy(tasks, l, q) /\ Accesses[q][m] = [cell |-> c, kind |-> kind]
    BY <2>1 DEF Guards
  <2>4. <<l, q>> \in Q => tasks[l] # None
    BY DEF Live
  <2> QED BY <2>1, <2>2, <2>3, <2>4 DEF HeldBy
<1>2. ASSUME NEW Q \in SUBSET (Live \X Rows)
      PROVE  Held(Q, c, kind) \subseteq (Slots \X Rows) \X Positions
  BY DEF Held, Live
<1>3. Guards(tasks, c, kind) \subseteq (Slots \X Rows) \X Positions
  BY DEF Guards
<1>4. Held(P, c, kind) = HeldOf(tasks, P, c, kind)
  BY <1>1, <1>2, <1>3 DEF HeldOf
<1>5. ASSUME NEW g \in Guards(tasks, c, kind) PROVE g[1] \in RowsOf(Live)
  <2>1. PICK l \in Slots, q \in Rows, m \in Positions : g = <<<<l, q>>, m>>
    BY <1>3
  <2>2. m <= HeldBy(tasks, l, q) /\ m \in Nat /\ m > 0
    BY <1>5, <2>1, PositionsFinite DEF Guards
  <2>3. tasks[l] # None
    BY <2>2 DEF HeldBy
  <2> QED BY <2>1, <2>3 DEF RowsOf, Live
<1>6. RowsOf(Live) \in SUBSET (Live \X Rows)
  BY DEF RowsOf
<1>7. Held(RowsOf(Live), c, kind) = Guards(tasks, c, kind)
  BY <1>1, <1>2, <1>3, <1>5, <1>6
<1> QED BY <1>4, <1>7

\* The conjunct of the invariant is the property the run checks.
LEMMA ExactIsGuardsExact == TypeOK /\ Exact => GuardsExact
<1> SUFFICES ASSUME TypeOK, Exact, NEW c \in Cells
             PROVE  LET readers == Cardinality(Held(RowsOf(Live), c, "Read")) + ScoopReads(c)
                        writers == Cardinality(Held(RowsOf(Live), c, "Write"))
                                   + MutatorWrites(c) + CowWrites(c)
                    IN  /\ cell[c].readers = readers
                        /\ writers = IF cell[c].writer THEN 1 ELSE 0
                        /\ writers = 1 => readers = 0
  BY DEF GuardsExact, ScoopReads, MutatorWrites, CowWrites
<1>1. /\ Held(RowsOf(Live), c, "Read") = Guards(tasks, c, "Read")
      /\ Held(RowsOf(Live), c, "Write") = Guards(tasks, c, "Write")
  BY HeldIsGuards
<1>2. ExactAt(c)
  BY DEF Exact
<1> QED BY <1>1, <1>2 DEF ExactAt

\* The reads of a scoop on a cell can be counted.
LEMMA ScoopReadsType ==
  ASSUME TypeOK, NEW c PROVE ScoopReads(c) \in Nat
<1>1. scoop.held \in Nat
  BY DispatchAssumption DEF TypeOK
<1>2. IsFiniteSet(1 .. scoop.held)
  BY <1>1, FS_Interval
<1>3. {n \in 1 .. scoop.held : ScoopCells[n] = c} \in SUBSET (1 .. scoop.held)
  OBVIOUS
<1> QED BY <1>2, <1>3, FS_Subset, FS_CardinalityType DEF ScoopReads

\* Dropping the guards of the rows P, on whatever path, leaves the lock words
\* exact: no reader is counted twice and no writer is left behind.
LEMMA ReleasedExact ==
  ASSUME TypeOK, Exact, NEW P \in SUBSET (Live \X Rows), cell' = Released(P),
         Drops(tasks, tasks', P),
         scoop'.held = scoop.held, mutator' = mutator, \A c : CowWrites(c)' = CowWrites(c)
  PROVE  cell' \in [Cells -> [readers : Nat, writer : BOOLEAN]] /\ Exact'
<1>1. ASSUME NEW c \in Cells
      PROVE  cell'[c] \in [readers : Nat, writer : BOOLEAN] /\ ExactAt(c)'
  <2> DEFINE gr == Cardinality(Guards(tasks, c, "Read"))
             gw == Cardinality(Guards(tasks, c, "Write"))
             dr == Cardinality(Held(P, c, "Read"))
             dw == Cardinality(Held(P, c, "Write"))
             s == ScoopReads(c)
             m == MutatorWrites(c)
             w == CowWrites(c)
  <2>1. Cardinality(Guards(tasks', c, "Read")) = gr - dr /\ dr \in Nat /\ dr <= gr
    BY HeldIsGuards, GuardsDropped
  <2>2. /\ Cardinality(Guards(tasks', c, "Write")) = gw - dw /\ dw \in Nat /\ dw <= gw
        /\ dw = 0 <=> Held(P, c, "Write") = {}
    BY HeldIsGuards, GuardsDropped
  <2>3. gr \in Nat /\ gw \in Nat /\ s \in Nat /\ m \in Nat /\ w \in Nat
    BY GuardsFinite, ScoopReadsType DEF MutatorWrites, CowWrites
  <2>4. cell'[c] = [readers |-> cell[c].readers - dr,
                    writer |-> cell[c].writer /\ Held(P, c, "Write") = {}]
    BY DEF Released
  <2>5. /\ cell[c].readers = gr + s /\ cell[c].writer \in BOOLEAN
        /\ gw + m + w = IF cell[c].writer THEN 1 ELSE 0
        /\ cell[c].writer => cell[c].readers = 0
    BY DEF Exact, ExactAt, TypeOK
  <2>6. ScoopReads(c)' = s /\ MutatorWrites(c)' = m /\ CowWrites(c)' = w
    BY DEF ScoopReads, MutatorWrites
  <2>7. ExactAt(c)' <=>
            /\ cell'[c].readers = (gr - dr) + s
            /\ (gw - dw) + m + w = IF cell'[c].writer THEN 1 ELSE 0
            /\ cell'[c].writer => cell'[c].readers = 0
    BY <2>1, <2>2, <2>6 DEF ExactAt
  <2> HIDE DEF gr, gw, dr, dw, s, m, w
  <2>8. /\ cell[c].readers - dr \in Nat /\ cell[c].readers - dr = (gr - dr) + s
        /\ dw = 0 => /\ (gw - dw) + m + w = IF cell[c].writer THEN 1 ELSE 0
                     /\ cell[c].writer => cell[c].readers - dr = 0
        /\ dw # 0 => (gw - dw) + m + w = 0
    <3>1. cell[c].readers - dr \in Nat /\ cell[c].readers - dr = (gr - dr) + s
      BY <2>1, <2>3, <2>5
    <3>2. dw = 0 => (gw - dw) + m + w = IF cell[c].writer THEN 1 ELSE 0
      BY <2>3, <2>5
    <3>3. cell[c].writer => cell[c].readers - dr = 0
      BY <2>1, <2>3, <2>5
    <3>4. gw + m + w <= 1
      BY <2>3, <2>5
    <3>5. dw # 0 => (gw - dw) + m + w = 0
      <4> SUFFICES ASSUME dw # 0 PROVE (gw - dw) + m + w = 0
        OBVIOUS
      <4>1. dw \in Nat /\ dw >= 1 /\ dw <= gw
        BY <2>2
      <4>2. gw = 1 /\ m = 0 /\ w = 0 /\ dw = 1
        BY <2>3, <3>4, <4>1
      <4> QED BY <4>2
    <3> QED BY <3>1, <3>2, <3>3, <3>5
  <2>9. CASE dw = 0
    <3>1. cell'[c] = [readers |-> cell[c].readers - dr, writer |-> cell[c].writer]
      BY <2>2, <2>4, <2>5, <2>9
    <3> QED BY <2>5, <2>7, <2>8, <2>9, <3>1
  <2>10. CASE dw # 0
    <3>1. cell'[c] = [readers |-> cell[c].readers - dr, writer |-> FALSE]
      BY <2>2, <2>4, <2>5, <2>10
    <3> QED BY <2>7, <2>8, <2>10, <3>1
  <2> QED BY <2>9, <2>10
<1>2. cell' = [c \in Cells |-> cell'[c]]
  BY DEF Released
<1> QED BY <1>1, <1>2 DEF Exact

-----------------------------------------------------------------------------
(* Waiting for a cell *)

FreeIn(cells, c, kind) == ~cells[c].writer /\ (kind = "Write" => cells[c].readers = 0)

\* ParkedIsBlocked, for each sort of thread.
TasksBlocked(ts, cells) ==
    \A k \in Slots :
        Parked(ts[k]) => ~FreeIn(cells, NextAccess(ts[k]).cell, NextAccess(ts[k]).kind)

ScoopBlocked(s, cells) ==
    s.st = "parked" => ~FreeIn(cells, ScoopCells[s.held + 1], "Read")

CowBlocked(w, cells) == w.st = "parked" => ~FreeIn(cells, w.at, "Write")

Blocked == TasksBlocked(tasks, cell) /\ ScoopBlocked(scoop, cell) /\ CowBlocked(cow, cell)

\* The conjunct of the invariant is the property the run checks.
LEMMA BlockedIsParkedIsBlocked == Blocked <=> ParkedIsBlocked
BY DEF Blocked, TasksBlocked, ScoopBlocked, CowBlocked, ParkedIsBlocked, FreeIn, Free

CellsType == [Cells -> [readers : Nat, writer : BOOLEAN]]

\* What a waiter cannot take is not free after a release it was not told of.
LEMMA NotNotified ==
  ASSUME NEW after \in CellsType, cell \in CellsType,
         NEW c \in Cells, NEW kind, ~FreeIn(cell, c, kind), c \notin Notified(after)
  PROVE  ~FreeIn(after, c, kind)
<1>1. cell[c].readers \in Nat
  BY DEF CellsType
<1> QED BY <1>1 DEF FreeIn, Notified

\* The tasks that are parked in ts were parked, on the same cell.
StillParked(ts) ==
    \A k \in Slots : Parked(ts[k]) => Parked(tasks[k]) /\ NextAccess(ts[k]) = NextAccess(tasks[k])

\* A parked row waits for a cell.
LEMMA ParkedType ==
  ASSUME NEW ts \in [Slots -> Task \cup {None}], TasksOK(ts), NEW k \in Slots, Parked(ts[k])
  PROVE  NextAccess(ts[k]).cell \in Cells
<1>1. ts[k] \in Task /\ RowsOK(ts[k]) /\ ts[k].cur # None /\ ts[k].st[ts[k].cur] = "parked"
  BY DEF Parked, TasksOK, TaskOK
<1> QED BY <1>1, NextAccessType

\* Whoever stays parked after a change of the cells was not notified: its cell
\* is as unavailable as it was.
LEMMA WokenBlocked ==
  ASSUME NEW ts \in [Slots -> Task \cup {None}], TasksOK(ts), StillParked(ts),
         TasksBlocked(tasks, cell), cell \in CellsType, NEW after \in CellsType
  PROVE  TasksBlocked(Woken(ts, Notified(after)), after)
<1> DEFINE ws == Woken(ts, Notified(after))
<1> SUFFICES ASSUME NEW k \in Slots, Parked(ws[k])
             PROVE  ~FreeIn(after, NextAccess(ws[k]).cell, NextAccess(ws[k]).kind)
  BY DEF TasksBlocked
<1>1. ts[k] # None
  BY WokenKeeps DEF Parked
<1>2. /\ Parked(ts[k]) /\ NextAccess(ts[k]).cell \notin Notified(after)
      /\ ws[k].cur = ts[k].cur /\ ws[k].held = ts[k].held
  BY <1>1, WokenKeeps
<1>3. NextAccess(ws[k]) = NextAccess(ts[k])
  BY <1>2 DEF NextAccess
<1>4. NextAccess(ts[k]).cell \in Cells
  BY <1>2, ParkedType
<1>5. ~FreeIn(cell, NextAccess(ts[k]).cell, NextAccess(ts[k]).kind)
  BY <1>2 DEF StillParked, TasksBlocked
<1> QED BY <1>2, <1>3, <1>4, <1>5, NotNotified

\* The same for a scoop and for a copy-on-write guard.
LEMMA CallersBlocked ==
  ASSUME TypeOK, CallersOK, Blocked, NEW after \in CellsType
  PROVE  /\ ScoopBlocked(ScoopWoken(Notified(after)), after)
         /\ CowBlocked(CowWoken(Notified(after)), after)
<1>0. cell \in CellsType
  BY DEF TypeOK, CellsType
<1>1. scoop.st = "parked" => ScoopCells[scoop.held + 1] \in Cells
  <2>1. ScoopCells \in Seq(Cells)
    BY DispatchAssumption
  <2>2. scoop.held \in Nat
    BY <2>1 DEF TypeOK
  <2> QED BY <2>1, <2>2 DEF CallersOK
<1>2. ScoopBlocked(ScoopWoken(Notified(after)), after)
  <2>1. CASE scoop.st = "parked" /\ ScoopCells[scoop.held + 1] \in Notified(after)
    BY <2>1 DEF ScoopWoken, ScoopBlocked, TypeOK
  <2>2. CASE ~(scoop.st = "parked" /\ ScoopCells[scoop.held + 1] \in Notified(after))
    <3>1. ScoopWoken(Notified(after)) = scoop
      BY <2>2 DEF ScoopWoken
    <3> QED BY <1>0, <1>1, <2>2, <3>1, NotNotified DEF ScoopBlocked, Blocked
  <2> QED BY <2>1, <2>2
<1>3. CowBlocked(CowWoken(Notified(after)), after)
  <2>1. CASE cow.st = "parked" /\ cow.at \in Notified(after)
    BY <2>1 DEF CowWoken, CowBlocked, TypeOK
  <2>2. CASE ~(cow.st = "parked" /\ cow.at \in Notified(after))
    <3>1. CowWoken(Notified(after)) = cow
      BY <2>2 DEF CowWoken
    <3>2. cow.st = "parked" => cow.at \in Cells
      BY DEF CallersOK
    <3> QED BY <1>0, <2>2, <3>1, <3>2, NotNotified DEF CowBlocked, Blocked
  <2> QED BY <2>1, <2>2
<1> QED BY <1>2, <1>3

\* A wake-up changes the state of a caller from parked to polling, and nothing
\* else.
LEMMA CallersWoken ==
  ASSUME TypeOK, CallersOK, NEW awake
  PROVE  /\ ScoopWoken(awake) \in [st : {"done", "fetch", "parked"}, held : 0 .. Len(ScoopCells)]
         /\ CowWoken(awake) \in
                [st : {"done", "locked", "parked", "writing"}, at : Cells \cup {None}]
         /\ ScoopWoken(awake).held = scoop.held
         /\ ScoopWoken(awake).st = "done" <=> scoop.st = "done"
         /\ ScoopWoken(awake).st = "parked" => scoop.st = "parked"
         /\ CowWoken(awake).at = cow.at
         /\ CowWoken(awake).st = "done" <=> cow.st = "done"
         /\ CowWoken(awake).st = "writing" <=> cow.st = "writing"
BY DEF TypeOK, ScoopWoken, CowWoken

-----------------------------------------------------------------------------
(* Results still to come *)

Att(ts, k) == ts[k] # None /\ ts[k].fate = "attached"

Out(ts, k) == IF Att(ts, k) THEN Outstanding(ts[k]) ELSE {}

\* No result is expected of two streams.
Disjoint(ts) == \A k, l \in Slots : k # l => Out(ts, k) \cap Out(ts, l) = {}

\* ReservationsBacked, row by row.
Backed(rows, ts) == \A r : r \in rows <=> \E k \in Slots : r \in Out(ts, k)

\* A row that wrote in place keeps its reservation until it is published.
DirtyReserved == \A r \in dirty : r \in reserved /\ Writes(r)

NoStreams == pc \in {"idle", "window"} => \A k \in Slots : ~Att(tasks, k)

IInv ==
    /\ TypeOK /\ CallersOK /\ TasksOK(tasks)
    /\ Exact /\ Blocked
    /\ Disjoint(tasks) /\ Backed(reserved, tasks) /\ DirtyReserved /\ NoStreams

\* The conjunct of the invariant is the property the run checks.
LEMMA BackedIsReservationsBacked == Backed(reserved, tasks) <=> ReservationsBacked
<1>1. \A r : r \in UNION {Outstanding(tasks[k]) : k \in Streams}
              <=> \E k \in Slots : r \in Out(tasks, k)
  BY DEF Streams, Attached, Out, Att
<1>2. ASSUME ReservationsBacked PROVE Backed(reserved, tasks)
  BY <1>1, <1>2 DEF ReservationsBacked, Backed
<1>3. ASSUME Backed(reserved, tasks) PROVE ReservationsBacked
  <2> DEFINE U == UNION {Outstanding(tasks[k]) : k \in Streams}
  <2>1. \A r : r \in reserved <=> r \in U
    BY <1>1, <1>3 DEF Backed
  <2> HIDE DEF U
  <2>2. reserved = U
    BY <2>1
  <2> QED BY <2>2 DEF U, ReservationsBacked
<1> QED BY <1>2, <1>3

\* A wake-up changes neither guards, nor the fate of a task, nor what it still
\* owes.
LEMMA WokenFrame ==
  ASSUME NEW ts \in [Slots -> Task \cup {None}], NEW awake, NEW k \in Slots
  PROVE  /\ \A r \in Rows : HeldBy(Woken(ts, awake), k, r) = HeldBy(ts, k, r)
         /\ Att(Woken(ts, awake), k) <=> Att(ts, k)
         /\ Out(Woken(ts, awake), k) = Out(ts, k)
<1> DEFINE w == Woken(ts, awake)[k]
<1>1. CASE ts[k] = None
  BY <1>1, WokenKeeps DEF HeldBy, Att, Out
<1>2. CASE ts[k] # None
  <2>1. /\ w # None /\ w.rows = ts[k].rows /\ w.held = ts[k].held /\ w.chan = ts[k].chan
        /\ w.fate = ts[k].fate /\ ts[k] \in Task
        /\ \A r \in Rows : w.st[r] = ts[k].st[r] \/ (ts[k].st[r] = "parked" /\ w.st[r] = "fetch")
    BY <1>2, WokenKeeps
  <2> HIDE DEF w
  <2>2. ts[k].rows \subseteq Rows
    BY <2>1 DEF Task
  <2>3. Outstanding(w) = Outstanding(ts[k])
    BY <2>1, <2>2 DEF Outstanding
  <2> QED BY <1>2, <2>1, <2>3 DEF HeldBy, Att, Out, w
<1> QED BY <1>1, <1>2

\* Steps that leave the expected results alone keep the reservations backed.
LEMMA SameResults ==
  ASSUME NEW ts, NEW us, NEW rows, Disjoint(ts), Backed(rows, ts),
         \A k \in Slots : Out(us, k) = Out(ts, k)
  PROVE  Disjoint(us) /\ Backed(rows, us)
BY DEF Disjoint, Backed

\* Guards are dropped by the rows P; the tasks become ts before their
\* neighbours are woken.
LEMMA UnlockStep ==
  ASSUME IInv, NEW ts \in [Slots -> Task \cup {None}], TasksOK(ts), StillParked(ts),
         NEW P \in SUBSET (Live \X Rows), Drops(tasks, ts, P),
         Unlock(ts, Released(P)), mutator' = mutator
  PROVE  /\ tasks' \in [Slots -> Task \cup {None}] /\ TasksOK(tasks')
         /\ cell' \in CellsType /\ Exact' /\ Blocked' /\ CallersOK'
         /\ scoop' \in [st : {"done", "fetch", "parked"}, held : 0 .. Len(ScoopCells)]
         /\ cow' \in [st : {"done", "locked", "parked", "writing"}, at : Cells \cup {None}]
         /\ \A k \in Slots : (Att(tasks', k) <=> Att(ts, k)) /\ Out(tasks', k) = Out(ts, k)
<1> DEFINE awake == Notified(Released(P))
<1>1. /\ cell' = Released(P) /\ tasks' = Woken(ts, awake)
      /\ scoop' = ScoopWoken(awake) /\ cow' = CowWoken(awake)
  BY DEF Unlock
<1>2. TypeOK /\ CallersOK /\ TasksOK(tasks) /\ Exact /\ Blocked
  BY DEF IInv
<1>3. /\ tasks' \in [Slots -> Task \cup {None}] /\ TasksOK(tasks')
      /\ \A k \in Slots : (Att(tasks', k) <=> Att(ts, k)) /\ Out(tasks', k) = Out(ts, k)
  BY <1>1, WokenTasks, WokenFrame
<1>4. Drops(tasks, tasks', P)
  <2>1. \A k \in Slots, r \in Rows : HeldBy(tasks', k, r) = HeldBy(ts, k, r)
    BY <1>1, WokenFrame
  <2> QED BY <2>1 DEF Drops
<1>5. /\ scoop' \in [st : {"done", "fetch", "parked"}, held : 0 .. Len(ScoopCells)]
      /\ cow' \in [st : {"done", "locked", "parked", "writing"}, at : Cells \cup {None}]
      /\ scoop'.held = scoop.held /\ cow'.at = cow.at
      /\ scoop'.st = "done" <=> scoop.st = "done"
      /\ scoop'.st = "parked" => scoop.st = "parked"
      /\ cow'.st = "done" <=> cow.st = "done"
      /\ cow'.st = "writing" <=> cow.st = "writing"
  BY <1>1, <1>2, CallersWoken
<1>6. CallersOK'
  BY <1>2, <1>5 DEF CallersOK
<1>7. \A c : CowWrites(c)' = CowWrites(c)
  BY <1>5 DEF CowWrites
<1>8. cell' \in CellsType /\ Exact'
  BY <1>1, <1>2, <1>4, <1>5, <1>7, ReleasedExact DEF CellsType
<1>9. Blocked'
  <2>1. cell \in CellsType /\ TasksBlocked(tasks, cell)
    BY <1>2 DEF TypeOK, CellsType, Blocked
  <2>2. Released(P) \in CellsType
    BY <1>1, <1>8
  <2>3. TasksBlocked(tasks', cell')
    BY <1>1, <2>1, <2>2, WokenBlocked
  <2>4. ScoopBlocked(scoop', cell') /\ CowBlocked(cow', cell')
    BY <1>1, <1>2, <2>2, CallersBlocked
  <2> QED BY <2>3, <2>4 DEF Blocked
<1> QED BY <1>3, <1>5, <1>6, <1>8, <1>9

-----------------------------------------------------------------------------
(* Steps of one task *)

\* In ts, the task in slot k has become u.
Update(ts, k, u) ==
    /\ k \in Slots /\ ts = [tasks EXCEPT ![k] = u]
    /\ u = None \/ (u \in Task /\ TaskOK(u))

\* A step of one task leaves the guards, fates and debts of the other tasks
\* alone.
LEMMA OneTask ==
  ASSUME IInv, NEW ts, NEW k, NEW u, Update(ts, k, u)
  PROVE  /\ ts \in [Slots -> Task \cup {None}] /\ TasksOK(ts) /\ k \in Slots /\ ts[k] = u
         /\ \A l \in Slots : l # k =>
                /\ \A r \in Rows : HeldBy(ts, l, r) = HeldBy(tasks, l, r)
                /\ (Att(ts, l) <=> Att(tasks, l)) /\ Out(ts, l) = Out(tasks, l)
                /\ Parked(ts[l]) <=> Parked(tasks[l])
                /\ NextAccess(ts[l]) = NextAccess(tasks[l])
<1>1. tasks \in [Slots -> Task \cup {None}] /\ TasksOK(tasks)
  BY DEF IInv, TypeOK
<1>2. /\ ts \in [Slots -> Task \cup {None}] /\ k \in Slots /\ ts[k] = u
      /\ \A l \in Slots : l # k => ts[l] = tasks[l]
  BY <1>1 DEF Update
<1>3. TasksOK(ts)
  BY <1>1, <1>2 DEF TasksOK, Update
<1> QED BY <1>2, <1>3 DEF HeldBy, Att, Out

\* A step of one task that takes and drops no guard, sends no result and ends
\* nothing that is expected of it.
LEMMA QuietTask ==
  ASSUME IInv, NEW k, NEW u, Update(tasks', k, u), ~Parked(u),
         \A r \in Rows : HeldBy(tasks', k, r) = HeldBy(tasks, k, r),
         Out(tasks', k) = Out(tasks, k), Att(tasks', k) => Att(tasks, k),
         UNCHANGED <<parallel, cell, reserved, due, pc, dirty, mutator, scoop, cow, events>>
  PROVE  IInv'
<1>1. /\ tasks' \in [Slots -> Task \cup {None}] /\ TasksOK(tasks')
      /\ k \in Slots /\ tasks'[k] = u
      /\ \A l \in Slots : l # k =>
                /\ \A r \in Rows : HeldBy(tasks', l, r) = HeldBy(tasks, l, r)
                /\ (Att(tasks', l) <=> Att(tasks, l)) /\ Out(tasks', l) = Out(tasks, l)
                /\ Parked(tasks'[l]) <=> Parked(tasks[l])
                /\ NextAccess(tasks'[l]) = NextAccess(tasks[l])
  BY OneTask
<1>2. /\ Keeps(tasks, tasks')
      /\ \A l \in Slots : Out(tasks', l) = Out(tasks, l) /\ (Att(tasks', l) => Att(tasks, l))
  BY <1>1 DEF Keeps
<1>3. TypeOK' /\ CallersOK'
  BY <1>1 DEF IInv, TypeOK, CallersOK
<1>4. Exact'
  <2>1. \A c, kind : Guards(tasks', c, kind) = Guards(tasks, c, kind)
    BY <1>2, GuardsSame
  <2>2. \A c : ExactAt(c) => ExactAt(c)'
    BY <2>1 DEF ExactAt, ScoopReads, MutatorWrites, CowWrites
  <2> QED BY <2>2 DEF IInv, Exact
<1>5. Blocked'
  BY <1>1 DEF IInv, Blocked, TasksBlocked
<1>6. Disjoint(tasks') /\ Backed(reserved', tasks')
  BY <1>2, SameResults DEF IInv
<1>7. DirtyReserved' /\ NoStreams'
  BY <1>2 DEF IInv, DirtyReserved, NoStreams, Writes
<1> QED BY <1>1, <1>3, <1>4, <1>5, <1>6, <1>7 DEF IInv

\* In ts, the task in slot k has become u, the guards of its rows P are dropped,
\* and it owes what it owed.
TaskDrops(ts, k, u, P) ==
    /\ Update(ts, k, u) /\ tasks[k] # None /\ ~Parked(u) /\ P \subseteq {k} \X Rows
    /\ \A r \in Rows : HeldBy(ts, k, r) = IF <<k, r>> \in P THEN 0 ELSE HeldBy(tasks, k, r)
    /\ Out(ts, k) = Out(tasks, k) /\ (Att(ts, k) => Att(tasks, k))

\* Steps of a task that drop guards: the cells they held are released and
\* their waiters notified.
LEMMA DropTask ==
  ASSUME IInv, NEW ts, NEW k, NEW u, NEW P, TaskDrops(ts, k, u, P), Unlock(ts, Released(P)),
         UNCHANGED <<parallel, reserved, due, pc, dirty, mutator>>, events' \in Nat
  PROVE  IInv'
<1>0. /\ Update(ts, k, u) /\ tasks[k] # None /\ ~Parked(u) /\ P \subseteq {k} \X Rows
      /\ \A r \in Rows : HeldBy(ts, k, r) = IF <<k, r>> \in P THEN 0 ELSE HeldBy(tasks, k, r)
      /\ Out(ts, k) = Out(tasks, k) /\ (Att(ts, k) => Att(tasks, k))
  BY DEF TaskDrops
<1>1. /\ ts \in [Slots -> Task \cup {None}] /\ TasksOK(ts) /\ k \in Slots /\ ts[k] = u
      /\ \A l \in Slots : l # k =>
                /\ \A r \in Rows : HeldBy(ts, l, r) = HeldBy(tasks, l, r)
                /\ (Att(ts, l) <=> Att(tasks, l)) /\ Out(ts, l) = Out(tasks, l)
                /\ Parked(ts[l]) <=> Parked(tasks[l])
                /\ NextAccess(ts[l]) = NextAccess(tasks[l])
  BY <1>0, OneTask
<1>2. StillParked(ts)
  BY <1>0, <1>1 DEF StillParked
<1>3. P \in SUBSET (Live \X Rows)
  BY <1>0, <1>1 DEF Live
<1>4. Drops(tasks, ts, P)
  <2> SUFFICES ASSUME NEW l \in Slots, NEW r \in Rows
               PROVE  HeldBy(ts, l, r) = IF <<l, r>> \in P THEN 0 ELSE HeldBy(tasks, l, r)
    BY DEF Drops
  <2>1. CASE l = k
    BY <1>0, <2>1
  <2>2. CASE l # k
    <3>1. <<l, r>> \notin P
      BY <1>0, <2>2
    <3> QED BY <1>1, <2>2, <3>1
  <2> QED BY <2>1, <2>2
<1>5. /\ tasks' \in [Slots -> Task \cup {None}] /\ TasksOK(tasks')
      /\ cell' \in CellsType /\ Exact' /\ Blocked' /\ CallersOK'
      /\ scoop' \in [st : {"done", "fetch", "parked"}, held : 0 .. Len(ScoopCells)]
      /\ cow' \in [st : {"done", "locked", "parked", "writing"}, at : Cells \cup {None}]
      /\ \A l \in Slots : (Att(tasks', l) <=> Att(ts, l)) /\ Out(tasks', l) = Out(ts, l)
  BY <1>1, <1>2, <1>3, <1>4, UnlockStep
<1>6. TypeOK'
  BY <1>5 DEF IInv, TypeOK, CellsType
<1>7. \A l \in Slots : (Att(tasks', l) => Att(tasks, l)) /\ Out(tasks', l) = Out(tasks, l)
  BY <1>0, <1>1, <1>5
<1>8. Disjoint(tasks') /\ Backed(reserved', tasks')
  BY <1>7, SameResults DEF IInv
<1>9. DirtyReserved' /\ NoStreams'
  BY <1>7 DEF IInv, DirtyReserved, NoStreams, Writes
<1> QED BY <1>5, <1>6, <1>8, <1>9 DEF IInv

\* A slot in use holds a well-formed task.
LEMMA LiveTask ==
  ASSUME IInv, NEW k \in Slots, tasks[k] # None
  PROVE  /\ tasks[k] \in Task /\ TaskOK(tasks[k])
         /\ tasks[k].rows \subseteq Rows /\ tasks[k].held \in [Rows -> Nat]
         /\ tasks[k].chan \in Seq(Rows) /\ tasks[k].cur \in Rows \cup {None}
BY DEF IInv, TypeOK, TasksOK, Task

\* Polling a row: it takes its next guard, or parks.
LEMMA PollRowStep ==
  ASSUME IInv, NEW k \in Slots, NEW r, PollRow(k, r)
  PROVE  IInv'
<1> DEFINE t == tasks[k]
           x == IF t.st[r] = "new" THEN IF FetchOrder(r) = <<>> THEN "body" ELSE "fetch"
                ELSE "resumed"
           u == [t EXCEPT !.run = "polling", !.cur = r, !.st = [t.st EXCEPT ![r] = x]]
<1>1. t # None /\ t.cur = None /\ r \in t.rows /\ t.st[r] \in {"new", "await"}
  BY DEF PollRow
<1>2. t \in Task /\ TaskOK(t) /\ r \in Rows
  BY <1>1, LiveTask
<1>3. tasks' = [tasks EXCEPT ![k] = u]
  BY DEF PollRow
<1>4. x \in {"body", "fetch", "resumed"} /\ (x = "fetch" => Accesses[r] # <<>> /\ t.st[r] = "new")
  BY DEF FetchOrder
<1> HIDE DEF x
<1>5. u \in Task
  BY <1>2, <1>4 DEF Task
<1>6. /\ u.rows = t.rows /\ u.held = t.held /\ u.chan = t.chan /\ u.fate = t.fate
      /\ u.run = "polling" /\ u.cur = r
      /\ \A q \in Rows : u.st[q] = IF q = r THEN x ELSE t.st[q]
  BY <1>2 DEF Task
<1> HIDE DEF u, t
<1>7. RowsOK(u)
  <2>1. x = "fetch" => t.held[r] < Len(Accesses[r])
    <3>1. x = "fetch" => t.held[r] = 0
      BY <1>2, <1>4 DEF TaskOK, RowsOK
    <3>2. Accesses[r] # <<>> => 0 < Len(Accesses[r])
      BY <1>2, AccessesType
    <3> QED BY <1>4, <3>1, <3>2
  <2>2. \A q \in Rows : t.held[q] # 0 => q \in t.rows /\ q \notin Sync
    BY <1>1, <1>2, NoneIsNoTask DEF TaskOK, RowsOK
  <2> QED BY <1>1, <1>2, <1>4, <1>6, <2>1, <2>2 DEF TaskOK, RowsOK
<1>8. ChanOK(u) /\ BatchOK(u)
  BY <1>1, <1>2, <1>6 DEF TaskOK, ChanOK, BatchOK, Task
<1>9. Outstanding(u) = Outstanding(t)
  BY <1>1, <1>2, <1>4, <1>6 DEF Outstanding, Task
<1>10. u # None /\ ~Parked(u)
  BY <1>4, <1>5, <1>6, <1>2, NoneIsNoTask DEF Parked
<1>11. Update(tasks', k, u)
  BY <1>3, <1>5, <1>7, <1>8 DEF Update, TaskOK
<1>12. tasks'[k] = u
  BY <1>11, OneTask
<1>13. /\ \A q \in Rows : HeldBy(tasks', k, q) = HeldBy(tasks, k, q)
       /\ Out(tasks', k) = Out(tasks, k) /\ (Att(tasks', k) => Att(tasks, k))
  BY <1>1, <1>6, <1>9, <1>10, <1>12 DEF HeldBy, Out, Att, t
<1>14. UNCHANGED <<parallel, cell, reserved, due, pc, dirty, mutator, scoop, cow, events>>
  BY DEF PollRow, Driver, Quiet
<1> QED BY <1>10, <1>11, <1>13, <1>14, QuietTask

\* The body of an asynchronous row suspends.
LEMMA SuspendStep ==
  ASSUME IInv, NEW k \in Slots, Suspend(k)
  PROVE  IInv'
<1> DEFINE t == tasks[k]
           r == t.cur
           u == [t EXCEPT !.st = [t.st EXCEPT ![r] = "await"], !.cur = None]
<1>1. t # None /\ r # None /\ t.st[r] = "body" /\ r \notin Sync
  BY DEF Suspend, InBody
<1>2. t \in Task /\ TaskOK(t) /\ r \in Rows /\ r \in t.rows
  BY <1>1, LiveTask DEF TaskOK, RowsOK
<1>3. tasks' = [tasks EXCEPT ![k] = u]
  BY DEF Suspend
<1>4. u \in Task
  BY <1>2 DEF Task
<1>5. /\ u.rows = t.rows /\ u.held = t.held /\ u.chan = t.chan /\ u.fate = t.fate
      /\ u.run = t.run /\ u.cur = None
      /\ \A q \in Rows : u.st[q] = IF q = r THEN "await" ELSE t.st[q]
  BY <1>2 DEF Task
<1>6. r = t.cur
  OBVIOUS
<1> HIDE DEF u, t, r
<1>7. RowsOK(u)
  BY <1>1, <1>2, <1>5, <1>6 DEF TaskOK, RowsOK
<1>8. ChanOK(u) /\ BatchOK(u)
  <2>1. t.rows \subseteq Rows /\ ChanOK(t)
    BY <1>2 DEF Task, TaskOK
  <2>2. ChanOK(u)
    BY <1>1, <1>5, <2>1 DEF ChanOK
  <2>3. BatchOK(u)
    BY <1>2, <1>5 DEF TaskOK, BatchOK
  <2> QED BY <2>2, <2>3
<1>9. Outstanding(u) = Outstanding(t)
  BY <1>1, <1>2, <1>5 DEF Outstanding, Task
<1>10. u # None /\ ~Parked(u)
  BY <1>4, <1>5, NoneIsNoTask DEF Parked
<1>11. Update(tasks', k, u)
  BY <1>3, <1>4, <1>7, <1>8 DEF Update, TaskOK
<1>12. tasks'[k] = u
  BY <1>11, OneTask
<1>13. /\ \A q \in Rows : HeldBy(tasks', k, q) = HeldBy(tasks, k, q)
       /\ Out(tasks', k) = Out(tasks, k) /\ (Att(tasks', k) => Att(tasks, k))
  BY <1>1, <1>5, <1>9, <1>10, <1>12 DEF HeldBy, Out, Att, t
<1>14. UNCHANGED <<parallel, cell, reserved, due, pc, dirty, mutator, scoop, cow, events>>
  BY DEF Suspend, Driver, Quiet
<1> QED BY <1>10, <1>11, <1>13, <1>14, QuietTask

\* The poll of a task returns.
LEMMA PendStep ==
  ASSUME IInv, NEW k \in Slots, Pend(k)
  PROVE  IInv'
<1> DEFINE t == tasks[k]
           u == [t EXCEPT !.run = "idle"]
<1>1. t # None /\ t.cur = None
  BY DEF Pend
<1>2. t \in Task /\ TaskOK(t)
  BY <1>1, LiveTask
<1>3. tasks' = [tasks EXCEPT ![k] = u]
  BY DEF Pend
<1>4. u \in Task
  BY <1>2 DEF Task
<1>5. /\ u.rows = t.rows /\ u.held = t.held /\ u.chan = t.chan /\ u.fate = t.fate
      /\ u.run = "idle" /\ u.cur = None /\ u.st = t.st
  BY <1>1, <1>2 DEF Task
<1> HIDE DEF u, t
<1>6. TaskOK(u)
  BY <1>1, <1>2, <1>5 DEF TaskOK, RowsOK, ChanOK, BatchOK
<1>7. Outstanding(u) = Outstanding(t)
  BY <1>5 DEF Outstanding
<1>8. u # None /\ ~Parked(u)
  BY <1>4, <1>5, NoneIsNoTask DEF Parked
<1>9. Update(tasks', k, u)
  BY <1>3, <1>4, <1>6 DEF Update
<1>10. tasks'[k] = u
  BY <1>9, OneTask
<1>11. /\ \A q \in Rows : HeldBy(tasks', k, q) = HeldBy(tasks, k, q)
       /\ Out(tasks', k) = Out(tasks, k) /\ (Att(tasks', k) => Att(tasks, k))
  BY <1>1, <1>5, <1>7, <1>8, <1>10 DEF HeldBy, Out, Att, t
<1>12. UNCHANGED <<parallel, cell, reserved, due, pc, dirty, mutator, scoop, cow, events>>
  BY DEF Pend, Driver, Quiet
<1> QED BY <1>8, <1>9, <1>11, <1>12, QuietTask

\* A task that leaves its slot without holding a guard or owing a result.
LEMMA QuietEnd ==
  ASSUME IInv, NEW k \in Slots, tasks[k] # None, tasks' = [tasks EXCEPT ![k] = None],
         \A r \in Rows : tasks[k].held[r] = 0, Out(tasks, k) = {},
         UNCHANGED <<parallel, cell, reserved, due, pc, dirty, mutator, scoop, cow, events>>
  PROVE  IInv'
<1>1. Update(tasks', k, None)
  BY DEF Update
<1>2. tasks'[k] = None
  BY <1>1, OneTask
<1>3. /\ \A r \in Rows : HeldBy(tasks', k, r) = HeldBy(tasks, k, r)
      /\ Out(tasks', k) = Out(tasks, k) /\ (Att(tasks', k) => Att(tasks, k))
  BY <1>2 DEF HeldBy, Out, Att
<1>4. ~Parked(None)
  BY DEF Parked
<1> QED BY <1>1, <1>3, <1>4, QuietTask

\* The stream of a task ends after its last result.
LEMMA ExhaustStep ==
  ASSUME IInv, NEW k \in Slots, Exhaust(k)
  PROVE  IInv'
<1> DEFINE t == tasks[k]
<1>1. t # None /\ t.chan = <<>> /\ t.run = "done" /\ tasks' = [tasks EXCEPT ![k] = None]
  BY DEF Exhaust, Attached, Exhausted
<1>2. TaskOK(t) /\ t.rows \subseteq Rows
  BY <1>1, LiveTask
<1> HIDE DEF t
<1>3. \A r \in t.rows : t.st[r] = "sent"
  BY <1>1, <1>2 DEF TaskOK, RowsOK
<1>4. \A r \in Rows : t.held[r] = 0
  BY <1>2, <1>3 DEF TaskOK, RowsOK
<1>5. Outstanding(t) = {}
  BY <1>1, <1>3 DEF Outstanding, ToSet
<1>6. UNCHANGED <<parallel, cell, reserved, due, pc, dirty, mutator, scoop, cow, events>>
  BY DEF Exhaust, Quiet
<1> QED BY <1>1, <1>4, <1>5, <1>6, QuietEnd DEF Out, t

\* A call batch whose stream is gone holds no guard between two calls.
LEMMA ReturnStep ==
  ASSUME IInv, NEW k \in Slots, Return(k)
  PROVE  IInv'
<1> DEFINE t == tasks[k]
<1>1. /\ t # None /\ t.fate # "attached" /\ t.cur = None /\ t.rows \cap Sync # {}
      /\ tasks' = [tasks EXCEPT ![k] = None]
  BY DEF Return
<1>2. TaskOK(t) /\ t.rows \subseteq Rows
  BY <1>1, LiveTask
<1> HIDE DEF t
<1>3. \A r \in t.rows : r \in Sync
  BY <1>1, <1>2 DEF TaskOK, BatchOK
<1>4. \A r \in Rows : t.held[r] = 0
  BY <1>1, <1>2, <1>3, NoneIsNoTask DEF TaskOK, RowsOK
<1>5. UNCHANGED <<parallel, cell, reserved, due, pc, dirty, mutator, scoop, cow, events>>
  BY DEF Return, Driver, Quiet
<1> QED BY <1>1, <1>4, <1>5, QuietEnd DEF Out, Att, t

\* A task that leaves its slot, owing no result, drops the guards of its rows.
LEMMA DropEnd ==
  ASSUME IInv, NEW k \in Slots, tasks[k] # None, Out(tasks, k) = {},
         Unlock([tasks EXCEPT ![k] = None], Released(RowsOf({k}))),
         UNCHANGED <<parallel, reserved, due, pc, dirty, mutator>>, events' \in Nat
  PROVE  IInv'
<1> DEFINE ts == [tasks EXCEPT ![k] = None]
<1>1. Update(ts, k, None)
  BY DEF Update
<1>2. ts[k] = None
  BY <1>1, OneTask
<1> HIDE DEF ts
<1>3. RowsOf({k}) \in SUBSET ({k} \X Rows)
  BY DEF RowsOf
<1>4. \A r \in Rows : HeldBy(ts, k, r) =
            IF <<k, r>> \in RowsOf({k}) THEN 0 ELSE HeldBy(tasks, k, r)
  BY <1>2 DEF HeldBy, RowsOf
<1>5. Out(ts, k) = Out(tasks, k) /\ (Att(ts, k) => Att(tasks, k))
  BY <1>2 DEF Out, Att
<1>6. ~Parked(None)
  BY DEF Parked
<1>7. Unlock(ts, Released(RowsOf({k})))
  BY DEF ts
<1>8. TaskDrops(ts, k, None, RowsOf({k}))
  BY <1>1, <1>3, <1>4, <1>5, <1>6 DEF TaskDrops
<1> QED BY <1>7, <1>8, DropTask

\* The bound on caller events counts.
LEMMA EventsType == IInv => events \in Nat
BY DEF IInv, TypeOK

\* A detached or cancelled task ends, with the guards of its rows.
LEMMA ReapStep ==
  ASSUME IInv, NEW k \in Slots, Reap(k)
  PROVE  IInv'
<1>1. /\ tasks[k] # None /\ tasks[k].fate # "attached"
      /\ Unlock([tasks EXCEPT ![k] = None], Released(RowsOf({k})))
  BY DEF Reap
<1>2. Out(tasks, k) = {}
  BY <1>1 DEF Out, Att
<1>3. UNCHANGED <<parallel, reserved, due, pc, dirty, mutator>> /\ events' \in Nat
  BY EventsType DEF Reap, Driver, Quiet
<1> QED BY <1>1, <1>2, <1>3, DropEnd

\* A panicking body drops the guards of its whole batch; what it owes is still
\* expected of it.
LEMMA PanicStep ==
  ASSUME IInv, NEW k \in Slots, Panic(k)
  PROVE  IInv'
<1> DEFINE t == tasks[k]
           u == [t EXCEPT !.cur = None, !.run = "panicked", !.held = [r \in Rows |-> 0]]
<1>1. t # None /\ t.cur # None /\ Unlock(Ended(k, u), Released(RowsOf({k})))
  BY DEF Panic, InBody
<1>2. UNCHANGED <<parallel, reserved, due, pc, dirty, mutator>> /\ events' \in Nat
  BY EventsType DEF Panic, Driver, Event
<1>3. t \in Task /\ TaskOK(t)
  BY <1>1, LiveTask
<1>4. u \in Task
  BY <1>3 DEF Task
<1>5. /\ u.rows = t.rows /\ u.chan = t.chan /\ u.fate = t.fate /\ u.st = t.st
      /\ u.run = "panicked" /\ u.cur = None /\ \A r \in Rows : u.held[r] = 0
  BY <1>3 DEF Task
<1>6. CASE t.fate # "attached"
  <2>1. Ended(k, u) = [tasks EXCEPT ![k] = None]
    BY <1>5, <1>6 DEF Ended
  <2>2. Out(tasks, k) = {}
    BY <1>6 DEF Out, Att
  <2> HIDE DEF u
  <2> QED BY <1>1, <1>2, <2>1, <2>2, DropEnd
<1>7. CASE t.fate = "attached"
  <2> DEFINE ts == [tasks EXCEPT ![k] = u]
  <2>1. Ended(k, u) = ts
    BY <1>5, <1>7 DEF Ended
  <2> HIDE DEF u, t
  <2>2. RowsOK(u)
    <3>1. \A r \in Rows : t.held[r] \in Nat /\ Len(Accesses[r]) \in Nat
      BY <1>3, AccessesType DEF Task
    <3> QED BY <1>3, <1>5, <3>1 DEF TaskOK, RowsOK
  <2>3. ChanOK(u) /\ BatchOK(u) /\ Outstanding(u) = Outstanding(t)
    BY <1>3, <1>5 DEF TaskOK, ChanOK, BatchOK, Outstanding
  <2>4. Update(ts, k, u)
    BY <1>4, <2>2, <2>3 DEF Update, TaskOK
  <2>5. ts[k] = u
    BY <2>4, OneTask
  <2>6. u # None /\ ~Parked(u)
    BY <1>4, <1>5, NoneIsNoTask DEF Parked
  <2>7. Unlock(ts, Released(RowsOf({k})))
    BY <1>1, <2>1
  <2> HIDE DEF ts
  <2>8. RowsOf({k}) \in SUBSET ({k} \X Rows)
    BY DEF RowsOf
  <2>9. \A r \in Rows : HeldBy(ts, k, r) =
            IF <<k, r>> \in RowsOf({k}) THEN 0 ELSE HeldBy(tasks, k, r)
    BY <1>5, <2>5, <2>6 DEF HeldBy, RowsOf
  <2>10. Out(ts, k) = Out(tasks, k) /\ (Att(ts, k) => Att(tasks, k))
    BY <1>1, <1>5, <1>7, <2>3, <2>5, <2>6 DEF Out, Att, t
  <2>11. TaskDrops(ts, k, u, RowsOf({k}))
    BY <1>1, <2>4, <2>6, <2>8, <2>9, <2>10 DEF TaskDrops, t
  <2> QED BY <1>2, <2>7, <2>11, DropTask
<1> QED BY <1>6, <1>7

\* The completion channel of a batch has room for every row of it.
LEMMA ChannelRoom ==
  ASSUME NEW t \in Task, TaskOK(t), t.cur # None, t.st[t.cur] # "sent"
  PROVE  Len(t.chan) < Capacity(t)
<1> DEFINE n == Len(t.chan)
           S == t.rows \ {t.cur}
<1>1. t.chan \in Seq(Rows) /\ t.rows \subseteq Rows /\ t.cur \in t.rows /\ n \in Nat
  BY DEF Task, TaskOK, RowsOK
<1>2. IsFiniteSet(t.rows)
  BY <1>1, DispatchAssumption, FS_Subset
<1>3. IsFiniteSet(S) /\ Cardinality(S) = Cardinality(t.rows) - 1 /\ Cardinality(t.rows) \in Nat
  BY <1>1, <1>2, FS_RemoveElement, FS_CardinalityType
<1>4. t.chan \in Injection(1 .. n, S)
  <2>1. \A i \in 1 .. n : t.chan[i] \in S
    BY <1>1 DEF TaskOK, ChanOK
  <2>2. t.chan \in [1 .. n -> S]
    BY <1>1, <2>1
  <2> QED BY <1>1, <2>2 DEF Injection, IsInjective, TaskOK, ChanOK
<1>5. Cardinality(1 .. n) <= Cardinality(S)
  <2> HIDE DEF S, n
  <2> QED BY <1>3, <1>4, FS_Injection
<1>6. Cardinality(1 .. n) = n
  BY <1>1, FS_Interval
<1> QED BY <1>1, <1>3, <1>5, <1>6 DEF Capacity

\* The body of a row returns: its guards are cleared and its result is sent.
LEMMA FinishStep ==
  ASSUME IInv, NEW k \in Slots, Finish(k)
  PROVE  IInv'
<1> DEFINE t == tasks[k]
           r == t.cur
           sent == [t EXCEPT !.cur = None, !.held[r] = 0, !.st[r] = "sent"]
           all == \A q \in t.rows : sent.st[q] = "sent"
           u == [sent EXCEPT !.chan = Append(@, r), !.run = IF all THEN "done" ELSE @]
<1>1. t # None /\ r # None /\ t.st[r] \in {"body", "resumed"}
  BY DEF Finish, InBody
<1>2. UNCHANGED <<parallel, reserved, due, pc, dirty, mutator>> /\ events' \in Nat
  BY EventsType DEF Finish, Driver, Quiet
<1>3. t \in Task /\ TaskOK(t) /\ r \in Rows /\ r \in t.rows
  BY <1>1, LiveTask DEF TaskOK, RowsOK
<1>4. CASE t.fate # "attached"
  <2>1. Unlock([tasks EXCEPT ![k] = None], Released(RowsOf({k})))
    BY <1>4 DEF Finish
  <2>2. Out(tasks, k) = {}
    BY <1>4 DEF Out, Att
  <2> QED BY <1>1, <1>2, <2>1, <2>2, DropEnd
<1>5. CASE t.fate = "attached"
  <2> DEFINE ts == [tasks EXCEPT ![k] = u]
             P == {<<k, r>>}
  <2>1. Len(t.chan) < Capacity(t)
    BY <1>1, <1>3, ChannelRoom
  <2>2. Unlock(ts, Released(P))
    BY <1>5, <2>1 DEF Finish
  <2>3. /\ sent \in Task /\ sent.rows = t.rows /\ sent.chan = t.chan /\ sent.fate = t.fate
        /\ sent.run = t.run /\ sent.cur = None
        /\ \A q \in Rows : sent.held[q] = IF q = r THEN 0 ELSE t.held[q]
        /\ \A q \in Rows : sent.st[q] = IF q = r THEN "sent" ELSE t.st[q]
    BY <1>3 DEF Task
  <2> HIDE DEF sent
  <2>4. u \in Task
    <3>1. t.chan \in Seq(Rows)
      BY <1>3 DEF Task
    <3>2. Append(t.chan, r) \in Seq(Rows)
      BY <1>3, <3>1
    <3> QED BY <2>3, <3>2 DEF Task
  <2>5. /\ u.rows = t.rows /\ u.chan = Append(t.chan, r) /\ u.fate = t.fate /\ u.cur = None
        /\ u.held = sent.held /\ u.st = sent.st
        /\ u.run = IF all THEN "done" ELSE t.run
    BY <2>3 DEF Task
  <2>6. r = t.cur
    OBVIOUS
  <2> HIDE DEF u, t, r
  <2>7. RowsOK(u)
    <3>1. t.run # "done"
      BY <1>1, <1>3 DEF TaskOK, RowsOK
    <3>2. u.run = "done" => \A q \in u.rows : u.st[q] = "sent"
      BY <2>5, <3>1
    <3>3. \A q \in Rows : Len(Accesses[q]) \in Nat
      BY AccessesType
    <3> QED BY <1>3, <2>3, <2>5, <2>6, <3>2, <3>3 DEF TaskOK, RowsOK
  <2>8. /\ t.chan \in Seq(Rows) /\ t.rows \subseteq Rows /\ ChanOK(t)
        /\ \A i \in DOMAIN t.chan : t.chan[i] # r
    BY <1>1, <1>3 DEF Task, TaskOK, ChanOK
  <2>9. /\ DOMAIN u.chan = 1 .. Len(t.chan) + 1 /\ Len(t.chan) \in Nat
        /\ \A i \in 1 .. Len(t.chan) : u.chan[i] = t.chan[i]
        /\ u.chan[Len(t.chan) + 1] = r
    BY <1>3, <2>5, <2>8
  <2>10. ChanOK(u)
    <3>1. \A i \in DOMAIN u.chan : u.chan[i] \in u.rows /\ u.st[u.chan[i]] = "sent"
      BY <1>3, <2>3, <2>5, <2>8, <2>9 DEF ChanOK
    <3>2. \A i, j \in DOMAIN u.chan : u.chan[i] = u.chan[j] => i = j
      BY <2>8, <2>9 DEF ChanOK
    <3> QED BY <3>1, <3>2 DEF ChanOK
  <2>11. BatchOK(u)
    BY <1>3, <2>5 DEF TaskOK, BatchOK
  <2>12. Outstanding(u) = Outstanding(t)
    <3>1. ToSet(u.chan) = ToSet(t.chan) \cup {r}
      <4>1. ToSet(u.chan) = {u.chan[i] : i \in 1 .. Len(t.chan) + 1}
        BY <2>9 DEF ToSet
      <4>2. ToSet(t.chan) = {t.chan[i] : i \in 1 .. Len(t.chan)}
        BY <2>8 DEF ToSet
      <4>3. 1 .. Len(t.chan) + 1 = (1 .. Len(t.chan)) \cup {Len(t.chan) + 1}
        BY <2>9
      <4> QED BY <2>9, <4>1, <4>2, <4>3
    <3>2. {q \in u.rows : u.st[q] # "sent"} = {q \in t.rows : t.st[q] # "sent"} \ {r}
      BY <1>1, <2>3, <2>5, <2>8
    <3>3. r \in {q \in t.rows : t.st[q] # "sent"}
      BY <1>1, <1>3
    <3> QED BY <3>1, <3>2, <3>3 DEF Outstanding
  <2>13. Update(ts, k, u)
    BY <2>4, <2>7, <2>10, <2>11 DEF Update, TaskOK
  <2>14. ts[k] = u
    BY <2>13, OneTask
  <2>15. u # None /\ ~Parked(u)
    BY <2>4, <2>5, NoneIsNoTask DEF Parked
  <2> HIDE DEF ts
  <2>16. P \subseteq {k} \X Rows
    BY <1>3
  <2>17. \A q \in Rows : HeldBy(ts, k, q) = IF <<k, q>> \in P THEN 0 ELSE HeldBy(tasks, k, q)
    BY <1>1, <2>3, <2>5, <2>14, <2>15 DEF HeldBy, t
  <2>18. Out(ts, k) = Out(tasks, k) /\ (Att(ts, k) => Att(tasks, k))
    BY <1>1, <1>5, <2>5, <2>12, <2>14, <2>15 DEF Out, Att, t
  <2>19. TaskDrops(ts, k, u, P)
    BY <1>1, <2>13, <2>15, <2>16, <2>17, <2>18 DEF TaskDrops, t
  <2> QED BY <1>2, <2>2, <2>19, DropTask
<1> QED BY <1>4, <1>5

\* A granted guard makes no cell free.
LEMMA GrantedBlocks ==
  ASSUME cell \in CellsType, NEW c \in Cells, NEW kind, Free(c, kind)
  PROVE  /\ Granted(c, kind) \in CellsType
         /\ \A other : \A d \in Cells : ~FreeIn(cell, d, other) => ~FreeIn(Granted(c, kind), d, other)
         /\ \A d \in Cells : d # c => Granted(c, kind)[d] = cell[d]
         /\ ~cell[c].writer
         /\ kind = "Read" => /\ Granted(c, kind)[c].readers = cell[c].readers + 1
                             /\ ~Granted(c, kind)[c].writer
         /\ kind # "Read" => /\ Granted(c, kind)[c].readers = cell[c].readers
                             /\ Granted(c, kind)[c].writer
<1> DEFINE R == [readers : Nat, writer : BOOLEAN]
           old == cell[c]
           new == IF kind = "Read" THEN [old EXCEPT !.readers = @ + 1]
                  ELSE [old EXCEPT !.writer = TRUE]
<1>1. cell \in [Cells -> R] /\ old \in R /\ ~old.writer
  BY DEF CellsType, Free
<1>2. Granted(c, kind) = [cell EXCEPT ![c] = new]
  BY DEF Granted
<1> HIDE DEF old
<1>3. /\ new \in R
      /\ kind = "Read" => new.readers = old.readers + 1 /\ ~new.writer
      /\ kind # "Read" => new.readers = old.readers /\ new.writer
  <2>1. CASE kind = "Read"
    <3>1. new = [old EXCEPT !.readers = old.readers + 1]
      BY <2>1
    <3>2. new \in R /\ new.readers = old.readers + 1
      BY <1>1, <3>1
    <3>3. new.writer = old.writer
      BY <1>1, <3>1
    <3> QED BY <1>1, <2>1, <3>2, <3>3
  <2>2. CASE kind # "Read"
    <3>1. new = [old EXCEPT !.writer = TRUE]
      BY <2>2
    <3>2. new \in R /\ new.readers = old.readers
      BY <1>1, <3>1
    <3>3. new.writer = TRUE
      BY <1>1, <3>1
    <3> QED BY <2>2, <3>2, <3>3
  <2> QED BY <2>1, <2>2
<1> HIDE DEF new
<1>4. \A d \in Cells : Granted(c, kind)[d] = IF d = c THEN new ELSE cell[d]
  BY <1>1, <1>2
<1>5. Granted(c, kind) \in [Cells -> R]
  <2> HIDE DEF R
  <2> QED BY <1>1, <1>2, <1>3
<1>6. ASSUME NEW d \in Cells, NEW other, ~FreeIn(cell, d, other)
      PROVE  ~FreeIn(Granted(c, kind), d, other)
  <2>1. CASE d # c
    BY <1>4, <1>6, <2>1 DEF FreeIn
  <2>2. CASE d = c
    <3>1. other = "Write" /\ old.readers # 0 /\ old.readers \in Nat
      BY <1>1, <1>6, <2>2 DEF FreeIn, old
    <3>2. new.readers # 0
      BY <1>3, <3>1
    <3> QED BY <1>4, <2>2, <3>1, <3>2 DEF FreeIn
  <2> QED BY <2>1, <2>2
<1> QED BY <1>1, <1>3, <1>4, <1>5, <1>6 DEF CellsType, old

\* A fetch takes the next guard of its row, or parks on a cell it cannot have.
LEMMA FetchStep ==
  ASSUME IInv, NEW k \in Slots, Fetch(k)
  PROVE  IInv'
<1> DEFINE t == tasks[k]
           r == t.cur
           a == NextAccess(t)
           last == t.held[r] + 1 = Len(FetchOrder(r))
<1>1. /\ t # None /\ r # None /\ t.st[r] = "fetch"
      /\ UNCHANGED <<parallel, reserved, due, pc, mutator, scoop, cow, events>>
  BY DEF Fetch, Driver, Quiet
<1>2. t \in Task /\ TaskOK(t) /\ r \in Rows /\ r \in t.rows /\ t.held[r] \in Nat
  BY <1>1, LiveTask DEF TaskOK, RowsOK
<1>3. /\ t.held[r] + 1 \in DOMAIN Accesses[r] /\ a = Accesses[r][t.held[r] + 1]
      /\ a.cell \in Cells /\ a.kind \in Kinds
  BY <1>1, <1>2, NextAccessType DEF TaskOK
<1>4. cell \in CellsType /\ TypeOK /\ CallersOK /\ Exact /\ Blocked
  BY DEF IInv, TypeOK, CellsType
<1>5. t.rows \subseteq Rows /\ ChanOK(t) /\ BatchOK(t)
  BY <1>2 DEF Task, TaskOK
<1>6. CASE ~Free(a.cell, a.kind)
  <2> DEFINE u == [t EXCEPT !.st = [t.st EXCEPT ![r] = "parked"]]
  <2>1. tasks' = [tasks EXCEPT ![k] = u] /\ UNCHANGED <<cell, dirty>>
    BY <1>6 DEF Fetch
  <2>2. u \in Task
    BY <1>2 DEF Task
  <2>3. /\ u.rows = t.rows /\ u.held = t.held /\ u.chan = t.chan /\ u.fate = t.fate
        /\ u.run = t.run /\ u.cur = r
        /\ \A q \in Rows : u.st[q] = IF q = r THEN "parked" ELSE t.st[q]
    BY <1>2 DEF Task
  <2>4. r = t.cur
    OBVIOUS
  <2> HIDE DEF u, t, r
  <2>5. RowsOK(u)
    BY <1>1, <1>2, <2>3, <2>4 DEF TaskOK, RowsOK
  <2>6. ChanOK(u) /\ BatchOK(u)
    BY <1>1, <1>5, <2>3 DEF ChanOK, BatchOK
  <2>7. Outstanding(u) = Outstanding(t)
    BY <1>1, <1>5, <2>3 DEF Outstanding
  <2>8. u # None
    BY <2>2, NoneIsNoTask
  <2>9. Update(tasks', k, u)
    BY <2>1, <2>2, <2>5, <2>6 DEF Update, TaskOK
  <2>10. /\ tasks' \in [Slots -> Task \cup {None}] /\ TasksOK(tasks') /\ tasks'[k] = u
         /\ \A l \in Slots : l # k =>
                /\ \A q \in Rows : HeldBy(tasks', l, q) = HeldBy(tasks, l, q)
                /\ (Att(tasks', l) <=> Att(tasks, l)) /\ Out(tasks', l) = Out(tasks, l)
                /\ Parked(tasks'[l]) <=> Parked(tasks[l])
                /\ NextAccess(tasks'[l]) = NextAccess(tasks[l])
    BY <2>9, OneTask
  <2>11. /\ \A q \in Rows : HeldBy(tasks', k, q) = HeldBy(tasks, k, q)
         /\ Out(tasks', k) = Out(tasks, k) /\ (Att(tasks', k) <=> Att(tasks, k))
    BY <1>1, <2>3, <2>7, <2>8, <2>10 DEF HeldBy, Out, Att, t
  <2>12. Exact'
    <3>1. Keeps(tasks, tasks')
      BY <2>10, <2>11 DEF Keeps
    <3>2. \A c, kind : Guards(tasks', c, kind) = Guards(tasks, c, kind)
      BY <3>1, GuardsSame
    <3>3. \A c : ExactAt(c) => ExactAt(c)'
      BY <1>1, <2>1, <3>2 DEF ExactAt, ScoopReads, MutatorWrites, CowWrites
    <3> QED BY <1>4, <3>3 DEF Exact
  <2>13. Blocked'
    <3>1. NextAccess(u) = a
      BY <2>3, <2>4 DEF NextAccess
    <3>2. ~FreeIn(cell, a.cell, a.kind)
      BY <1>6 DEF FreeIn, Free
    <3> HIDE DEF a
    <3> QED BY <1>1, <1>4, <2>1, <2>10, <3>1, <3>2 DEF Blocked, TasksBlocked
  <2>14. TypeOK' /\ CallersOK'
    BY <1>1, <1>4, <2>1, <2>10 DEF TypeOK, CallersOK
  <2>15. Disjoint(tasks') /\ Backed(reserved', tasks')
    <3>1. \A l \in Slots : Out(tasks', l) = Out(tasks, l)
      BY <2>10, <2>11
    <3> QED BY <1>1, <3>1, SameResults DEF IInv
  <2>16. DirtyReserved' /\ NoStreams'
    BY <1>1, <2>1, <2>10, <2>11 DEF IInv, DirtyReserved, NoStreams, Writes
  <2> QED BY <2>10, <2>12, <2>13, <2>14, <2>15, <2>16 DEF IInv
<1>7. CASE Free(a.cell, a.kind)
  <2> DEFINE x == IF last THEN "body" ELSE t.st[r]
             u == [t EXCEPT !.held = [t.held EXCEPT ![r] = t.held[r] + 1],
                            !.st = [t.st EXCEPT ![r] = x]]
  <2>1. /\ tasks' = [tasks EXCEPT ![k] = u] /\ cell' = Granted(a.cell, a.kind)
        /\ dirty' = IF last /\ Writes(r) /\ t.fate # "orphaned" THEN dirty \cup {r} ELSE dirty
    <3>1. /\ tasks' = [tasks EXCEPT ![k].held[r] = @ + 1, ![k].st[r] = IF last THEN "body" ELSE @]
          /\ cell' = Granted(a.cell, a.kind)
      BY <1>7 DEF Fetch
    <3>2. dirty' = IF last /\ Writes(r) /\ t.fate # "orphaned" THEN dirty \cup {r} ELSE dirty
      BY <1>7 DEF Fetch
    <3> HIDE DEF last, a
    <3>3. tasks' = [tasks EXCEPT ![k] = u]
      BY <3>1
    <3> QED BY <3>1, <3>2, <3>3
  <2>2. u \in Task
    <3>1. x \in {"body", "fetch"}
      BY <1>1
    <3> DEFINE h == [t.held EXCEPT ![r] = t.held[r] + 1]
               f == [t.st EXCEPT ![r] = x]
    <3> HIDE DEF x
    <3>2. h \in [Rows -> Nat]
      BY <1>2 DEF Task
    <3>3. f \in [Rows -> {"new", "fetch", "parked", "body", "await", "resumed", "sent"}]
      BY <1>2, <3>1 DEF Task
    <3> HIDE DEF h, f
    <3>4. [t EXCEPT !.held = h, !.st = f] \in Task
      BY <1>2, <3>2, <3>3 DEF Task
    <3> QED BY <3>4 DEF h, f
  <2>3. /\ u.rows = t.rows /\ u.chan = t.chan /\ u.fate = t.fate
        /\ u.run = t.run /\ u.cur = r
        /\ \A q \in Rows : u.held[q] = IF q = r THEN t.held[r] + 1 ELSE t.held[q]
        /\ \A q \in Rows : u.st[q] = IF q = r THEN x ELSE t.st[q]
    <3> HIDE DEF x
    <3> QED BY <1>2 DEF Task
  <2>4. r = t.cur /\ x \in {"body", "fetch"} /\ (x = "fetch" => ~last)
    BY <1>1
  <2>5. ~last => t.held[r] + 1 < Len(Accesses[r])
    BY <1>2, <1>3, AccessesType DEF FetchOrder
  <2> HIDE DEF u, t, r, x, last
  <2>6. RowsOK(u)
    <3>1. t.held[r] + 1 <= Len(Accesses[r])
      BY <1>2, <1>3, AccessesType
    <3>2. t.run # "done"
      BY <1>1, <1>2 DEF TaskOK, RowsOK
    <3> QED BY <1>1, <1>2, <2>3, <2>4, <2>5, <3>1, <3>2 DEF TaskOK, RowsOK
  <2>7. ChanOK(u) /\ BatchOK(u)
    BY <1>1, <1>5, <2>3 DEF ChanOK, BatchOK
  <2>8. Outstanding(u) = Outstanding(t)
    BY <1>1, <1>5, <2>3, <2>4 DEF Outstanding
  <2>9. u # None /\ ~Parked(u)
    BY <1>2, <2>2, <2>3, <2>4, NoneIsNoTask DEF Parked
  <2>10. Update(tasks', k, u)
    BY <2>1, <2>2, <2>6, <2>7 DEF Update, TaskOK
  <2>11. /\ tasks' \in [Slots -> Task \cup {None}] /\ TasksOK(tasks') /\ tasks'[k] = u
         /\ \A l \in Slots : l # k =>
                /\ \A q \in Rows : HeldBy(tasks', l, q) = HeldBy(tasks, l, q)
                /\ (Att(tasks', l) <=> Att(tasks, l)) /\ Out(tasks', l) = Out(tasks, l)
                /\ Parked(tasks'[l]) <=> Parked(tasks[l])
                /\ NextAccess(tasks'[l]) = NextAccess(tasks[l])
    BY <2>10, OneTask
  <2>12. /\ Out(tasks', k) = Out(tasks, k) /\ (Att(tasks', k) <=> Att(tasks, k))
         /\ HeldBy(tasks, k, r) = t.held[r] /\ HeldBy(tasks', k, r) = t.held[r] + 1
         /\ \A q \in Rows : q # r => HeldBy(tasks', k, q) = HeldBy(tasks, k, q)
    BY <1>1, <1>2, <2>3, <2>8, <2>9, <2>11 DEF HeldBy, Out, Att, t
  <2> HIDE DEF a
  <2>13. /\ cell' \in CellsType
         /\ \A other : \A d \in Cells : ~FreeIn(cell, d, other) => ~FreeIn(cell', d, other)
         /\ \A d \in Cells : d # a.cell => cell'[d] = cell[d]
         /\ ~cell[a.cell].writer
         /\ a.kind = "Read" => /\ cell'[a.cell].readers = cell[a.cell].readers + 1
                               /\ ~cell'[a.cell].writer
         /\ a.kind # "Read" => /\ cell'[a.cell].readers = cell[a.cell].readers
                               /\ cell'[a.cell].writer
    BY <1>3, <1>4, <1>7, <2>1, GrantedBlocks
  <2>14. Exact'
    <3> SUFFICES ASSUME NEW c \in Cells PROVE ExactAt(c)'
      BY DEF Exact
    <3>1. \A kind : Cardinality(Guards(tasks', c, kind)) =
                IF a = [cell |-> c, kind |-> kind]
                THEN Cardinality(Guards(tasks, c, kind)) + 1 ELSE Cardinality(Guards(tasks, c, kind))
      BY <1>2, <1>3, <2>11, <2>12, GuardsTaken
    <3>2. ExactAt(c) /\ ScoopReads(c) \in Nat
      BY <1>4, ScoopReadsType DEF Exact
    <3>3. /\ ScoopReads(c)' = ScoopReads(c) /\ MutatorWrites(c)' = MutatorWrites(c)
          /\ CowWrites(c)' = CowWrites(c)
      BY <1>1 DEF ScoopReads, MutatorWrites, CowWrites
    <3>4. /\ Cardinality(Guards(tasks, c, "Read")) \in Nat
          /\ Cardinality(Guards(tasks, c, "Write")) \in Nat
      BY GuardsFinite
    <3>5. a \in [cell : Cells, kind : Kinds]
      BY <1>2, <1>3, AccessesType
    <3>6. CASE a.cell # c
      <4>1. a # [cell |-> c, kind |-> "Read"] /\ a # [cell |-> c, kind |-> "Write"]
        BY <3>6
      <4> QED BY <2>13, <3>1, <3>2, <3>3, <3>6, <4>1 DEF ExactAt
    <3>7. CASE a.cell = c /\ a.kind = "Read"
      <4>1. a = [cell |-> c, kind |-> "Read"] /\ a # [cell |-> c, kind |-> "Write"]
        BY <3>5, <3>7
      <4> QED BY <2>13, <3>1, <3>2, <3>3, <3>4, <3>7, <4>1 DEF ExactAt
    <3>8. CASE a.cell = c /\ a.kind = "Write"
      <4>1. a # [cell |-> c, kind |-> "Read"] /\ a = [cell |-> c, kind |-> "Write"]
        BY <3>5, <3>8
      <4>2. cell[c].readers = 0
        BY <1>7, <3>8 DEF Free
      <4> QED BY <2>13, <3>1, <3>2, <3>3, <3>4, <3>8, <4>1, <4>2
          DEF ExactAt, MutatorWrites, CowWrites
    <3> QED BY <3>5, <3>6, <3>7, <3>8 DEF Kinds
  <2>15. Blocked'
    <3>1. TasksBlocked(tasks', cell')
      <4> SUFFICES ASSUME NEW l \in Slots, Parked(tasks'[l])
                   PROVE  ~FreeIn(cell', NextAccess(tasks'[l]).cell, NextAccess(tasks'[l]).kind)
        BY DEF TasksBlocked
      <4>1. l # k
        BY <2>9, <2>11
      <4>2. Parked(tasks[l]) /\ NextAccess(tasks'[l]) = NextAccess(tasks[l])
        BY <2>11, <4>1
      <4>3. NextAccess(tasks[l]).cell \in Cells
        BY <4>2, ParkedType DEF IInv, TypeOK
      <4>4. ~FreeIn(cell, NextAccess(tasks[l]).cell, NextAccess(tasks[l]).kind)
        BY <1>4, <4>2 DEF Blocked, TasksBlocked
      <4> QED BY <2>13, <4>2, <4>3, <4>4
    <3>2. scoop.st = "parked" => ScoopCells[scoop.held + 1] \in Cells
      BY <1>4, DispatchAssumption DEF CallersOK, TypeOK
    <3>3. cow.st = "parked" => cow.at \in Cells
      BY <1>4 DEF CallersOK
    <3> QED BY <1>1, <1>4, <2>13, <3>1, <3>2, <3>3 DEF Blocked, ScoopBlocked, CowBlocked
  <2>16. dirty' \subseteq Rows
    BY <1>2, <1>4, <2>1 DEF TypeOK
  <2>17. TypeOK' /\ CallersOK'
    BY <1>1, <1>4, <2>11, <2>13, <2>16 DEF TypeOK, CallersOK, CellsType
  <2>18. Disjoint(tasks') /\ Backed(reserved', tasks')
    <3>1. \A l \in Slots : Out(tasks', l) = Out(tasks, l)
      BY <2>11, <2>12
    <3> QED BY <1>1, <3>1, SameResults DEF IInv
  <2>19. NoStreams'
    BY <1>1, <2>11, <2>12 DEF IInv, NoStreams
  <2>20. DirtyReserved'
    <3>1. CASE last /\ Writes(r) /\ t.fate # "orphaned"
      <4>1. t.fate # "cancelled"
        BY <1>2, <1>5, <3>1 DEF BatchOK
      <4>2. t.fate = "attached"
        BY <1>2, <3>1, <4>1 DEF Task
      <4>3. r \in Outstanding(t)
        BY <1>1, <1>2 DEF Outstanding
      <4>4. r \in Out(tasks, k)
        BY <1>1, <4>2, <4>3 DEF Out, Att, t
      <4>5. r \in reserved
        BY <4>4 DEF IInv, Backed
      <4> QED BY <1>1, <2>1, <3>1, <4>5 DEF IInv, DirtyReserved, Writes
    <3>2. CASE ~(last /\ Writes(r) /\ t.fate # "orphaned")
      <4>1. dirty' = dirty
        BY <2>1, <3>2
      <4> QED BY <1>1, <4>1 DEF IInv, DirtyReserved, Writes
    <3> QED BY <3>1, <3>2
  <2> QED BY <2>11, <2>14, <2>15, <2>17, <2>18, <2>19, <2>20 DEF IInv
<1> QED BY <1>6, <1>7

-----------------------------------------------------------------------------
(* Steps of the driver *)

\* A step in which no guard is taken or dropped and nobody parks.
LEMMA SameGuards ==
  ASSUME IInv, Keeps(tasks, tasks'), StillParked(tasks'), UNCHANGED <<cell, scoop, cow>>,
         \A c : MutatorWrites(c)' = MutatorWrites(c)
  PROVE  Exact' /\ Blocked'
<1>1. Exact'
  <2>1. \A c, kind : Guards(tasks', c, kind) = Guards(tasks, c, kind)
    BY GuardsSame
  <2>2. \A c : ExactAt(c) => ExactAt(c)'
    BY <2>1 DEF ExactAt, ScoopReads, CowWrites
  <2> QED BY <2>2 DEF IInv, Exact
<1>2. Blocked'
  BY DEF IInv, Blocked, StillParked, TasksBlocked
<1> QED BY <1>1, <1>2

\* Steps that change neither tasks, cells nor parked callers.
LEMMA SameTasks ==
  ASSUME IInv, UNCHANGED <<tasks, cell, scoop, cow>>,
         \A c : MutatorWrites(c)' = MutatorWrites(c)
  PROVE  /\ TasksOK(tasks') /\ Exact' /\ Blocked' /\ Disjoint(tasks')
         /\ Backed(reserved, tasks') /\ \A k : Att(tasks', k) <=> Att(tasks, k)
<1>1. Keeps(tasks, tasks') /\ StillParked(tasks')
  BY DEF Keeps, StillParked
<1>2. Exact' /\ Blocked'
  BY <1>1, SameGuards
<1> QED BY <1>2 DEF IInv

\* The steps between planning passes: nothing is in flight where the driver
\* goes idle or opens a window.
LEMMA PhaseStep ==
  ASSUME IInv, Begin \/ OpenWindow \/ CloseWindow \/ Drained
  PROVE  IInv'
<1>1. UNCHANGED <<parallel, tasks, cell, due, dirty, scoop, cow, mutator, events>>
  BY DEF Begin, OpenWindow, CloseWindow, Drained, Quiet
<1>2. pc' \in {"idle", "plan", "wait", "drain", "window"}
  BY DEF Begin, OpenWindow, CloseWindow, Drained
<1>3. \A c : MutatorWrites(c)' = MutatorWrites(c)
  BY <1>1 DEF MutatorWrites
<1>4. /\ TasksOK(tasks') /\ Exact' /\ Blocked' /\ Disjoint(tasks')
      /\ Backed(reserved, tasks') /\ \A k : Att(tasks', k) <=> Att(tasks, k)
  BY <1>1, <1>3, SameTasks
<1>5. pc' \in {"idle", "window"} => \A k \in Slots : ~Att(tasks, k)
  BY DEF Begin, OpenWindow, CloseWindow, Drained, Streams, Attached, Att
<1>6. reserved' = reserved
  <2>1. CASE OpenWindow
    <3>1. reserved' = {} /\ pc' = "window"
      BY <2>1 DEF OpenWindow
    <3>2. \A k \in Slots : Out(tasks, k) = {}
      BY <1>5, <3>1 DEF Out
    <3>3. reserved = {}
      BY <3>2 DEF IInv, Backed
    <3> QED BY <3>1, <3>3
  <2>2. CASE Begin \/ CloseWindow \/ Drained
    BY <2>2 DEF Begin, CloseWindow, Drained
  <2> QED BY <2>1, <2>2
<1>7. TypeOK' /\ CallersOK'
  BY <1>1, <1>2, <1>6 DEF IInv, TypeOK, CallersOK
<1>8. DirtyReserved' /\ NoStreams'
  BY <1>1, <1>4, <1>5, <1>6 DEF IInv, DirtyReserved, NoStreams, Writes
<1> QED BY <1>4, <1>6, <1>7, <1>8 DEF IInv

\* A received result is published, and its reservation released.
LEMMA ReceiveStep ==
  ASSUME IInv, NEW k \in Slots, Receive(k)
  PROVE  IInv'
<1> DEFINE t == tasks[k]
           r == t.chan[1]
           u == [t EXCEPT !.chan = Tail(t.chan)]
<1>1. /\ t # None /\ t.fate = "attached" /\ t.chan # <<>> /\ pc \in {"wait", "drain"}
      /\ reserved' = reserved \ {r} /\ dirty' = dirty \ {r} /\ pc' \in {"plan", "wait", "drain"}
      /\ UNCHANGED <<parallel, cell, scoop, cow, mutator, events>>
  BY DEF Receive, Attached, Quiet
<1>2. due' \subseteq Rows
  BY DEF Receive, IInv, TypeOK
<1>3. tasks' = [tasks EXCEPT ![k] = u]
  BY DEF Receive
<1>4. t \in Task /\ TaskOK(t) /\ t.chan \in Seq(Rows) /\ t.rows \subseteq Rows
  BY <1>1, LiveTask
<1>5. /\ Tail(t.chan) \in Seq(Rows) /\ Len(t.chan) \in Nat /\ Len(t.chan) >= 1
      /\ DOMAIN t.chan = 1 .. Len(t.chan) /\ DOMAIN Tail(t.chan) = 1 .. Len(t.chan) - 1
      /\ \A i \in 1 .. Len(t.chan) - 1 : Tail(t.chan)[i] = t.chan[i + 1]
  BY <1>1, <1>4
<1>6. u \in Task
  BY <1>4, <1>5 DEF Task
<1>7. /\ u.rows = t.rows /\ u.held = t.held /\ u.st = t.st /\ u.cur = t.cur
      /\ u.run = t.run /\ u.fate = t.fate /\ u.chan = Tail(t.chan)
  BY <1>4 DEF Task
<1>8. r = t.chan[1]
  OBVIOUS
<1> HIDE DEF u, t, r
<1>9. TaskOK(u)
  <2>1. RowsOK(u) /\ BatchOK(u)
    BY <1>4, <1>7 DEF TaskOK, RowsOK, BatchOK
  <2>2. \A i \in DOMAIN u.chan : i + 1 \in DOMAIN t.chan /\ u.chan[i] = t.chan[i + 1]
    BY <1>5, <1>7
  <2>3. \A i \in DOMAIN u.chan : u.chan[i] \in u.rows /\ u.st[u.chan[i]] = "sent"
    BY <1>4, <1>7, <2>2 DEF TaskOK, ChanOK
  <2>4. ASSUME NEW i \in DOMAIN u.chan, NEW j \in DOMAIN u.chan, u.chan[i] = u.chan[j]
        PROVE  i = j
    <3>1. i + 1 = j + 1
      BY <1>4, <2>2, <2>4 DEF TaskOK, ChanOK
    <3> QED BY <1>5, <1>7, <3>1
  <2>5. ChanOK(u)
    BY <2>3, <2>4 DEF ChanOK
  <2> QED BY <2>1, <2>5 DEF TaskOK
<1>10. Outstanding(u) = Outstanding(t) \ {r}
  <2>1. ToSet(t.chan) = {t.chan[i] : i \in 1 .. Len(t.chan)}
    BY <1>5 DEF ToSet
  <2>2. ToSet(u.chan) = {t.chan[i + 1] : i \in 1 .. Len(t.chan) - 1}
    BY <1>5, <1>7 DEF ToSet
  <2>3. \A i \in 1 .. Len(t.chan) - 1 : i + 1 \in 1 .. Len(t.chan) /\ t.chan[i + 1] # r
    BY <1>4, <1>5, <1>8 DEF TaskOK, ChanOK
  <2>4. \A i \in 1 .. Len(t.chan) : i = 1 \/ i - 1 \in 1 .. Len(t.chan) - 1
    BY <1>5
  <2>5. ToSet(u.chan) = ToSet(t.chan) \ {r}
    <3>1. ASSUME NEW x \in ToSet(t.chan), x # r PROVE x \in ToSet(u.chan)
      <4>1. PICK i \in 1 .. Len(t.chan) : x = t.chan[i]
        BY <2>1, <3>1
      <4>2. i - 1 \in 1 .. Len(t.chan) - 1 /\ (i - 1) + 1 = i
        BY <1>5, <1>8, <2>4, <3>1, <4>1
      <4> QED BY <2>2, <4>1, <4>2
    <3>2. ASSUME NEW x \in ToSet(u.chan) PROVE x \in ToSet(t.chan) /\ x # r
      BY <2>1, <2>2, <2>3, <3>2
    <3> QED BY <3>1, <3>2
  <2>6. t.st[r] = "sent"
    BY <1>4, <1>5, <1>8 DEF TaskOK, ChanOK
  <2> QED BY <1>7, <2>5, <2>6 DEF Outstanding
<1>11. Update(tasks', k, u) /\ u # None
  BY <1>3, <1>6, <1>9, NoneIsNoTask DEF Update
<1>12. /\ tasks' \in [Slots -> Task \cup {None}] /\ TasksOK(tasks') /\ tasks'[k] = u
       /\ \A l \in Slots : l # k =>
                /\ \A q \in Rows : HeldBy(tasks', l, q) = HeldBy(tasks, l, q)
                /\ (Att(tasks', l) <=> Att(tasks, l)) /\ Out(tasks', l) = Out(tasks, l)
                /\ Parked(tasks'[l]) <=> Parked(tasks[l])
                /\ NextAccess(tasks'[l]) = NextAccess(tasks[l])
  BY <1>11, OneTask
<1>13. Keeps(tasks, tasks')
  BY <1>1, <1>7, <1>11, <1>12 DEF Keeps, HeldBy, t
<1>14. StillParked(tasks')
  <2>1. Parked(u) => Parked(t) /\ NextAccess(u) = NextAccess(t)
    BY <1>1, <1>7 DEF Parked, NextAccess
  <2> QED BY <1>12, <2>1 DEF StillParked, t
<1>15. Exact' /\ Blocked'
  <2>1. \A c : MutatorWrites(c)' = MutatorWrites(c)
    BY <1>1 DEF MutatorWrites
  <2> QED BY <1>1, <1>13, <1>14, <2>1, SameGuards
<1>16. Out(tasks, k) = Outstanding(t) /\ Out(tasks', k) = Outstanding(t) \ {r}
  BY <1>1, <1>7, <1>10, <1>11, <1>12 DEF Out, Att, t
<1>17. r \in Out(tasks, k)
  <2>1. r \in ToSet(t.chan)
    BY <1>5, <1>8 DEF ToSet
  <2> QED BY <1>16, <2>1 DEF Outstanding
<1>18. Disjoint(tasks')
  BY <1>12, <1>16 DEF IInv, Disjoint
<1>19. Backed(reserved', tasks')
  <2>1. \A l \in Slots : l # k => r \notin Out(tasks, l)
    BY <1>17 DEF IInv, Disjoint
  <2>2. \A x, l : l \in Slots => (x \in Out(tasks', l) <=> x \in Out(tasks, l) /\ x # r)
    BY <1>12, <1>16, <2>1
  <2> QED BY <1>1, <2>2 DEF IInv, Backed
<1>20. TypeOK' /\ CallersOK'
  BY <1>1, <1>2, <1>12 DEF IInv, TypeOK, CallersOK
<1>21. DirtyReserved' /\ NoStreams'
  BY <1>1 DEF IInv, DirtyReserved, NoStreams, Writes
<1> QED BY <1>12, <1>15, <1>18, <1>19, <1>20, <1>21 DEF IInv

\* Dropped streams: their tasks are detached, or gone with their guards, and
\* nothing is expected of them.
LEMMA DetachStep ==
  ASSUME IInv, NEW K \in SUBSET Streams, NEW fate \in {"cancelled", "orphaned"},
         fate = "cancelled" => \A k \in K : ~WriteBatch(tasks[k]),
         Detach(K, fate), mutator' = mutator
  PROVE  /\ tasks' \in [Slots -> Task \cup {None}] /\ TasksOK(tasks')
         /\ cell' \in CellsType /\ Exact' /\ Blocked' /\ CallersOK'
         /\ scoop' \in [st : {"done", "fetch", "parked"}, held : 0 .. Len(ScoopCells)]
         /\ cow' \in [st : {"done", "locked", "parked", "writing"}, at : Cells \cup {None}]
         /\ \A k \in Slots : /\ Att(tasks', k) <=> Att(tasks, k) /\ k \notin K
                             /\ Out(tasks', k) = IF k \in K THEN {} ELSE Out(tasks, k)
<1> DEFINE over == {k \in K : ~parallel \/ tasks[k].run \in {"done", "panicked"}}
           u(k) == [tasks[k] EXCEPT !.fate = fate]
           ts == [k \in Slots |-> IF k \in over THEN None
                                  ELSE IF k \in K THEN u(k) ELSE tasks[k]]
<1>1. Unlock(ts, Released(RowsOf(over)))
  BY DEF Detach
<1>2. ASSUME NEW k \in K
      PROVE  /\ k \in Slots /\ tasks[k] # None /\ tasks[k] \in Task /\ TaskOK(tasks[k])
             /\ u(k) \in Task /\ TaskOK(u(k)) /\ u(k) # None
             /\ u(k).held = tasks[k].held /\ u(k).fate # "attached"
             /\ Parked(u(k)) => Parked(tasks[k]) /\ NextAccess(u(k)) = NextAccess(tasks[k])
  <2> DEFINE t == tasks[k]
             v == u(k)
  <2>1. k \in Slots /\ t # None
    BY DEF Streams, Attached
  <2>2. t \in Task /\ TaskOK(t)
    BY <2>1, LiveTask
  <2>3. v \in Task
    BY <2>2 DEF Task
  <2>4. /\ v.rows = t.rows /\ v.held = t.held /\ v.st = t.st /\ v.cur = t.cur
        /\ v.run = t.run /\ v.chan = t.chan /\ v.fate = fate
    BY <2>2 DEF Task
  <2>5. fate = "cancelled" => \A r \in t.rows : ~Writes(r)
    BY DEF WriteBatch
  <2> HIDE DEF t, v
  <2>6. TaskOK(v)
    BY <2>2, <2>4, <2>5 DEF TaskOK, RowsOK, ChanOK, BatchOK
  <2>7. Parked(v) => Parked(t) /\ NextAccess(v) = NextAccess(t)
    BY <2>1, <2>4 DEF Parked, NextAccess
  <2> QED BY <2>1, <2>2, <2>3, <2>4, <2>6, <2>7, NoneIsNoTask DEF t, v
<1>3. over \subseteq K /\ K \subseteq Slots
  BY DEF Streams
<1>4. tasks \in [Slots -> Task \cup {None}] /\ TasksOK(tasks)
  BY DEF IInv, TypeOK
<1>5. \A k \in Slots : ts[k] = IF k \in over THEN None ELSE IF k \in K THEN u(k) ELSE tasks[k]
  OBVIOUS
<1>6. ts \in [Slots -> Task \cup {None}]
  <2>1. \A k \in Slots : ts[k] \in Task \cup {None}
    <3> HIDE DEF over, u, ts
    <3> QED BY <1>2, <1>4, <1>5
  <2> QED BY <2>1
<1> HIDE DEF over, u, ts
<1>7. TasksOK(ts)
  BY <1>2, <1>4, <1>5 DEF TasksOK
<1>8. StillParked(ts)
  <2>1. ~Parked(None)
    BY DEF Parked
  <2> QED BY <1>2, <1>5, <2>1 DEF StillParked
<1>9. RowsOf(over) \in SUBSET (Live \X Rows)
  BY <1>2, <1>3 DEF RowsOf, Live
<1>10. Drops(tasks, ts, RowsOf(over))
  <2> SUFFICES ASSUME NEW k \in Slots, NEW r \in Rows
               PROVE  HeldBy(ts, k, r) = IF <<k, r>> \in RowsOf(over) THEN 0 ELSE HeldBy(tasks, k, r)
    BY DEF Drops
  <2>1. <<k, r>> \in RowsOf(over) <=> k \in over
    BY DEF RowsOf
  <2> QED BY <1>2, <1>3, <1>5, <2>1 DEF HeldBy
<1>11. \A k \in Slots : /\ Att(ts, k) <=> Att(tasks, k) /\ k \notin K
                        /\ Out(ts, k) = IF k \in K THEN {} ELSE Out(tasks, k)
  BY <1>2, <1>3, <1>5 DEF Att, Out
<1>12. /\ tasks' \in [Slots -> Task \cup {None}] /\ TasksOK(tasks')
       /\ cell' \in CellsType /\ Exact' /\ Blocked' /\ CallersOK'
       /\ scoop' \in [st : {"done", "fetch", "parked"}, held : 0 .. Len(ScoopCells)]
       /\ cow' \in [st : {"done", "locked", "parked", "writing"}, at : Cells \cup {None}]
       /\ \A k \in Slots : (Att(tasks', k) <=> Att(ts, k)) /\ Out(tasks', k) = Out(ts, k)
  BY <1>1, <1>6, <1>7, <1>8, <1>9, <1>10, UnlockStep
<1> QED BY <1>11, <1>12

\* Preemption drops the reader streams and keeps exactly the reservations of
\* the writers it drains.
LEMMA PreemptStep ==
  ASSUME IInv, Preempt
  PROVE  IInv'
<1>1. /\ Detach(Cancelled, "cancelled") /\ reserved' = {r \in reserved : Writes(r)}
      /\ pc' = "drain" /\ UNCHANGED <<parallel, due, dirty, mutator, events>>
  BY DEF Preempt, Quiet
<1>2. Cancelled \in SUBSET Streams /\ \A k \in Cancelled : ~WriteBatch(tasks[k])
  BY DEF Cancelled
<1>3. /\ tasks' \in [Slots -> Task \cup {None}] /\ TasksOK(tasks')
      /\ cell' \in CellsType /\ Exact' /\ Blocked' /\ CallersOK'
      /\ scoop' \in [st : {"done", "fetch", "parked"}, held : 0 .. Len(ScoopCells)]
      /\ cow' \in [st : {"done", "locked", "parked", "writing"}, at : Cells \cup {None}]
      /\ \A k \in Slots : /\ Att(tasks', k) <=> Att(tasks, k) /\ k \notin Cancelled
                          /\ Out(tasks', k) = IF k \in Cancelled THEN {} ELSE Out(tasks, k)
  BY <1>1, <1>2, DetachStep
<1>4. ASSUME NEW k \in Slots, NEW r \in Out(tasks, k)
      PROVE  k \notin Cancelled <=> Writes(r)
  <2> DEFINE t == tasks[k]
  <2>1. Att(tasks, k) /\ t # None /\ r \in Outstanding(t)
    BY <1>4 DEF Out, Att
  <2>2. k \notin Cancelled <=> WriteBatch(t)
    BY <2>1 DEF Cancelled, Streams, Attached, Att
  <2>3. TaskOK(t) /\ t.chan \in Seq(Rows)
    BY <2>1, LiveTask
  <2> HIDE DEF t
  <2>4. r \in t.rows
    <3>1. CASE r \in ToSet(t.chan)
      BY <2>3, <3>1 DEF ToSet, TaskOK, ChanOK
    <3>2. CASE r \notin ToSet(t.chan)
      BY <2>1, <3>2 DEF Outstanding
    <3> QED BY <3>1, <3>2
  <2> QED BY <2>2, <2>3, <2>4 DEF WriteBatch, TaskOK, BatchOK
<1>5. Disjoint(tasks')
  BY <1>3 DEF IInv, Disjoint
<1>6. Backed(reserved', tasks')
  <2>1. \A r : r \in reserved' <=> r \in reserved /\ Writes(r)
    BY <1>1
  <2>2. \A r, k : k \in Slots => (r \in Out(tasks', k) <=> r \in Out(tasks, k) /\ Writes(r))
    BY <1>3, <1>4
  <2>3. \A r : r \in reserved <=> \E k \in Slots : r \in Out(tasks, k)
    BY DEF IInv, Backed
  <2> QED BY <2>1, <2>2, <2>3 DEF Backed
<1>7. TypeOK'
  <2>1. reserved' \subseteq Rows
    BY <1>1 DEF IInv, TypeOK
  <2> QED BY <1>1, <1>3, <2>1 DEF IInv, TypeOK, CellsType
<1>8. DirtyReserved' /\ NoStreams'
  <2>1. \A r : Writes(r)' <=> Writes(r)
    BY DEF Writes
  <2> QED BY <1>1, <2>1 DEF IInv, DirtyReserved, NoStreams
<1> QED BY <1>3, <1>5, <1>6, <1>7, <1>8 DEF IInv

\* A driver that unwinds or is dropped leaves no stream and no reservation.
LEMMA AbandonStep ==
  ASSUME IInv, Abandon, events' \in Nat
  PROVE  IInv'
<1>1. /\ Detach(Streams, "orphaned") /\ reserved' = {} /\ dirty' = {} /\ pc' = "idle"
      /\ UNCHANGED <<parallel, due, mutator>>
  BY DEF Abandon
<1>2. /\ tasks' \in [Slots -> Task \cup {None}] /\ TasksOK(tasks')
      /\ cell' \in CellsType /\ Exact' /\ Blocked' /\ CallersOK'
      /\ scoop' \in [st : {"done", "fetch", "parked"}, held : 0 .. Len(ScoopCells)]
      /\ cow' \in [st : {"done", "locked", "parked", "writing"}, at : Cells \cup {None}]
      /\ \A k \in Slots : /\ Att(tasks', k) <=> Att(tasks, k) /\ k \notin Streams
                          /\ Out(tasks', k) = IF k \in Streams THEN {} ELSE Out(tasks, k)
  BY <1>1, DetachStep
<1>3. \A k \in Slots : ~Att(tasks', k)
  BY <1>2 DEF Streams, Attached, Att
<1>4. \A k \in Slots : Out(tasks', k) = {}
  BY <1>3 DEF Out
<1>5. Disjoint(tasks') /\ Backed(reserved', tasks')
  BY <1>1, <1>4 DEF Disjoint, Backed
<1>6. TypeOK'
  BY <1>1, <1>2 DEF IInv, TypeOK, CellsType
<1>7. DirtyReserved' /\ NoStreams'
  BY <1>1, <1>3 DEF DirtyReserved, NoStreams
<1> QED BY <1>2, <1>5, <1>6, <1>7 DEF IInv

\* The batches of the admitted rows: each row is in one, and the rows of a batch
\* are of one sort.
LEMMA BatchesSplit ==
  ASSUME NEW A \in SUBSET Rows
  PROVE  /\ \A b \in Batches(A) : b \subseteq A
         /\ \A b \in Batches(A) : \A q, r \in b :
                (Writes(q) <=> Writes(r)) /\ (q \in Sync <=> r \in Sync)
         /\ \A r \in A : \E b \in Batches(A) : r \in b
         /\ \A b, d \in Batches(A) : b \cap d # {} => b = d
<1> DEFINE Class(r) == {q \in A : BatchOf(A, q) = BatchOf(A, r)}
<1>1. Batches(A) = {Class(r) : r \in A}
  BY DEF Batches
<1>2. ASSUME NEW q \in A, NEW r \in A, BatchOf(A, q) = BatchOf(A, r)
      PROVE  (Writes(q) <=> Writes(r)) /\ (q \in Sync <=> r \in Sync)
  <2>1. /\ BatchOf(A, q)[1] = SystemOf[q] /\ BatchOf(A, r)[1] = SystemOf[r]
        /\ BatchOf(A, q)[2] = Writes(q) /\ BatchOf(A, r)[2] = Writes(r)
    BY DEF BatchOf
  <2>2. SystemOf[q] = SystemOf[r] /\ Writes(q) = Writes(r)
    BY <1>2, <2>1
  <2>3. q \in Sync <=> r \in Sync
    BY <2>2, DispatchAssumption
  <2> QED BY <2>2, <2>3
<1>3. \A b \in Batches(A) : \E r \in A : b = Class(r)
  BY <1>1
<1>4. \A r \in A : Class(r) \in Batches(A) /\ r \in Class(r)
  BY <1>1
<1>5. ASSUME NEW b \in Batches(A), NEW d \in Batches(A), b \cap d # {}
      PROVE  b = d
  <2>1. PICK q \in A, r \in A : b = Class(q) /\ d = Class(r)
    BY <1>3
  <2>2. PICK x \in A : BatchOf(A, x) = BatchOf(A, q) /\ BatchOf(A, x) = BatchOf(A, r)
    BY <1>5, <2>1
  <2> QED BY <2>1, <2>2
<1>6. \A b \in Batches(A) : b \subseteq A
  BY <1>3
<1>7. ASSUME NEW b \in Batches(A), NEW q \in b, NEW r \in b
      PROVE  q \in A /\ r \in A /\ BatchOf(A, q) = BatchOf(A, r)
  BY <1>3
<1> HIDE DEF Class
<1> QED BY <1>2, <1>4, <1>5, <1>6, <1>7

\* A batch that was just handed to the executor.
LEMMA SpawnedTask ==
  ASSUME NEW b \in SUBSET Rows,
         \A q, r \in b : (Writes(q) <=> Writes(r)) /\ (q \in Sync <=> r \in Sync)
  PROVE  /\ Spawned(b) \in Task /\ TaskOK(Spawned(b)) /\ ~Parked(Spawned(b))
         /\ Spawned(b).fate = "attached" /\ Outstanding(Spawned(b)) = b
         /\ \A r \in Rows : Spawned(b).held[r] = 0
<1> DEFINE u == Spawned(b)
<1>1. u \in Task
  <2>1. [r \in Rows |-> 0] \in [Rows -> Nat]
    OBVIOUS
  <2>2. [r \in Rows |-> "new"] \in
            [Rows -> {"new", "fetch", "parked", "body", "await", "resumed", "sent"}]
    OBVIOUS
  <2>3. <<>> \in Seq(Rows)
    OBVIOUS
  <2> QED BY <2>1, <2>2, <2>3 DEF Spawned, Task
<1>2. /\ u.rows = b /\ u.cur = None /\ u.run = "idle" /\ u.chan = <<>> /\ u.fate = "attached"
      /\ \A r \in Rows : u.held[r] = 0 /\ u.st[r] = "new"
  BY DEF Spawned
<1> HIDE DEF u
<1>3. RowsOK(u)
  <2>1. \A r \in Rows : Len(Accesses[r]) \in Nat
    BY AccessesType
  <2> QED BY <1>2, <2>1 DEF RowsOK
<1>4. ChanOK(u)
  BY <1>2 DEF ChanOK
<1>5. BatchOK(u)
  BY <1>2 DEF BatchOK
<1>6. Outstanding(u) = b
  BY <1>2 DEF Outstanding, ToSet
<1>7. ~Parked(u)
  BY <1>2 DEF Parked
<1> QED BY <1>1, <1>2, <1>3, <1>4, <1>5, <1>6, <1>7 DEF TaskOK, u

\* A planning pass reserves the rows it admits and gives each batch of them a
\* task of its own.
LEMMA PlanStep ==
  ASSUME IInv, Plan
  PROVE  IInv'
<1>1. /\ pc' = "wait"
      /\ UNCHANGED <<parallel, cell, due, dirty, scoop, cow, mutator, events>>
  BY DEF Plan, Quiet
<1> DEFINE Placed(B, slot) == [k \in Slots |-> IF \E b \in B : slot[b] = k
                                             THEN Spawned(CHOOSE b \in B : slot[b] = k)
                                             ELSE tasks[k]]
           Places(B) == Injection(B, Slots \ Live)
<1>a. PICK A \in SUBSET (due \ reserved) :
        /\ \E B \in {Batches(A)} :
            /\ Places(B) # {}
            /\ \E slot \in {CHOOSE f \in Places(B) : TRUE} : tasks' = Placed(B, slot)
        /\ reserved' = reserved \cup A
  BY DEF Plan
<1> HIDE DEF Placed
<1>b. PICK B \in {Batches(A)} :
        /\ Places(B) # {}
        /\ \E slot \in {CHOOSE f \in Places(B) : TRUE} : tasks' = Placed(B, slot)
  BY <1>a
<1>c. PICK slot \in {CHOOSE f \in Places(B) : TRUE} : tasks' = Placed(B, slot)
  BY <1>b
<1>d. B = Batches(A) /\ slot \in Places(B) /\ tasks' = Placed(B, slot) /\ reserved' = reserved \cup A
  BY <1>a, <1>b, <1>c
<1>2. /\ B = Batches(A) /\ slot \in Injection(B, Slots \ Live) /\ reserved' = reserved \cup A
      /\ tasks' = [k \in Slots |-> IF \E b \in B : slot[b] = k
                                   THEN Spawned(CHOOSE b \in B : slot[b] = k)
                                   ELSE tasks[k]]
  BY <1>d DEF Placed
<1>3. A \in SUBSET Rows /\ A \cap reserved = {}
  BY <1>2 DEF IInv, TypeOK
<1>4. /\ \A b \in B : b \subseteq A
      /\ \A b \in B : \A q, r \in b : (Writes(q) <=> Writes(r)) /\ (q \in Sync <=> r \in Sync)
      /\ \A r \in A : \E b \in B : r \in b
      /\ \A b, d \in B : b \cap d # {} => b = d
  BY <1>2, <1>3, BatchesSplit
<1>5. \A b \in B : b \in SUBSET Rows
  BY <1>3, <1>4
<1>6. \A b \in B : slot[b] \in Slots /\ tasks[slot[b]] = None
  BY <1>2 DEF Injection, Live
<1>7. \A b, d \in B : slot[b] = slot[d] => b = d
  BY <1>2 DEF Injection, IsInjective
<1>8. \A b \in B : /\ Spawned(b) \in Task /\ TaskOK(Spawned(b)) /\ ~Parked(Spawned(b))
                   /\ Spawned(b).fate = "attached" /\ Outstanding(Spawned(b)) = b
                   /\ \A r \in Rows : Spawned(b).held[r] = 0
  BY <1>4, <1>5, SpawnedTask
<1>9. \A b \in B : tasks'[slot[b]] = Spawned(b)
  <2> SUFFICES ASSUME NEW b \in B PROVE tasks'[slot[b]] = Spawned(b)
    OBVIOUS
  <2>1. (CHOOSE d \in B : slot[d] = slot[b]) = b
    BY <1>7
  <2> QED BY <1>2, <1>6, <2>1
<1>10. ASSUME NEW k \in Slots, \A b \in B : slot[b] # k
       PROVE  tasks'[k] = tasks[k]
  BY <1>2, <1>10
<1>11. ASSUME NEW b \in B
       PROVE  /\ tasks'[slot[b]] \in Task /\ TaskOK(tasks'[slot[b]])
              /\ tasks'[slot[b]] # None /\ ~Parked(tasks'[slot[b]])
              /\ \A r \in Rows : HeldBy(tasks', slot[b], r) = HeldBy(tasks, slot[b], r)
              /\ Out(tasks', slot[b]) = b /\ Out(tasks, slot[b]) = {}
  <2> DEFINE u == Spawned(b)
  <2>1. /\ u \in Task /\ TaskOK(u) /\ ~Parked(u) /\ u.fate = "attached" /\ Outstanding(u) = b
        /\ \A r \in Rows : u.held[r] = 0
    BY <1>8
  <2>2. tasks'[slot[b]] = u /\ tasks[slot[b]] = None
    BY <1>6, <1>9
  <2> HIDE DEF u
  <2>3. u # None
    BY <2>1, NoneIsNoTask
  <2>4. \A r \in Rows : HeldBy(tasks', slot[b], r) = 0 /\ HeldBy(tasks, slot[b], r) = 0
    BY <2>1, <2>2, <2>3 DEF HeldBy
  <2>5. Out(tasks', slot[b]) = b /\ Out(tasks, slot[b]) = {}
    BY <2>1, <2>2, <2>3 DEF Out, Att
  <2> QED BY <2>1, <2>2, <2>3, <2>4, <2>5
<1>12. ASSUME NEW k \in Slots, tasks'[k] = tasks[k]
       PROVE  Out(tasks', k) = Out(tasks, k) /\ \A r \in Rows : HeldBy(tasks', k, r) = HeldBy(tasks, k, r)
  BY <1>12 DEF Out, Att, HeldBy
<1>13. tasks \in [Slots -> Task \cup {None}] /\ TasksOK(tasks)
  BY DEF IInv, TypeOK
<1>14. tasks' \in [Slots -> Task \cup {None}]
  <2>1. \A k \in Slots : tasks'[k] \in Task \cup {None}
    BY <1>10, <1>11, <1>13
  <2>2. tasks' = [k \in Slots |-> tasks'[k]]
    BY <1>2
  <2> QED BY <2>1, <2>2
<1>15. TasksOK(tasks')
  BY <1>10, <1>11, <1>13 DEF TasksOK
<1>16. Keeps(tasks, tasks')
  BY <1>10, <1>11, <1>12 DEF Keeps
<1>17. StillParked(tasks')
  BY <1>10, <1>11 DEF StillParked
<1>18. Exact' /\ Blocked'
  <2>1. \A c : MutatorWrites(c)' = MutatorWrites(c)
    BY <1>1 DEF MutatorWrites
  <2> QED BY <1>1, <1>16, <1>17, <2>1, SameGuards
<1>19. \A k \in Slots : Out(tasks, k) \subseteq reserved
  BY DEF IInv, Backed
<1>20. ASSUME NEW k \in Slots
       PROVE  \/ Out(tasks', k) = Out(tasks, k) /\ Out(tasks', k) \subseteq reserved
              \/ \E b \in B : slot[b] = k /\ Out(tasks', k) = b
  BY <1>10, <1>11, <1>12, <1>19
<1>21. Disjoint(tasks')
  <2> SUFFICES ASSUME NEW k \in Slots, NEW l \in Slots, k # l
               PROVE  Out(tasks', k) \cap Out(tasks', l) = {}
    BY DEF Disjoint
  <2>1. Out(tasks, k) \cap Out(tasks, l) = {}
    BY DEF IInv, Disjoint
  <2> QED BY <1>3, <1>4, <1>20, <2>1
<1>22. Backed(reserved', tasks')
  <2>1. ASSUME NEW r \in reserved PROVE \E k \in Slots : r \in Out(tasks', k)
    <3>1. PICK k \in Slots : r \in Out(tasks, k)
      BY DEF IInv, Backed
    <3>2. \A b \in B : slot[b] # k
      BY <1>11, <3>1
    <3> QED BY <1>10, <1>12, <3>1, <3>2
  <2>2. ASSUME NEW r \in A PROVE \E k \in Slots : r \in Out(tasks', k)
    BY <1>4, <1>6, <1>11
  <2>3. ASSUME NEW r, NEW k \in Slots, r \in Out(tasks', k) PROVE r \in reserved \cup A
    BY <1>4, <1>20, <2>3
  <2> QED BY <1>2, <2>1, <2>2, <2>3 DEF Backed
<1>23. TypeOK' /\ CallersOK'
  <2>1. reserved' \subseteq Rows
    BY <1>2, <1>3 DEF IInv, TypeOK
  <2> QED BY <1>1, <1>14, <2>1 DEF IInv, TypeOK, CallersOK
<1>24. DirtyReserved' /\ NoStreams'
  <2>1. \A r : Writes(r)' <=> Writes(r)
    BY DEF Writes
  <2> QED BY <1>1, <1>2, <2>1 DEF IInv, DirtyReserved, NoStreams
<1> QED BY <1>15, <1>18, <1>21, <1>22, <1>23, <1>24 DEF IInv

-----------------------------------------------------------------------------
(* Steps of the callers *)

CallersType ==
    /\ mutator \in [st : {"idle", "waiting", "writing"}, at : Cells \cup {None}]
    /\ scoop \in [st : {"done", "fetch", "parked"}, held : 0 .. Len(ScoopCells)]
    /\ cow \in [st : {"done", "locked", "parked", "writing"}, at : Cells \cup {None}]

\* What the evaluation sees of a caller's step: at most its tasks are woken.
OnlyWoken ==
    /\ Evaluation
    /\ tasks' \in [Slots -> Task \cup {None}] /\ TasksOK(tasks') /\ Keeps(tasks, tasks')
    /\ \A k \in Slots : (Att(tasks', k) <=> Att(tasks, k)) /\ Out(tasks', k) = Out(tasks, k)
    /\ due' \subseteq Rows /\ events' \in Nat

\* Steps of callers: the tasks are only woken.
LEMMA CallerStep ==
  ASSUME IInv, OnlyWoken, cell' \in CellsType, Exact', Blocked', CallersType', CallersOK'
  PROVE  IInv'
<1>1. TypeOK'
  BY DEF IInv, TypeOK, OnlyWoken, Evaluation, CallersType, CellsType
<1>2. Disjoint(tasks') /\ Backed(reserved', tasks')
  BY SameResults DEF IInv, OnlyWoken, Evaluation
<1>3. DirtyReserved' /\ NoStreams'
  <2>1. \A r : Writes(r)' <=> Writes(r)
    BY DEF Writes
  <2> QED BY <2>1 DEF IInv, DirtyReserved, NoStreams, OnlyWoken, Evaluation
<1> QED BY <1>1, <1>2, <1>3 DEF IInv, OnlyWoken

\* Steps of callers that wake nobody.
LEMMA TasksAlone ==
  ASSUME IInv, Evaluation, tasks' = tasks, due' = due, events' \in Nat
  PROVE  OnlyWoken
BY DEF OnlyWoken, IInv, TypeOK, Keeps

\* Notified threads look again, the others still have something to wait for.
LEMMA WakeStep ==
  ASSUME IInv, Evaluation, cell' \in CellsType, tasks' = Woken(tasks, Notified(cell')),
         due' \subseteq Rows, events' \in Nat,
         scoop' = ScoopWoken(Notified(cell')) \/ scoop'.st # "parked",
         cow' = CowWoken(Notified(cell')) \/ cow'.st # "parked"
  PROVE  OnlyWoken /\ Blocked'
<1>1. tasks \in [Slots -> Task \cup {None}] /\ TasksOK(tasks) /\ cell \in CellsType
  BY DEF IInv, TypeOK, CellsType
<1>2. tasks' \in [Slots -> Task \cup {None}] /\ TasksOK(tasks')
  BY <1>1, WokenTasks
<1>3. \A k \in Slots : /\ \A r \in Rows : HeldBy(tasks', k, r) = HeldBy(tasks, k, r)
                       /\ Att(tasks', k) <=> Att(tasks, k)
                       /\ Out(tasks', k) = Out(tasks, k)
  BY <1>1, WokenFrame
<1>4. OnlyWoken
  BY <1>2, <1>3 DEF OnlyWoken, Keeps
<1>5. TasksBlocked(tasks', cell')
  BY <1>1, WokenBlocked DEF StillParked, IInv, Blocked
<1>6. /\ ScoopBlocked(ScoopWoken(Notified(cell')), cell')
      /\ CowBlocked(CowWoken(Notified(cell')), cell')
  BY CallersBlocked DEF IInv
<1>7. ScoopBlocked(scoop', cell') /\ CowBlocked(cow', cell')
  BY <1>6 DEF ScoopBlocked, CowBlocked
<1> QED BY <1>4, <1>5, <1>7 DEF Blocked

\* A guard granted to a caller makes no cell free.
LEMMA GrantStep ==
  ASSUME IInv, NEW c \in Cells, NEW kind, Free(c, kind), cell' = Granted(c, kind),
         tasks' = tasks, scoop' = scoop \/ scoop'.st # "parked",
         cow' = cow \/ cow'.st # "parked"
  PROVE  Blocked'
<1>1. cell \in CellsType /\ TypeOK /\ CallersOK /\ Blocked
  BY DEF IInv, TypeOK, CellsType
<1>2. \A other : \A d \in Cells : ~FreeIn(cell, d, other) => ~FreeIn(cell', d, other)
  BY <1>1, GrantedBlocks
<1>3. TasksBlocked(tasks', cell')
  <2>1. \A k \in Slots : Parked(tasks[k]) => NextAccess(tasks[k]).cell \in Cells
    BY ParkedType DEF IInv, TypeOK
  <2> QED BY <1>1, <1>2, <2>1 DEF Blocked, TasksBlocked
<1>4. scoop.st = "parked" => ScoopCells[scoop.held + 1] \in Cells
  BY <1>1, DispatchAssumption DEF CallersOK, TypeOK
<1>5. cow.st = "parked" => cow.at \in Cells
  BY <1>1 DEF CallersOK
<1> QED BY <1>1, <1>2, <1>3, <1>4, <1>5 DEF Blocked, ScoopBlocked, CowBlocked

\* The guards a caller has, next to the rows' at a cell.
Counts(c) ==
    /\ Cardinality(Guards(tasks, c, "Read")) \in Nat
    /\ Cardinality(Guards(tasks, c, "Write")) \in Nat
    /\ ScoopReads(c) \in Nat /\ MutatorWrites(c) \in {0, 1} /\ CowWrites(c) \in {0, 1}
    /\ ExactAt(c) /\ cell[c].writer \in BOOLEAN

\* The guards on a cell can be counted in every reachable state.
LEMMA CountsType ==
  ASSUME IInv, NEW c \in Cells PROVE Counts(c)
BY GuardsFinite, ScoopReadsType DEF Counts, IInv, Exact, TypeOK, MutatorWrites, CowWrites

\* A mutator asks for a cell.
LEMMA RegisterStep ==
  ASSUME IInv, NEW c \in MutatorCells, Register(c)
  PROVE  IInv'
<1>1. /\ mutator.st = "idle" /\ mutator' = [st |-> "waiting", at |-> c]
      /\ UNCHANGED <<cell, tasks, due, scoop, cow>> /\ Evaluation /\ events' \in Nat
  BY EventsType DEF Register, Event
<1>2. c \in Cells
  BY DispatchAssumption
<1>3. \A d : MutatorWrites(d)' = MutatorWrites(d)
  BY <1>1 DEF MutatorWrites
<1>4. Exact' /\ Blocked'
  BY <1>1, <1>3, SameTasks
<1>5. OnlyWoken
  BY <1>1, TasksAlone
<1>6. CallersType' /\ CallersOK' /\ cell' \in CellsType
  BY <1>1, <1>2 DEF IInv, TypeOK, CallersType, CallersOK, CellsType
<1> QED BY <1>4, <1>5, <1>6, CallerStep

\* A copy-on-write guard asks for its cell.
LEMMA CowLockStep ==
  ASSUME IInv, NEW c \in CowCells, CowLock(c)
  PROVE  IInv'
<1>1. /\ cow.st = "done" /\ cow' = [st |-> "locked", at |-> c]
      /\ UNCHANGED <<cell, tasks, due, scoop, mutator>> /\ Evaluation /\ events' \in Nat
  BY EventsType DEF CowLock, Event
<1>2. c \in Cells
  BY DispatchAssumption
<1>3. Exact'
  <2>1. \A d : ExactAt(d) => ExactAt(d)'
    BY <1>1 DEF ExactAt, ScoopReads, MutatorWrites, CowWrites
  <2> QED BY <2>1 DEF IInv, Exact
<1>4. Blocked'
  BY <1>1 DEF IInv, Blocked, CowBlocked
<1>5. OnlyWoken
  BY <1>1, TasksAlone
<1>6. CallersType' /\ CallersOK' /\ cell' \in CellsType
  BY <1>1, <1>2 DEF IInv, TypeOK, CallersType, CallersOK, CellsType
<1> QED BY <1>3, <1>4, <1>5, <1>6, CallerStep

\* A scoop starts.
LEMMA ScoopStep ==
  ASSUME IInv, Scoop
  PROVE  IInv'
<1>1. /\ scoop.st = "done" /\ scoop' = [scoop EXCEPT !.st = "fetch"]
      /\ UNCHANGED <<cell, tasks, due, cow, mutator>> /\ Evaluation /\ events' \in Nat
  BY EventsType DEF Scoop, Event
<1>2. scoop'.st = "fetch" /\ scoop'.held = scoop.held
  BY <1>1 DEF IInv, TypeOK
<1>3. Exact'
  <2>1. \A d : ExactAt(d) => ExactAt(d)'
    BY <1>1, <1>2 DEF ExactAt, ScoopReads, MutatorWrites, CowWrites
  <2> QED BY <2>1 DEF IInv, Exact
<1>4. Blocked'
  BY <1>1, <1>2 DEF IInv, Blocked, ScoopBlocked
<1>5. OnlyWoken
  BY <1>1, TasksAlone
<1>6. CallersType' /\ CallersOK' /\ cell' \in CellsType
  BY <1>1, <1>2 DEF IInv, TypeOK, CallersType, CallersOK, CellsType
<1> QED BY <1>3, <1>4, <1>5, <1>6, CallerStep

\* A caller that takes a free cell to write is its only holder.
LEMMA GrantWriteExact ==
  ASSUME IInv, NEW at \in Cells, Free(at, "Write"), cell' = Granted(at, "Write"),
         tasks' = tasks, scoop' = scoop,
         \A c \in Cells : MutatorWrites(c)' + CowWrites(c)' =
                MutatorWrites(c) + CowWrites(c) + (IF c = at THEN 1 ELSE 0)
  PROVE  cell' \in CellsType /\ Exact'
<1>1. cell \in CellsType
  BY DEF IInv, TypeOK, CellsType
<1>2. /\ cell' \in CellsType /\ ~cell[at].writer
      /\ \A d \in Cells : d # at => cell'[d] = cell[d]
      /\ cell'[at].readers = cell[at].readers /\ cell'[at].writer
  BY <1>1, GrantedBlocks
<1>3. ASSUME NEW c \in Cells PROVE ExactAt(c)'
  <2> DEFINE gw == Cardinality(Guards(tasks, c, "Write"))
             m == MutatorWrites(c)
             w == CowWrites(c)
  <2>1. /\ gw \in Nat /\ m \in {0, 1} /\ w \in {0, 1}
        /\ cell[c].readers = Cardinality(Guards(tasks, c, "Read")) + ScoopReads(c)
        /\ gw + m + w = IF cell[c].writer THEN 1 ELSE 0
        /\ cell[c].writer => cell[c].readers = 0
    BY CountsType DEF Counts, ExactAt
  <2>2. MutatorWrites(c)' \in {0, 1} /\ CowWrites(c)' \in {0, 1}
    BY DEF MutatorWrites, CowWrites
  <2>3. ScoopReads(c)' = ScoopReads(c)
    BY DEF ScoopReads
  <2>4. MutatorWrites(c)' + CowWrites(c)' = m + w + (IF c = at THEN 1 ELSE 0)
    OBVIOUS
  <2>5. ExactAt(c)' <=>
            /\ cell'[c].readers = Cardinality(Guards(tasks, c, "Read")) + ScoopReads(c)
            /\ gw + MutatorWrites(c)' + CowWrites(c)' = IF cell'[c].writer THEN 1 ELSE 0
            /\ cell'[c].writer => cell'[c].readers = 0
    BY <2>3 DEF ExactAt
  <2> HIDE DEF gw, m, w
  <2>6. gw + MutatorWrites(c)' + CowWrites(c)' = gw + m + w + (IF c = at THEN 1 ELSE 0)
    BY <2>1, <2>2, <2>4
  <2>7. CASE c = at
    <3>1. gw + m + w = 0
      BY <1>2, <2>1, <2>7
    <3>2. cell[c].readers = 0
      BY <2>7 DEF Free
    <3> QED BY <1>2, <2>1, <2>5, <2>6, <2>7, <3>1, <3>2
  <2>8. CASE c # at
    <3>1. gw + MutatorWrites(c)' + CowWrites(c)' = gw + m + w
      BY <2>1, <2>6, <2>8
    <3> QED BY <1>2, <2>1, <2>5, <2>8, <3>1
  <2> QED BY <2>7, <2>8
<1> QED BY <1>2, <1>3 DEF Exact

\* A caller that ends its write leaves the cell free.
LEMMA DropWriteExact ==
  ASSUME IInv, NEW at \in Cells, cell' = [cell EXCEPT ![at].writer = FALSE],
         cell' \in CellsType => Keeps(tasks, tasks'), scoop'.held = scoop.held,
         MutatorWrites(at) + CowWrites(at) >= 1,
         \A c \in Cells : MutatorWrites(c)' + CowWrites(c)' =
                MutatorWrites(c) + CowWrites(c) - (IF c = at THEN 1 ELSE 0)
  PROVE  cell' \in CellsType /\ Exact'
<1> DEFINE R == [readers : Nat, writer : BOOLEAN]
           new == [cell[at] EXCEPT !.writer = FALSE]
<1>1. cell \in [Cells -> R] /\ cell' = [cell EXCEPT ![at] = new]
  BY DEF IInv, TypeOK
<1>2. cell[at] \in R
  BY <1>1
<1>3. new \in R /\ new.readers = cell[at].readers /\ ~new.writer
  BY <1>2
<1> HIDE DEF new, R
<1>4. cell' \in [Cells -> R] /\ cell'[at] = new /\ \A d \in Cells : d # at => cell'[d] = cell[d]
  BY <1>1, <1>3
<1>5. cell' \in CellsType /\ Keeps(tasks, tasks')
  BY <1>4 DEF CellsType, R
<1>6. ASSUME NEW c \in Cells PROVE ExactAt(c)'
  <2> DEFINE gw == Cardinality(Guards(tasks, c, "Write"))
             m == MutatorWrites(c)
             w == CowWrites(c)
  <2>1. /\ gw \in Nat /\ m \in {0, 1} /\ w \in {0, 1}
        /\ cell[c].readers = Cardinality(Guards(tasks, c, "Read")) + ScoopReads(c)
        /\ gw + m + w = IF cell[c].writer THEN 1 ELSE 0
        /\ cell[c].writer => cell[c].readers = 0
    BY CountsType DEF Counts, ExactAt
  <2>2. MutatorWrites(c)' \in {0, 1} /\ CowWrites(c)' \in {0, 1}
    BY DEF MutatorWrites, CowWrites
  <2>3. ScoopReads(c)' = ScoopReads(c)
    BY DEF ScoopReads
  <2>4. \A kind : Guards(tasks', c, kind) = Guards(tasks, c, kind)
    BY <1>5, GuardsSame
  <2>5. MutatorWrites(c)' + CowWrites(c)' = m + w - (IF c = at THEN 1 ELSE 0)
    OBVIOUS
  <2>6. c = at => m + w >= 1
    OBVIOUS
  <2>7. ExactAt(c)' <=>
            /\ cell'[c].readers = Cardinality(Guards(tasks, c, "Read")) + ScoopReads(c)
            /\ gw + MutatorWrites(c)' + CowWrites(c)' = IF cell'[c].writer THEN 1 ELSE 0
            /\ cell'[c].writer => cell'[c].readers = 0
    BY <2>3, <2>4 DEF ExactAt
  <2> HIDE DEF gw, m, w
  <2>8. gw + MutatorWrites(c)' + CowWrites(c)' = gw + m + w - (IF c = at THEN 1 ELSE 0)
    BY <2>1, <2>2, <2>5
  <2>9. CASE c = at
    <3>1. gw + m + w = 1
      BY <2>1, <2>6, <2>9
    <3> QED BY <1>3, <1>4, <2>1, <2>7, <2>8, <2>9, <3>1
  <2>10. CASE c # at
    <3>1. gw + MutatorWrites(c)' + CowWrites(c)' = gw + m + w
      BY <2>1, <2>8, <2>10
    <3> QED BY <1>4, <2>1, <2>7, <2>10, <3>1
  <2> QED BY <2>9, <2>10
<1> QED BY <1>5, <1>6 DEF Exact

\* A mutator takes its cell in a window.
LEMMA TryWriteStep ==
  ASSUME IInv, TryWrite
  PROVE  IInv'
<1>1. /\ mutator.st = "waiting" /\ Free(mutator.at, "Write")
      /\ cell' = Granted(mutator.at, "Write") /\ mutator' = [mutator EXCEPT !.st = "writing"]
      /\ UNCHANGED <<tasks, due, scoop, cow>> /\ Evaluation /\ events' \in Nat
  BY EventsType DEF TryWrite
<1>2. mutator.at \in Cells
  BY <1>1 DEF IInv, CallersOK
<1>3. mutator'.st = "writing" /\ mutator'.at = mutator.at
  BY <1>1 DEF IInv, TypeOK
<1>4. \A c \in Cells : MutatorWrites(c)' + CowWrites(c)' =
            MutatorWrites(c) + CowWrites(c) + (IF c = mutator.at THEN 1 ELSE 0)
  BY <1>1, <1>3 DEF MutatorWrites, CowWrites
<1>5. cell' \in CellsType /\ Exact'
  BY <1>1, <1>2, <1>4, GrantWriteExact
<1>6. Blocked'
  BY <1>1, <1>2, GrantStep
<1>7. OnlyWoken
  BY <1>1, TasksAlone
<1>8. CallersType' /\ CallersOK'
  BY <1>1, <1>2, <1>3 DEF IInv, TypeOK, CallersType, CallersOK
<1> QED BY <1>5, <1>6, <1>7, <1>8, CallerStep

\* A mutator drops its guard.
LEMMA WriteDoneStep ==
  ASSUME IInv, WriteDone
  PROVE  IInv'
<1>1. /\ mutator.st = "writing" /\ cell' = [cell EXCEPT ![mutator.at].writer = FALSE]
      /\ tasks' = Woken(tasks, Notified(cell')) /\ scoop' = ScoopWoken(Notified(cell'))
      /\ cow' = CowWoken(Notified(cell')) /\ mutator' = [st |-> "idle", at |-> None]
      /\ due' = due \cup Readers(mutator.at) /\ Evaluation /\ events' \in Nat
  BY EventsType DEF WriteDone, Unlock
<1>2. mutator.at \in Cells /\ due' \subseteq Rows
  BY <1>1 DEF IInv, CallersOK, TypeOK, Readers
<1>3. /\ scoop' \in [st : {"done", "fetch", "parked"}, held : 0 .. Len(ScoopCells)]
      /\ cow' \in [st : {"done", "locked", "parked", "writing"}, at : Cells \cup {None}]
      /\ scoop'.held = scoop.held /\ cow'.at = cow.at
      /\ scoop'.st = "done" <=> scoop.st = "done"
      /\ scoop'.st = "parked" => scoop.st = "parked"
      /\ cow'.st = "done" <=> cow.st = "done"
      /\ cow'.st = "writing" <=> cow.st = "writing"
  BY <1>1, CallersWoken DEF IInv
<1>4. cell' \in CellsType => OnlyWoken /\ Blocked'
  BY <1>1, <1>2, WakeStep
<1>5. /\ MutatorWrites(mutator.at) + CowWrites(mutator.at) >= 1
      /\ \A c \in Cells : MutatorWrites(c)' + CowWrites(c)' =
            MutatorWrites(c) + CowWrites(c) - (IF c = mutator.at THEN 1 ELSE 0)
  BY <1>1, <1>3 DEF MutatorWrites, CowWrites
<1>6. cell' \in CellsType /\ Exact'
  BY <1>1, <1>2, <1>3, <1>4, <1>5, DropWriteExact DEF OnlyWoken
<1>7. CallersType' /\ CallersOK'
  BY <1>1, <1>3 DEF IInv, CallersType, CallersOK
<1> QED BY <1>4, <1>6, <1>7, CallerStep

\* A copy-on-write guard takes its cell, or parks.
LEMMA CowWriteStep ==
  ASSUME IInv, CowWrite
  PROVE  IInv'
<1>1. cow.st = "locked" /\ UNCHANGED <<tasks, due, scoop, mutator, events>> /\ Evaluation
  BY DEF CowWrite
<1>2. cow.at \in Cells /\ events' \in Nat
  BY <1>1, EventsType DEF IInv, CallersOK
<1>3. OnlyWoken
  BY <1>1, <1>2, TasksAlone
<1>4. CASE Free(cow.at, "Write")
  <2>1. cell' = Granted(cow.at, "Write") /\ cow' = [cow EXCEPT !.st = "writing"]
    BY <1>4 DEF CowWrite
  <2>2. cow'.st = "writing" /\ cow'.at = cow.at
    BY <2>1 DEF IInv, TypeOK
  <2>3. \A c \in Cells : MutatorWrites(c)' + CowWrites(c)' =
            MutatorWrites(c) + CowWrites(c) + (IF c = cow.at THEN 1 ELSE 0)
    BY <1>1, <2>2 DEF MutatorWrites, CowWrites
  <2>4. cell' \in CellsType /\ Exact'
    BY <1>1, <1>2, <1>4, <2>1, <2>3, GrantWriteExact
  <2>5. Blocked'
    BY <1>1, <1>2, <1>4, <2>1, <2>2, GrantStep
  <2>6. CallersType' /\ CallersOK'
    BY <1>1, <1>2, <2>1, <2>2 DEF IInv, TypeOK, CallersType, CallersOK
  <2> QED BY <1>3, <2>4, <2>5, <2>6, CallerStep
<1>5. CASE ~Free(cow.at, "Write")
  <2>1. cell' = cell /\ cow' = [cow EXCEPT !.st = "parked"]
    BY <1>5 DEF CowWrite
  <2>2. cow'.st = "parked" /\ cow'.at = cow.at
    BY <2>1 DEF IInv, TypeOK
  <2>3. Exact'
    <3>1. \A d : ExactAt(d) => ExactAt(d)'
      BY <1>1, <2>1, <2>2 DEF ExactAt, ScoopReads, MutatorWrites, CowWrites
    <3> QED BY <3>1 DEF IInv, Exact
  <2>4. Blocked'
    BY <1>1, <1>5, <2>1, <2>2 DEF IInv, Blocked, CowBlocked, FreeIn, Free
  <2>5. CallersType' /\ CallersOK' /\ cell' \in CellsType
    BY <1>1, <1>2, <2>1, <2>2 DEF IInv, TypeOK, CallersType, CallersOK, CellsType
  <2> QED BY <1>3, <2>3, <2>4, <2>5, CallerStep
<1> QED BY <1>4, <1>5

\* A copy-on-write guard is dropped.
LEMMA CowDoneStep ==
  ASSUME IInv, CowDone
  PROVE  IInv'
<1>1. /\ cow.st = "writing" /\ cell' = [cell EXCEPT ![cow.at].writer = FALSE]
      /\ tasks' = Woken(tasks, Notified(cell')) /\ scoop' = ScoopWoken(Notified(cell'))
      /\ cow' = [st |-> "done", at |-> None] /\ mutator' = mutator
      /\ due' = due \cup Readers(cow.at) /\ Evaluation /\ events' \in Nat
  BY EventsType DEF CowDone
<1>2. cow.at \in Cells /\ due' \subseteq Rows
  BY <1>1 DEF IInv, CallersOK, TypeOK, Readers
<1>3. /\ scoop' \in [st : {"done", "fetch", "parked"}, held : 0 .. Len(ScoopCells)]
      /\ scoop'.held = scoop.held /\ (scoop'.st = "done" <=> scoop.st = "done")
      /\ scoop'.st = "parked" => scoop.st = "parked"
  BY <1>1, CallersWoken DEF IInv
<1>4. cow'.st = "done" /\ cow'.at = None
  BY <1>1
<1>5. cell' \in CellsType => OnlyWoken /\ Blocked'
  BY <1>1, <1>2, <1>4, WakeStep
<1>6. /\ MutatorWrites(cow.at) + CowWrites(cow.at) >= 1
      /\ \A c \in Cells : MutatorWrites(c)' + CowWrites(c)' =
            MutatorWrites(c) + CowWrites(c) - (IF c = cow.at THEN 1 ELSE 0)
  BY <1>1, <1>4 DEF MutatorWrites, CowWrites
<1>7. cell' \in CellsType /\ Exact'
  BY <1>1, <1>2, <1>3, <1>5, <1>6, DropWriteExact DEF OnlyWoken
<1>8. CallersType' /\ CallersOK'
  BY <1>1, <1>3, <1>4 DEF IInv, TypeOK, CallersType, CallersOK
<1> QED BY <1>5, <1>7, <1>8, CallerStep

\* A scoop takes its next guard, parks, or drops them all.
LEMMA ScoopFetchStep ==
  ASSUME IInv, ScoopFetch
  PROVE  IInv'
<1> DEFINE h == scoop.held
           at == ScoopCells[h + 1]
<1>1. /\ scoop.st = "fetch" /\ h < Len(ScoopCells)
      /\ UNCHANGED <<tasks, due, cow, mutator, events>> /\ Evaluation
  BY DEF ScoopFetch
<1>2. ScoopCells \in Seq(Cells) /\ Len(ScoopCells) \in Nat
  BY DispatchAssumption
<1>3. h \in Nat /\ h + 1 \in 0 .. Len(ScoopCells) /\ at \in Cells /\ events' \in Nat
  BY <1>1, <1>2, EventsType DEF IInv, TypeOK
<1>4. OnlyWoken
  BY <1>1, <1>3, TasksAlone
<1>5. CASE Free(at, "Read")
  <2>1. cell' = Granted(at, "Read") /\ scoop' = [scoop EXCEPT !.held = @ + 1]
    BY <1>5 DEF ScoopFetch
  <2>2. scoop'.st = "fetch" /\ scoop'.held = h + 1
    BY <1>1, <2>1 DEF IInv, TypeOK
  <2>3. cell \in CellsType
    BY DEF IInv, TypeOK, CellsType
  <2> HIDE DEF at
  <2>4. /\ cell' \in CellsType /\ ~cell[at].writer
        /\ \A d \in Cells : d # at => cell'[d] = cell[d]
        /\ cell'[at].readers = cell[at].readers + 1 /\ ~cell'[at].writer
    BY <1>3, <1>5, <2>1, <2>3, GrantedBlocks
  <2>5. ASSUME NEW c \in Cells
        PROVE  ScoopReads(c)' = IF c = at THEN ScoopReads(c) + 1 ELSE ScoopReads(c)
    <3> DEFINE S == {n \in 1 .. h : ScoopCells[n] = c}
               T == {n \in 1 .. h + 1 : ScoopCells[n] = c}
    <3>1. ScoopReads(c) = Cardinality(S) /\ ScoopReads(c)' = Cardinality(T)
      BY <2>2 DEF ScoopReads
    <3>2. IsFiniteSet(S) /\ h + 1 \notin S
      <4>1. 1 \in Int /\ h \in Int
        BY <1>3
      <4>2. IsFiniteSet(1 .. h)
        BY <4>1, FS_Interval
      <4>3. S \in SUBSET (1 .. h)
        OBVIOUS
      <4>4. IsFiniteSet(S)
        BY <4>2, <4>3, FS_Subset
      <4>5. h + 1 \notin 1 .. h
        BY <1>3
      <4> QED BY <4>3, <4>4, <4>5
    <3>3. T = IF c = at THEN S \cup {h + 1} ELSE S
      <4>1. \A n : n \in 1 .. h + 1 <=> n \in 1 .. h \/ n = h + 1
        BY <1>3
      <4>2. \A n : n \in T <=> n \in S \/ (n = h + 1 /\ c = at)
        BY <4>1 DEF at
      <4> QED BY <4>2
    <3> HIDE DEF S, T
    <3> QED BY <3>1, <3>2, <3>3, FS_AddElement
  <2>6. Exact'
    <3> SUFFICES ASSUME NEW c \in Cells PROVE ExactAt(c)'
      BY DEF Exact
    <3> DEFINE gr == Cardinality(Guards(tasks, c, "Read"))
               s == ScoopReads(c)
               w == Cardinality(Guards(tasks, c, "Write")) + MutatorWrites(c) + CowWrites(c)
    <3>1. /\ gr \in Nat /\ s \in Nat /\ cell[c].readers = gr + s
          /\ w = IF cell[c].writer THEN 1 ELSE 0
          /\ cell[c].writer => cell[c].readers = 0
      BY CountsType DEF Counts, ExactAt
    <3>2. MutatorWrites(c)' = MutatorWrites(c) /\ CowWrites(c)' = CowWrites(c)
      BY <1>1 DEF MutatorWrites, CowWrites
    <3>3. ExactAt(c)' <=> /\ cell'[c].readers = gr + ScoopReads(c)'
                          /\ w = IF cell'[c].writer THEN 1 ELSE 0
                          /\ cell'[c].writer => cell'[c].readers = 0
      BY <1>1, <3>2 DEF ExactAt
    <3> HIDE DEF gr, w, s
    <3>4. CASE c = at
      <4>1. ScoopReads(c)' = s + 1
        BY <2>5, <3>4 DEF s
      <4>2. cell'[c].readers = gr + ScoopReads(c)'
        BY <2>4, <3>1, <3>4, <4>1
      <4> QED BY <2>4, <3>1, <3>3, <3>4, <4>2
    <3>5. CASE c # at
      <4>1. ScoopReads(c)' = s
        BY <2>5, <3>5 DEF s
      <4> QED BY <2>4, <3>1, <3>3, <3>5, <4>1
    <3> QED BY <3>4, <3>5
  <2>7. Blocked'
    BY <1>1, <1>3, <1>5, <2>1, <2>2, GrantStep
  <2>8. CallersType' /\ CallersOK'
    BY <1>1, <1>3, <2>1, <2>2 DEF IInv, TypeOK, CallersType, CallersOK
  <2> QED BY <1>4, <2>4, <2>6, <2>7, <2>8, CallerStep
<1>6. CASE ~Free(at, "Read")
  <2>1. cell' = cell /\ scoop' = [scoop EXCEPT !.st = "parked"]
    BY <1>6 DEF ScoopFetch
  <2>2. scoop'.st = "parked" /\ scoop'.held = h
    BY <2>1 DEF IInv, TypeOK
  <2>3. Exact'
    <3>1. \A d : ExactAt(d) => ExactAt(d)'
      BY <1>1, <2>1, <2>2 DEF ExactAt, ScoopReads, MutatorWrites, CowWrites
    <3> QED BY <3>1 DEF IInv, Exact
  <2>4. Blocked'
    BY <1>1, <1>6, <2>1, <2>2 DEF IInv, Blocked, ScoopBlocked, FreeIn, Free
  <2>5. CallersType' /\ CallersOK' /\ cell' \in CellsType
    BY <1>1, <1>3, <2>1, <2>2 DEF IInv, TypeOK, CallersType, CallersOK, CellsType
  <2> QED BY <1>4, <2>3, <2>4, <2>5, CallerStep
<1> QED BY <1>5, <1>6

\* A dropped result releases one reader per row that was collected.
LEMMA ScoopDropStep ==
  ASSUME IInv, ScoopDrop
  PROVE  IInv'
<1> DEFINE taken(c) == Cardinality({n \in DOMAIN ScoopCells : ScoopCells[n] = c})
<1>1. /\ scoop.st = "fetch" /\ scoop.held = Len(ScoopCells)
      /\ cell' = [c \in Cells |-> [cell[c] EXCEPT !.readers = @ - taken(c)]]
      /\ tasks' = Woken(tasks, Notified(cell')) /\ cow' = CowWoken(Notified(cell'))
      /\ scoop' = [st |-> "done", held |-> 0] /\ UNCHANGED <<due, mutator>>
      /\ Evaluation /\ events' \in Nat
  BY EventsType DEF ScoopDrop
<1>2. \A c : taken(c) = ScoopReads(c)
  <2>1. DOMAIN ScoopCells = 1 .. scoop.held
    BY <1>1, DispatchAssumption
  <2> QED BY <2>1 DEF ScoopReads
<1> HIDE DEF taken
<1>3. \A c : ScoopReads(c)' = 0
  <2>1. scoop'.held = 0
    BY <1>1
  <2>2. \A c : {n \in 1 .. 0 : ScoopCells[n] = c} = {}
    OBVIOUS
  <2> QED BY <2>1, <2>2, FS_EmptySet DEF ScoopReads
<1>4. ASSUME NEW c \in Cells
      PROVE  /\ cell'[c] \in [readers : Nat, writer : BOOLEAN]
             /\ cell'[c].readers = Cardinality(Guards(tasks, c, "Read"))
             /\ cell'[c].writer <=> cell[c].writer
  <2> DEFINE gr == Cardinality(Guards(tasks, c, "Read"))
  <2>1. gr \in Nat /\ ScoopReads(c) \in Nat /\ cell[c].readers = gr + ScoopReads(c)
    BY CountsType DEF Counts, ExactAt
  <2>2. cell[c] \in [readers : Nat, writer : BOOLEAN]
    BY DEF IInv, TypeOK
  <2> HIDE DEF gr
  <2>3. cell[c].readers - taken(c) = gr
    BY <1>2, <2>1
  <2>4. cell'[c] = [cell[c] EXCEPT !.readers = gr]
    BY <1>1, <2>3
  <2> QED BY <2>1, <2>2, <2>4 DEF gr
<1>5. cell' \in CellsType
  <2>1. cell' = [c \in Cells |-> cell'[c]]
    BY <1>1
  <2> QED BY <1>4, <2>1 DEF CellsType
<1>6. scoop'.st = "done" /\ scoop'.held = 0
  BY <1>1
<1>7. due' \subseteq Rows
  BY <1>1 DEF IInv, TypeOK
<1>8. OnlyWoken /\ Blocked'
  BY <1>1, <1>5, <1>6, <1>7, WakeStep
<1>9. /\ cow' \in [st : {"done", "locked", "parked", "writing"}, at : Cells \cup {None}]
      /\ cow'.at = cow.at /\ (cow'.st = "done" <=> cow.st = "done")
      /\ cow'.st = "writing" <=> cow.st = "writing"
  BY <1>1, CallersWoken DEF IInv
<1>10. Exact'
  <2> SUFFICES ASSUME NEW c \in Cells PROVE ExactAt(c)'
    BY DEF Exact
  <2> DEFINE gr == Cardinality(Guards(tasks, c, "Read"))
             w == Cardinality(Guards(tasks, c, "Write")) + MutatorWrites(c) + CowWrites(c)
  <2>1. /\ gr \in Nat /\ ScoopReads(c) \in Nat /\ cell[c].readers = gr + ScoopReads(c)
        /\ w = IF cell[c].writer THEN 1 ELSE 0
        /\ cell[c].writer => cell[c].readers = 0
    BY CountsType DEF Counts, ExactAt
  <2>2. MutatorWrites(c)' = MutatorWrites(c) /\ CowWrites(c)' = CowWrites(c)
    BY <1>1, <1>9 DEF MutatorWrites, CowWrites
  <2>3. \A kind : Guards(tasks', c, kind) = Guards(tasks, c, kind)
    BY <1>8, GuardsSame DEF OnlyWoken
  <2>4. ExactAt(c)' <=> /\ cell'[c].readers = gr + 0
                        /\ w = IF cell'[c].writer THEN 1 ELSE 0
                        /\ cell'[c].writer => cell'[c].readers = 0
    BY <1>3, <2>2, <2>3 DEF ExactAt
  <2>5. cell'[c].readers = gr /\ (cell'[c].writer <=> cell[c].writer)
    BY <1>4
  <2> HIDE DEF gr, w
  <2> QED BY <2>1, <2>4, <2>5
<1>11. CallersType' /\ CallersOK'
  <2>1. 0 \in 0 .. Len(ScoopCells)
    BY DispatchAssumption
  <2> QED BY <1>1, <1>6, <1>9, <2>1 DEF IInv, TypeOK, CallersType, CallersOK
<1> QED BY <1>5, <1>8, <1>10, <1>11, CallerStep

-----------------------------------------------------------------------------
(* The theorems *)

\* The invariant holds initially.
LEMMA InitIInv == Init => IInv
<1> SUFFICES ASSUME Init PROVE IInv
  OBVIOUS
<1>1. TypeOK
  <2>1. 0 \in 0 .. Len(ScoopCells)
    BY DispatchAssumption
  <2> QED BY <2>1 DEF Init, TypeOK, Unlocked
<1>2. CallersOK
  BY DEF Init, CallersOK
<1>3. \A k \in Slots : tasks[k] = None
  BY DEF Init
<1>4. TasksOK(tasks) /\ \A k \in Slots : ~Att(tasks, k) /\ Out(tasks, k) = {}
  BY <1>3 DEF TasksOK, Att, Out
<1>5. Exact
  <2> SUFFICES ASSUME NEW c \in Cells PROVE ExactAt(c)
    BY DEF Exact
  <2>1. \A kind : Guards(tasks, c, kind) = {}
    <3>1. \A g \in (Slots \X Rows) \X Positions : HeldBy(tasks, g[1][1], g[1][2]) = 0
      BY <1>3 DEF HeldBy
    <3>2. \A n \in Positions : n \in Nat /\ n > 0
      BY PositionsFinite
    <3>3. \A g \in (Slots \X Rows) \X Positions : ~(g[2] <= HeldBy(tasks, g[1][1], g[1][2]))
      BY <3>1, <3>2
    <3> QED BY <3>3 DEF Guards
  <2>2. ScoopReads(c) = 0
    <3>1. {n \in 1 .. scoop.held : ScoopCells[n] = c} = {}
      BY DEF Init
    <3> QED BY <3>1, FS_EmptySet DEF ScoopReads
  <2>3. MutatorWrites(c) = 0 /\ CowWrites(c) = 0
    BY DEF Init, MutatorWrites, CowWrites
  <2>4. cell[c].readers = 0 /\ ~cell[c].writer
    BY DEF Init, Unlocked
  <2> QED BY <2>1, <2>2, <2>3, <2>4, FS_EmptySet DEF ExactAt
<1>6. Blocked
  BY <1>3 DEF Init, Blocked, TasksBlocked, ScoopBlocked, CowBlocked, Parked
<1>7. Disjoint(tasks) /\ Backed(reserved, tasks)
  BY <1>4 DEF Init, Disjoint, Backed
<1>8. DirtyReserved /\ NoStreams
  BY <1>4 DEF Init, DirtyReserved, NoStreams
<1> QED BY <1>1, <1>2, <1>4, <1>5, <1>6, <1>7, <1>8 DEF IInv

\* Every step keeps the invariant.
LEMMA NextIInv == IInv /\ [Next]_vars => IInv'
<1> SUFFICES ASSUME IInv, [Next]_vars PROVE IInv'
  OBVIOUS
<1>1. CASE DriverNext
  <2>1. CASE Begin \/ OpenWindow \/ CloseWindow \/ Drained
    BY <2>1, PhaseStep
  <2>2. CASE Plan
    BY <2>2, PlanStep
  <2>3. CASE Preempt
    BY <2>3, PreemptStep
  <2>4. ASSUME NEW k \in Slots, Receive(k) PROVE IInv'
    BY <2>4, ReceiveStep
  <2>5. ASSUME NEW k \in Slots, Exhaust(k) PROVE IInv'
    BY <2>5, ExhaustStep
  <2>6. ASSUME NEW k \in Slots, Unwind(k) PROVE IInv'
    BY <2>6, AbandonStep, EventsType DEF Unwind
  <2> QED BY <1>1, <2>1, <2>2, <2>3, <2>4, <2>5, <2>6 DEF DriverNext
<1>2. CASE DropDriver
  BY <1>2, AbandonStep, EventsType DEF DropDriver, Event
<1>3. ASSUME NEW k \in Live, TaskNext(k) PROVE IInv'
  <2>0. k \in Slots
    BY DEF Live
  <2>1. ASSUME NEW r \in tasks[k].rows, PollRow(k, r) PROVE IInv'
    BY <2>0, <2>1, PollRowStep
  <2> QED BY <1>3, <2>0, <2>1, FetchStep, SuspendStep, PendStep, FinishStep, PanicStep,
             ReturnStep, ReapStep DEF TaskNext
<1>4. CASE CallerNext
  BY <1>4, RegisterStep, CowLockStep, TryWriteStep, WriteDoneStep, ScoopStep,
     ScoopFetchStep, ScoopDropStep, CowWriteStep, CowDoneStep DEF CallerNext
<1>5. CASE UNCHANGED vars
  <2>1. UNCHANGED <<parallel, cell, tasks, reserved, due, pc, dirty, mutator, scoop, cow, events>>
    BY <1>5 DEF vars
  <2>2. Exact' /\ Blocked' /\ TasksOK(tasks') /\ Disjoint(tasks') /\ Backed(reserved', tasks')
    BY <2>1, SameTasks DEF MutatorWrites
  <2>3. TypeOK' /\ CallersOK' /\ DirtyReserved' /\ NoStreams'
    BY <2>1 DEF IInv, TypeOK, CallersOK, DirtyReserved, NoStreams, Writes
  <2> QED BY <2>2, <2>3 DEF IInv
<1> QED BY <1>1, <1>2, <1>3, <1>4, <1>5 DEF Next

\* The inductive invariant holds of every behaviour, with its type invariant.
THEOREM Invariance == Spec => []IInv
<1>1. Init => IInv
  BY InitIInv
<1>2. IInv /\ [Next]_vars => IInv'
  BY NextIInv
<1> QED BY <1>1, <1>2, PTL DEF Spec

\* The lock words of every cell count the guards that exist and a writer is
\* alone, on whatever path guards are dropped (release_read, release_write).
THEOREM GuardsAreExact == Spec => []GuardsExact
<1>1. IInv => GuardsExact
  BY ExactIsGuardsExact DEF IInv
<1> QED BY <1>1, Invariance, PTL

\* A thread on the condvar of a cell waits for a guard that somebody has: no
\* notification of release_read and release_write is lost.
THEOREM ParkedAreBlocked == Spec => []ParkedIsBlocked
<1>1. IInv => ParkedIsBlocked
  BY BlockedIsParkedIsBlocked DEF IInv
<1> QED BY <1>1, Invariance, PTL

\* The reservations of run_phase_streaming are the rows whose result is still
\* to come, through preemption, panics and dropped drivers.
THEOREM ReservationsAreBacked == Spec => []ReservationsBacked
<1>1. IInv => ReservationsBacked
  BY BackedIsReservationsBacked DEF IInv
<1> QED BY <1>1, Invariance, PTL

\* No in-place write of the evaluation is unpublished where a mutator may
\* write or the bowl is idle.
THEOREM WritesArePublished == Spec => []WritesPublished
<1>1. IInv => WritesPublished
  <2> SUFFICES ASSUME IInv, pc \in {"idle", "window"}, NEW r \in dirty PROVE FALSE
    BY DEF WritesPublished
  <2>1. \A k \in Slots : Out(tasks, k) = {}
    BY DEF IInv, NoStreams, Out
  <2>2. r \in reserved
    BY DEF IInv, DirtyReserved
  <2> QED BY <2>1, <2>2 DEF IInv, Backed
<1> QED BY <1>1, Invariance, PTL

-----------------------------------------------------------------------------
(* No circle of waiting threads                                             *)

\* A task holds the guards of one row at a time: no two async rows get into one
\* batch, since batches have one row or an async system has one.
OneByOne ==
    \/ Maximum = 1
    \/ \A q, r \in Rows \ Sync : SystemOf[q] = SystemOf[r] => q = r

\* Every row, and every scoop, takes its cells in one order, in which it may
\* only read a cell again.
InOrder ==
    \E rank \in [Cells -> Nat] :
        /\ \A c, d \in Cells : rank[c] = rank[d] => c = d
        /\ \A r \in Rows : \A m, n \in DOMAIN Accesses[r] :
              LET a == Accesses[r][m]
                  b == Accesses[r][n]
              IN  m < n => \/ rank[a.cell] < rank[b.cell]
                           \/ a.cell = b.cell /\ a.kind = "Read" /\ b.kind = "Read"
        /\ \A m, n \in DOMAIN ScoopCells :
              m < n => rank[ScoopCells[m]] <= rank[ScoopCells[n]]

\* No task holds guards of two rows.
Lone(t) == \A q, r \in t.rows \ Sync : q = r
LoneTasks(ts) == \A k \in Slots : ts[k] # None => Lone(ts[k])

\* From ts to us tasks end, and none begins.
Fewer(ts, us) == \A k \in Slots : us[k] # None => ts[k] # None /\ us[k].rows = ts[k].rows

\* A task whose rows are fewer stays alone.
LEMMA FewerLone ==
  ASSUME NEW ts, NEW us, LoneTasks(ts), Fewer(ts, us)
  PROVE  LoneTasks(us)
BY DEF LoneTasks, Lone, Fewer

\* Waking threads up ends no task and begins none.
LEMMA WokenFewer ==
  ASSUME NEW ts \in [Slots -> Task \cup {None}], NEW awake
  PROVE  Fewer(ts, Woken(ts, awake))
BY WokenKeeps DEF Fewer

\* A batch size of one leaves no room for a larger grain.
LEMMA GrainOne ==
  ASSUME parallel \in BOOLEAN, Maximum = 1, NEW n \in Nat
  PROVE  Grain(n) = 1
<1> DEFINE d == Workers * BatchesPerWorker
           k == CeilDiv(n, d)
           m == Min({k, 1})
<1>1. Workers \in Nat \ {0} /\ BatchesPerWorker \in Nat \ {0}
  BY DispatchAssumption
<1>2. d \in Nat /\ d > 0
  BY <1>1
<1> HIDE DEF d
<1>3. k \in Int
  BY <1>2 DEF CeilDiv
<1> HIDE DEF k
<1>4. m \in {k, 1} /\ m <= 1
  <2>1. \E x \in {k, 1} : \A y \in {k, 1} : x <= y
    <3>1. CASE k <= 1
      BY <1>3, <3>1
    <3>2. CASE ~(k <= 1)
      <4>1. 1 <= k /\ 1 <= 1
        BY <1>3, <3>2
      <4> QED BY <4>1
    <3> QED BY <3>1, <3>2
  <2> QED BY <2>1 DEF Min
<1> HIDE DEF m
<1>5. m \in Int
  BY <1>3, <1>4
<1>6. Max({1, m}) = 1
  <2>1. \A x \in {1, m} : 1 >= x
    BY <1>4, <1>5
  <2>2. \A x \in {1, m} : (\A y \in {1, m} : x >= y) => x = 1
    BY <1>4, <1>5
  <2> QED BY <2>1, <2>2 DEF Max
<1> QED BY <1>6 DEF Grain, m, k, d

\* Rows of one system come one after the other, and with batches of one row each
\* gets a batch of its own.
LEMMA LoneBatches ==
  ASSUME OneByOne, parallel \in BOOLEAN, due \subseteq Rows,
         NEW A \in SUBSET Rows, NEW b \in Batches(A)
  PROVE  \A q, r \in b \ Sync : q = r
<1> SUFFICES ASSUME NEW q0 \in b \ Sync, NEW r0 \in b \ Sync, q0 # r0 PROVE FALSE
  OBVIOUS
<1>1. /\ q0 \in A /\ r0 \in A /\ BatchOf(A, q0) = BatchOf(A, r0)
  BY DEF Batches
<1>2. SystemOf[q0] = SystemOf[r0] /\ Writes(q0) = Writes(r0)
  BY <1>1 DEF BatchOf
<1>3. Maximum = 1
  BY <1>1, <1>2 DEF OneByOne
<1>4. Before(q0, r0) \/ Before(r0, q0)
  <2>1. PICK m \in DOMAIN Planned : Planned[m] = q0
    BY <1>1, DispatchAssumption
  <2>2. PICK n \in DOMAIN Planned : Planned[n] = r0
    BY <1>1, DispatchAssumption
  <2>3. m \in Int /\ n \in Int /\ m # n
    BY <2>1, <2>2, DispatchAssumption
  <2>4. m < n \/ n < m
    BY <2>3
  <2> QED BY <2>1, <2>2, <2>4 DEF Before
<1>5. PICK q \in {q0, r0}, r \in {q0, r0} : q # r /\ Before(q, r)
  BY <1>4
<1>6. /\ q \in A /\ r \in A /\ BatchOf(A, q) = BatchOf(A, r)
      /\ SystemOf[q] = SystemOf[r] /\ Writes(q) = Writes(r)
  BY <1>1, <1>2, <1>5
<1> DEFINE size == Grain(Cardinality({p \in due : SystemOf[p] = SystemOf[q]}))
           earlier(x) == {p \in A : /\ SystemOf[p] = SystemOf[x] /\ Writes(p) = Writes(x)
                                    /\ Before(p, x)}
<1>7. size = 1
  <2>1. IsFiniteSet({p \in due : SystemOf[p] = SystemOf[q]})
    BY DispatchAssumption, FS_Subset
  <2>2. Cardinality({p \in due : SystemOf[p] = SystemOf[q]}) \in Nat
    BY <2>1, FS_CardinalityType
  <2> QED BY <1>3, <2>2, GrainOne
<1>8. Cardinality(earlier(q)) \div size = Cardinality(earlier(r)) \div size
  BY <1>6 DEF BatchOf
<1>9. IsFiniteSet(earlier(q)) /\ IsFiniteSet(earlier(r))
  BY DispatchAssumption, FS_Subset
<1>10. Cardinality(earlier(q)) \in Nat /\ Cardinality(earlier(r)) \in Nat
  BY <1>9, FS_CardinalityType
<1>11. Cardinality(earlier(q)) = Cardinality(earlier(r))
  BY <1>7, <1>8, <1>10
<1>12. \A p : Before(p, q) => Before(p, r)
  <2> SUFFICES ASSUME NEW p, Before(p, q) PROVE Before(p, r)
    OBVIOUS
  <2>1. PICK m \in DOMAIN Planned, n \in DOMAIN Planned :
          m < n /\ Planned[m] = p /\ Planned[n] = q
    BY DEF Before
  <2>2. PICK i \in DOMAIN Planned, j \in DOMAIN Planned :
          i < j /\ Planned[i] = q /\ Planned[j] = r
    BY <1>5 DEF Before
  <2>3. n = i
    BY <2>1, <2>2, DispatchAssumption
  <2>4. DOMAIN Planned \subseteq Int
    BY DispatchAssumption
  <2>5. m < j
    BY <2>1, <2>2, <2>3, <2>4
  <2> QED BY <2>1, <2>2, <2>5 DEF Before
<1>13. ~Before(q, q)
  <2> SUFFICES ASSUME Before(q, q) PROVE FALSE
    OBVIOUS
  <2>1. PICK m \in DOMAIN Planned, n \in DOMAIN Planned :
          m < n /\ Planned[m] = q /\ Planned[n] = q
    BY DEF Before
  <2>2. m = n /\ m \in Int
    BY <2>1, DispatchAssumption
  <2> QED BY <2>1, <2>2
<1>14. earlier(q) \subseteq earlier(r) /\ q \in earlier(r) /\ q \notin earlier(q)
  BY <1>5, <1>6, <1>12, <1>13
<1> QED BY <1>9, <1>11, <1>14, FS_Subset, FS_CardinalityType

\* One task may end, or go on with the rows it has.
LEMMA OneFewer ==
  ASSUME NEW ts \in [Slots -> Task \cup {None}], NEW k \in Slots, NEW u \in Task \cup {None},
         u # None => ts[k] # None /\ u.rows = ts[k].rows
  PROVE  /\ [ts EXCEPT ![k] = u] \in [Slots -> Task \cup {None}]
         /\ Fewer(ts, [ts EXCEPT ![k] = u])
BY DEF Fewer

\* Dropped guards wake threads up.
LEMMA UnlockFewer ==
  ASSUME NEW ts \in [Slots -> Task \cup {None}], NEW after, Unlock(ts, after), Fewer(tasks, ts)
  PROVE  Fewer(tasks, tasks')
<1>1. tasks' = Woken(ts, Notified(after))
  BY DEF Unlock
<1>2. Fewer(ts, tasks')
  BY <1>1, WokenFewer
<1> QED BY <1>2 DEF Fewer

\* What a task does by itself leaves it its rows.
LEMMA TaskFewer ==
  ASSUME IInv, NEW k \in Slots, tasks[k] # None, TaskNext(k)
  PROVE  Fewer(tasks, tasks')
<1> DEFINE t == tasks[k]
<1>1. tasks \in [Slots -> Task \cup {None}]
  BY DEF IInv, TypeOK
<1>2. t \in Task /\ t # None /\ t.rows \subseteq Rows /\ t.held \in [Rows -> Nat]
  BY LiveTask
<1>3. ASSUME NEW u \in Task \cup {None}, u # None => u.rows = t.rows,
             tasks' = [tasks EXCEPT ![k] = u]
      PROVE  Fewer(tasks, tasks')
  BY <1>1, <1>2, <1>3, OneFewer
<1>4. ASSUME NEW u \in Task \cup {None}, u # None => u.rows = t.rows, NEW after,
             Unlock([tasks EXCEPT ![k] = u], after)
      PROVE  Fewer(tasks, tasks')
  BY <1>1, <1>2, <1>4, OneFewer, UnlockFewer
<1>5. ASSUME NEW r \in t.rows, PollRow(k, r) PROVE Fewer(tasks, tasks')
  <2> DEFINE u == [t EXCEPT !.run = "polling", !.cur = r,
                            !.st[r] = IF @ = "new"
                                      THEN IF FetchOrder(r) = <<>> THEN "body" ELSE "fetch"
                                      ELSE "resumed"]
  <2>1. tasks' = [tasks EXCEPT ![k] = u]
    BY <1>1, <1>5 DEF PollRow
  <2>2. u \in Task /\ u.rows = t.rows
    BY <1>2 DEF Task
  <2> HIDE DEF u
  <2> QED BY <1>3, <2>1, <2>2
<1>6. CASE Fetch(k)
  <2> DEFINE r == t.cur
             last == t.held[r] + 1 = Len(FetchOrder(r))
             a == NextAccess(t)
  <2>1. r \in Rows /\ t.st[r] = "fetch"
    BY <1>2, <1>6 DEF Fetch, Task
  <2>2. CASE ~Free(a.cell, a.kind)
    <3> DEFINE u == [t EXCEPT !.st = [t.st EXCEPT ![r] = "parked"]]
    <3>1. tasks' = [tasks EXCEPT ![k] = u]
      BY <1>6, <2>2 DEF Fetch
    <3> HIDE DEF a, r
    <3>2. u \in Task /\ u.rows = t.rows
      BY <1>2, <2>1 DEF Task
    <3> HIDE DEF u
    <3> QED BY <1>3, <3>1, <3>2
  <2>3. CASE Free(a.cell, a.kind)
    <3> DEFINE x == IF last THEN "body" ELSE t.st[r]
               h == [t.held EXCEPT ![r] = t.held[r] + 1]
               f == [t.st EXCEPT ![r] = x]
               u == [t EXCEPT !.held = h, !.st = f]
    <3>1. tasks' = [tasks EXCEPT ![k].held[r] = @ + 1, ![k].st[r] = IF last THEN "body" ELSE @]
      BY <1>6, <2>3 DEF Fetch
    <3>2. x \in {"body", "fetch"}
      BY <2>1
    <3> HIDE DEF last, a
    <3>3. tasks' = [tasks EXCEPT ![k] = u]
      BY <3>1
    <3> HIDE DEF x
    <3>4. h \in [Rows -> Nat]
      BY <1>2, <2>1
    <3>5. f \in [Rows -> {"new", "fetch", "parked", "body", "await", "resumed", "sent"}]
      BY <1>2, <2>1, <3>2 DEF Task
    <3> HIDE DEF h, f
    <3>6. u \in Task /\ u.rows = t.rows
      BY <1>2, <3>4, <3>5 DEF Task
    <3> HIDE DEF u
    <3> QED BY <1>3, <3>3, <3>6
  <2> QED BY <2>2, <2>3
<1>7. CASE Suspend(k)
  <2> DEFINE u == [t EXCEPT !.st[t.cur] = "await", !.cur = None]
  <2>1. t.cur \in Rows
    BY <1>2, <1>7 DEF Suspend, InBody, Task
  <2>2. tasks' = [tasks EXCEPT ![k] = u] /\ u \in Task /\ u.rows = t.rows
    BY <1>1, <1>2, <1>7, <2>1 DEF Suspend, Task
  <2> HIDE DEF u
  <2> QED BY <1>3, <2>2
<1>8. CASE Pend(k)
  <2> DEFINE u == [t EXCEPT !.run = "idle"]
  <2>1. tasks' = [tasks EXCEPT ![k] = u] /\ u \in Task /\ u.rows = t.rows
    BY <1>1, <1>2, <1>8 DEF Pend, Task
  <2> HIDE DEF u
  <2> QED BY <1>3, <2>1
<1>9. CASE Finish(k)
  <2> DEFINE r == t.cur
             sent == [t EXCEPT !.cur = None, !.held[r] = 0, !.st[r] = "sent"]
             all == \A q \in t.rows : sent.st[q] = "sent"
             run == IF all THEN "done" ELSE sent.run
             u1 == [sent EXCEPT !.chan = Append(sent.chan, r), !.run = run]
             u2 == [sent EXCEPT !.held = [q \in Rows |-> 0], !.run = "panicked"]
  <2>1. r \in Rows
    BY <1>2, <1>9 DEF Finish, InBody, Task
  <2>2. \/ Unlock([tasks EXCEPT ![k] = None], Released(RowsOf({k})))
        \/ Unlock([tasks EXCEPT ![k] = u1], Released({<<k, r>>}))
        \/ Unlock([tasks EXCEPT ![k] = u2], Released(RowsOf({k})))
    BY <1>9 DEF Finish
  <2>3. sent \in Task /\ sent.rows = t.rows
    BY <1>2, <2>1 DEF Task
  <2> HIDE DEF sent, all
  <2>4. Append(sent.chan, r) \in Seq(Rows)
    BY <2>1, <2>3 DEF Task
  <2>5. run \in {"idle", "polling", "done", "panicked"}
    BY <2>3 DEF Task
  <2> HIDE DEF run
  <2>6. u1 \in Task /\ u1.rows = t.rows
    BY <2>3, <2>4, <2>5 DEF Task
  <2>7. u2 \in Task /\ u2.rows = t.rows
    BY <2>3 DEF Task
  <2> HIDE DEF u1, u2
  <2> QED BY <1>4, <2>2, <2>6, <2>7
<1>10. CASE Panic(k)
  <2> DEFINE u == [t EXCEPT !.cur = None, !.run = "panicked", !.held = [r \in Rows |-> 0]]
  <2>1. \/ Unlock([tasks EXCEPT ![k] = u], Released(RowsOf({k})))
        \/ Unlock([tasks EXCEPT ![k] = None], Released(RowsOf({k})))
    BY <1>10 DEF Panic, Ended
  <2>2. u \in Task /\ u.rows = t.rows
    BY <1>2 DEF Task
  <2> HIDE DEF u
  <2> QED BY <1>4, <2>1, <2>2
<1>11. CASE Return(k)
  BY <1>3, <1>11 DEF Return
<1>12. CASE Reap(k)
  BY <1>4, <1>12 DEF Reap
<1> QED BY <1>5, <1>6, <1>7, <1>8, <1>9, <1>10, <1>11, <1>12 DEF TaskNext

\* Dropped streams leave tasks that go on with their rows, or none.
LEMMA DetachFewer ==
  ASSUME IInv, NEW K \in SUBSET Streams, NEW fate \in {"cancelled", "orphaned"}, Detach(K, fate)
  PROVE  Fewer(tasks, tasks')
<1> DEFINE over == {k \in K : ~parallel \/ tasks[k].run \in {"done", "panicked"}}
           u(k) == [tasks[k] EXCEPT !.fate = fate]
           ts == [k \in Slots |-> IF k \in over THEN None
                                  ELSE IF k \in K THEN u(k) ELSE tasks[k]]
<1>1. tasks \in [Slots -> Task \cup {None}]
  BY DEF IInv, TypeOK
<1>2. Unlock(ts, Released(RowsOf(over)))
  BY DEF Detach
<1>3. ASSUME NEW k \in K
      PROVE  k \in Slots /\ tasks[k] # None /\ u(k) \in Task /\ u(k).rows = tasks[k].rows
  <2>1. k \in Slots /\ tasks[k] # None
    BY DEF Streams, Attached
  <2>2. tasks[k] \in Task
    BY <2>1, LiveTask
  <2> QED BY <2>1, <2>2 DEF Task
<1>4. \A k \in Slots : ts[k] = IF k \in over THEN None ELSE IF k \in K THEN u(k) ELSE tasks[k]
  OBVIOUS
<1> HIDE DEF u, over
<1>5. ts \in [Slots -> Task \cup {None}]
  BY <1>1, <1>3
<1> HIDE DEF ts
<1>6. Fewer(tasks, ts)
  BY <1>1, <1>3, <1>4 DEF Fewer
<1> QED BY <1>2, <1>5, <1>6, UnlockFewer

\* A planning pass begins one task for each batch.
LEMMA PlanLone ==
  ASSUME OneByOne, IInv, LoneTasks(tasks), Plan
  PROVE  LoneTasks(tasks')
<1>1. PICK A \in SUBSET (due \ reserved) :
        \E B \in {Batches(A)} :
            \E slot \in {CHOOSE f \in Injection(B, Slots \ Live) : TRUE} :
                tasks' = [k \in Slots |-> IF \E b \in B : slot[b] = k
                                          THEN Spawned(CHOOSE b \in B : slot[b] = k)
                                          ELSE tasks[k]]
  BY DEF Plan
<1>2. PICK slot : tasks' = [k \in Slots |-> IF \E b \in Batches(A) : slot[b] = k
                                            THEN Spawned(CHOOSE b \in Batches(A) : slot[b] = k)
                                            ELSE tasks[k]]
  BY <1>1
<1>3. due \subseteq Rows /\ parallel \in BOOLEAN /\ A \in SUBSET Rows
  BY DEF IInv, TypeOK
<1>4. \A b \in Batches(A) : Lone(Spawned(b))
  <2>1. \A b \in Batches(A) : \A q, r \in b \ Sync : q = r
    BY <1>3, LoneBatches
  <2>2. \A b : Spawned(b).rows = b
    BY DEF Spawned
  <2> QED BY <2>1, <2>2 DEF Lone
<1>5. ASSUME NEW k \in Slots
      PROVE  \/ \E b \in Batches(A) : tasks'[k] = Spawned(b)
             \/ tasks'[k] = tasks[k]
  <2>1. CASE \E b \in Batches(A) : slot[b] = k
    <3>1. (CHOOSE b \in Batches(A) : slot[b] = k) \in Batches(A)
      BY <2>1
    <3> QED BY <1>2, <2>1, <3>1
  <2> QED BY <1>2, <2>1
<1> QED BY <1>4, <1>5 DEF LoneTasks

\* Every step leaves each task with one asynchronous row at most.
LEMMA LoneStep ==
  ASSUME OneByOne, IInv, LoneTasks(tasks), [Next]_vars
  PROVE  LoneTasks(tasks')
<1>1. tasks \in [Slots -> Task \cup {None}]
  BY DEF IInv, TypeOK
<1>2. Fewer(tasks, tasks)
  BY DEF Fewer
<1>3. SUFFICES ASSUME ~Plan PROVE Fewer(tasks, tasks')
  BY PlanLone, FewerLone
<1>4. ASSUME UNCHANGED tasks PROVE Fewer(tasks, tasks')
  BY <1>2, <1>4
<1>5. ASSUME NEW awake, tasks' = Woken(tasks, awake) PROVE Fewer(tasks, tasks')
  BY <1>1, <1>5, WokenFewer
<1>6. Streams \in SUBSET Streams /\ Cancelled \in SUBSET Streams
  BY DEF Cancelled
<1>7. CASE DriverNext
  <2>1. CASE Begin \/ OpenWindow \/ CloseWindow \/ Drained
    BY <1>4, <2>1 DEF Begin, OpenWindow, CloseWindow, Drained
  <2>2. CASE Preempt
    BY <1>6, <2>2, DetachFewer DEF Preempt
  <2>3. ASSUME NEW k \in Slots, Receive(k) PROVE Fewer(tasks, tasks')
    <3> DEFINE u == [tasks[k] EXCEPT !.chan = Tail(@)]
    <3>1. /\ tasks[k] # None /\ tasks[k].chan # <<>>
          /\ tasks' = [tasks EXCEPT ![k] = u]
      BY <1>1, <2>3 DEF Receive, Attached
    <3>2. tasks[k] \in Task /\ tasks[k].chan \in Seq(Rows)
      BY <3>1, LiveTask
    <3>3. Tail(tasks[k].chan) \in Seq(Rows)
      BY <3>1, <3>2
    <3>4. u \in Task /\ u.rows = tasks[k].rows
      BY <3>2, <3>3 DEF Task
    <3> HIDE DEF u
    <3> QED BY <1>1, <3>1, <3>4, OneFewer
  <2>4. ASSUME NEW k \in Slots, Exhaust(k) PROVE Fewer(tasks, tasks')
    BY <1>1, <2>4, OneFewer DEF Exhaust
  <2>5. ASSUME NEW k \in Slots, Unwind(k) PROVE Fewer(tasks, tasks')
    BY <1>6, <2>5, DetachFewer DEF Unwind, Abandon
  <2> QED BY <1>3, <1>7, <2>1, <2>2, <2>3, <2>4, <2>5 DEF DriverNext
<1>8. CASE DropDriver
  BY <1>6, <1>8, DetachFewer DEF DropDriver, Abandon
<1>9. ASSUME NEW k \in Live, TaskNext(k) PROVE Fewer(tasks, tasks')
  BY <1>9, TaskFewer DEF Live
<1>10. CASE CallerNext
  <2>1. CASE \/ \E c \in MutatorCells : Register(c)
             \/ \E c \in CowCells : CowLock(c)
             \/ TryWrite \/ Scoop \/ ScoopFetch \/ CowWrite
    BY <1>4, <2>1 DEF Register, CowLock, TryWrite, Scoop, ScoopFetch, CowWrite
  <2>2. CASE WriteDone \/ ScoopDrop \/ CowDone
    BY <1>5, <2>2 DEF WriteDone, ScoopDrop, CowDone, Unlock
  <2> QED BY <1>10, <2>1, <2>2 DEF CallerNext
<1>11. CASE UNCHANGED vars
  BY <1>4, <1>11 DEF vars
<1> QED BY <1>7, <1>8, <1>9, <1>10, <1>11 DEF Next
\* Of finitely many threads one has the highest rank.
LEMMA Highest ==
  ASSUME NEW M \in Nat, NEW S \in SUBSET (0 .. M), S # {}, NEW f \in [S -> Nat]
  PROVE  \E x \in S : \A y \in S : f[y] <= f[x]
<1> DEFINE Upto(n) == {x \in S : x <= n}
           Top(n) == \E x \in Upto(n) : \A y \in Upto(n) : f[y] <= f[x]
           Bad == {n \in Nat : Upto(n) # {} /\ ~Top(n)}
           Less == OpToRel(<, Nat)
<1>1. \A m, n \in Nat : <<m, n>> \in Less <=> m < n
  BY DEF OpToRel
<1>2. IsWellFoundedOn(Less, Nat)
  BY NatLessThanWellFounded, Zenon
<1> HIDE DEF Less
<1>3. Bad = {}
  <2> SUFFICES ASSUME Bad # {} PROVE FALSE
    OBVIOUS
  <2>1. PICK n \in Bad : \A m \in Bad : ~(<<m, n>> \in Less)
    BY <1>2, WFMin
  <2>2. n \in Nat /\ Upto(n) # {} /\ ~Top(n)
    OBVIOUS
  <2>3. n - 1 \in Nat => Upto(n - 1) = {} \/ Top(n - 1)
    <3> SUFFICES ASSUME n - 1 \in Nat PROVE Upto(n - 1) = {} \/ Top(n - 1)
      OBVIOUS
    <3> DEFINE m == n - 1
    <3>1. <<m, n>> \in Less
      BY <1>1, <2>2
    <3> HIDE DEF Bad, m
    <3>2. m \notin Bad
      BY <2>1, <3>1
    <3> USE DEF Bad, m
    <3> HIDE DEF Upto, Top
    <3> QED BY <3>2
  <2>4. \A x \in Upto(n) : x = n \/ (n - 1 \in Nat /\ x \in Upto(n - 1))
    BY <2>2
  <2>5. n - 1 \in Nat => Upto(n - 1) \subseteq Upto(n)
    <3>1. \A x \in S : x \in Nat
      OBVIOUS
    <3>2. \A x \in S : x <= n - 1 => x <= n
      BY <2>2, <3>1
    <3> QED BY <3>2
  <2>6. \A x \in S : f[x] \in Nat
    OBVIOUS
  <2>7. n \in S
    <3> SUFFICES ASSUME n \notin S PROVE FALSE
      OBVIOUS
    <3>1. n - 1 \in Nat /\ Upto(n) = Upto(n - 1)
      BY <2>2, <2>4, <2>5
    <3> QED BY <2>2, <2>3, <3>1
  <2>8. n \in Upto(n) /\ \A x \in Upto(n) : f[x] \in Nat
    BY <2>2, <2>6, <2>7
  <2>9. CASE n - 1 \in Nat /\ Upto(n - 1) # {}
    <3>1. PICK x \in Upto(n - 1) : \A y \in Upto(n - 1) : f[y] <= f[x]
      BY <2>3, <2>9
    <3>2. x \in Upto(n)
      BY <2>5, <2>9, <3>1
    <3> HIDE DEF Upto
    <3>3. CASE f[n] <= f[x]
      BY <2>2, <2>4, <3>1, <3>2, <3>3
    <3>4. CASE ~(f[n] <= f[x])
      <4>1. \A y \in Upto(n) : f[y] <= f[n]
        <5> SUFFICES ASSUME NEW y \in Upto(n) PROVE f[y] <= f[n]
          OBVIOUS
        <5>1. y = n \/ f[y] <= f[x]
          BY <2>4, <3>1
        <5> QED BY <2>8, <3>2, <3>4, <5>1
      <4> QED BY <2>2, <2>8, <4>1
    <3> QED BY <3>3, <3>4
  <2>10. CASE ~(n - 1 \in Nat /\ Upto(n - 1) # {})
    <3>1. \A y \in Upto(n) : y = n
      BY <2>4, <2>10
    <3> HIDE DEF Upto
    <3>2. \A y \in Upto(n) : f[y] <= f[n]
      BY <2>8, <3>1
    <3> QED BY <2>2, <2>8, <3>2
  <2> QED BY <2>9, <2>10
<1>4. \A x \in S : x <= M
  OBVIOUS
<1>5. Upto(M) = S
  BY <1>4
<1> HIDE DEF Upto
<1> QED BY <1>3, <1>5
\* The guards of a lone task are those of the row it is busy with.
LEMMA HeldByCurrent ==
  ASSUME IInv, LoneTasks(tasks), NEW k \in Slots, Parked(tasks[k]),
         NEW c \in Cells, NEW kind \in Kinds, Held(RowsOf({k}), c, kind) # {}
  PROVE  LET t == tasks[k]
         IN  \E n \in DOMAIN Accesses[t.cur] :
                n <= t.held[t.cur] /\ Accesses[t.cur][n] = [cell |-> c, kind |-> kind]
<1> DEFINE t == tasks[k]
<1>1. PICK g \in RowsOf({k}) \X Positions :
        /\ g[2] <= tasks[g[1][1]].held[g[1][2]]
        /\ FetchOrder(g[1][2])[g[2]] = [cell |-> c, kind |-> kind]
  BY DEF Held
<1>2. PICK r \in Rows, n \in Positions : g = <<<<k, r>>, n>>
  BY DEF RowsOf
<1>3. n <= t.held[r] /\ Accesses[r][n] = [cell |-> c, kind |-> kind]
  BY <1>1, <1>2 DEF FetchOrder
<1>4. t # None /\ t.cur # None /\ t.st[t.cur] = "parked"
  BY DEF Parked
<1>5. /\ TaskOK(t) /\ t.held \in [Rows -> Nat] /\ t.cur \in Rows
      /\ Lone(t)
  BY <1>4, LiveTask DEF LoneTasks
<1>6. n \in Nat /\ n > 0
  BY PositionsFinite
<1>7. t.held[r] # 0 /\ t.held[r] <= Len(Accesses[r]) /\ t.held[r] \in Nat
  BY <1>3, <1>5, <1>6 DEF TaskOK, RowsOK
<1>8. r \in t.rows /\ (r \in Sync => r = t.cur) /\ t.cur \in t.rows
  BY <1>4, <1>5, <1>7 DEF TaskOK, RowsOK
<1>9. r \in Sync <=> t.cur \in Sync
  BY <1>5, <1>8 DEF TaskOK, BatchOK
<1>10. r = t.cur
  BY <1>5, <1>8, <1>9 DEF Lone
<1>11. n \in DOMAIN Accesses[r]
  BY <1>3, <1>6, <1>7, AccessesType
<1> QED BY <1>3, <1>10, <1>11
\* Nobody reads a cell that has a writer.
LEMMA WriterAlone ==
  ASSUME IInv, NEW c \in Cells, cell[c].writer
  PROVE  /\ \A k \in Live : Held(RowsOf({k}), c, "Read") = {}
         /\ \A n \in 1 .. scoop.held : ScoopCells[n] # c
<1>1. ExactAt(c)
  BY DEF IInv, Exact
<1>2. Cardinality(Guards(tasks, c, "Read")) \in Nat /\ IsFiniteSet(Guards(tasks, c, "Read"))
  BY GuardsFinite
<1>3. ScoopReads(c) \in Nat
  BY ScoopReadsType DEF IInv
<1>4. Cardinality(Guards(tasks, c, "Read")) = 0 /\ ScoopReads(c) = 0
  BY <1>1, <1>2, <1>3 DEF ExactAt
<1>5. Held(RowsOf(Live), c, "Read") = {}
  <2>1. Guards(tasks, c, "Read") = {}
    BY <1>2, <1>4, FS_EmptySet
  <2>2. RowsOf(Live) \in SUBSET (Live \X Rows)
    BY DEF RowsOf
  <2> QED BY <2>1, <2>2, HeldIsGuards
<1>6. \A k \in Live : Held(RowsOf({k}), c, "Read") \subseteq Held(RowsOf(Live), c, "Read")
  BY DEF Held, RowsOf
<1>7. {n \in 1 .. scoop.held : ScoopCells[n] = c} = {}
  <2>1. scoop.held \in Nat
    BY DispatchAssumption DEF IInv, TypeOK
  <2>2. IsFiniteSet({n \in 1 .. scoop.held : ScoopCells[n] = c})
    <3>1. {n \in 1 .. scoop.held : ScoopCells[n] = c} \in SUBSET (1 .. scoop.held)
      OBVIOUS
    <3>2. IsFiniteSet(1 .. scoop.held)
      BY <2>1, FS_Interval
    <3> QED BY <3>1, <3>2, FS_Subset
  <2> QED BY <1>4, <2>2, FS_EmptySet DEF ScoopReads
<1> QED BY <1>5, <1>6, <1>7

\* The cell a parked thread waits for.
LEMMA WaitsOnType ==
  ASSUME IInv, NEW x \in Waiting
  PROVE  /\ x \in 0 .. MaxTasks + 1 /\ WaitsOn(x) \in Cells
         /\ x \in Slots => Parked(tasks[x]) /\ WaitsOn(x) = NextAccess(tasks[x]).cell
         /\ x = ScoopThread => /\ scoop.st = "parked" /\ scoop.held + 1 \in DOMAIN ScoopCells
                               /\ scoop.held \in Nat
                               /\ WaitsOn(x) = ScoopCells[scoop.held + 1]
         /\ x = CowThread => cow.st = "parked"
         /\ x \in Slots \/ x = ScoopThread \/ x = CowThread
<1>1. MaxTasks \in Nat
  BY DispatchAssumption
<1>2. ScoopThread \notin Slots /\ CowThread \notin Slots /\ ScoopThread # CowThread
  BY <1>1 DEF ScoopThread, CowThread, Slots
<1>3. ScoopCells \in Seq(Cells) /\ Len(ScoopCells) \in Nat
  BY DispatchAssumption
<1>4. CASE x \in Slots
  <2>1. Parked(tasks[x])
    BY <1>2, <1>4 DEF Waiting
  <2>2. tasks[x] # None
    BY <2>1 DEF Parked
  <2>3. NextAccess(tasks[x]).cell \in Cells
    BY <1>4, <2>1, <2>2, LiveTask, NextAccessType DEF TaskOK, Parked
  <2>4. WaitsOn(x) = NextAccess(tasks[x]).cell
    BY <1>2, <1>4 DEF WaitsOn
  <2>5. x \in 0 .. MaxTasks + 1
    BY <1>1, <1>4 DEF Slots
  <2> QED BY <1>2, <1>4, <2>1, <2>3, <2>4, <2>5
<1>5. CASE x = ScoopThread
  <2>1. scoop.st = "parked"
    BY <1>2, <1>5 DEF Waiting
  <2>2. scoop.held \in Nat /\ scoop.held < Len(ScoopCells)
    BY <1>3, <2>1 DEF IInv, TypeOK, CallersOK
  <2>3. scoop.held + 1 \in DOMAIN ScoopCells /\ ScoopCells[scoop.held + 1] \in Cells
    BY <1>3, <2>2
  <2>4. x \in 0 .. MaxTasks + 1
    BY <1>1, <1>5 DEF ScoopThread
  <2> QED BY <1>2, <1>5, <2>1, <2>2, <2>3, <2>4 DEF WaitsOn
<1>6. CASE x = CowThread
  <2>1. cow.st = "parked"
    BY <1>2, <1>6 DEF Waiting
  <2>2. cow.at \in Cells
    BY <2>1 DEF IInv, CallersOK
  <2>3. x \in 0 .. MaxTasks + 1
    BY <1>1, <1>6 DEF CowThread
  <2> QED BY <1>2, <1>6, <2>1, <2>2, <2>3 DEF WaitsOn
<1> QED BY <1>4, <1>5, <1>6 DEF Waiting

\* A thread that holds what another waits for waits further up in the order.
LEMMA Upwards ==
  ASSUME IInv, LoneTasks(tasks), NEW rank \in [Cells -> Nat],
         \A c, d \in Cells : rank[c] = rank[d] => c = d,
         \A r \in Rows : \A m, n \in DOMAIN Accesses[r] :
            LET a == Accesses[r][m]
                b == Accesses[r][n]
            IN  m < n => \/ rank[a.cell] < rank[b.cell]
                         \/ a.cell = b.cell /\ a.kind = "Read" /\ b.kind = "Read",
         \A m, n \in DOMAIN ScoopCells : m < n => rank[ScoopCells[m]] <= rank[ScoopCells[n]],
         NEW c \in Cells, NEW y \in Waiting, Holds(y, c)
  PROVE  rank[c] < rank[WaitsOn(y)]
<1> DEFINE d == WaitsOn(y)
<1>1. d \in Cells /\ rank[c] \in Nat /\ rank[d] \in Nat
  BY WaitsOnType
<1>2. ParkedIsBlocked
  BY BlockedIsParkedIsBlocked DEF IInv
<1>3. ScoopThread \notin Slots /\ CowThread \notin Slots /\ ScoopThread # CowThread
  BY DispatchAssumption DEF ScoopThread, CowThread, Slots
<1>4. CASE y = CowThread
  BY <1>3, <1>4, WaitsOnType DEF Holds
<1>5. CASE y = ScoopThread
  <2>1. /\ scoop.st = "parked" /\ scoop.held + 1 \in DOMAIN ScoopCells
        /\ scoop.held \in Nat /\ d = ScoopCells[scoop.held + 1]
    BY <1>5, WaitsOnType
  <2>2. PICK n \in 1 .. scoop.held : ScoopCells[n] = c
    BY <1>3, <1>5 DEF Holds
  <2>3. n \in DOMAIN ScoopCells /\ n < scoop.held + 1
    <3>1. ScoopCells \in Seq(Cells)
      BY DispatchAssumption
    <3> QED BY <2>1, <3>1
  <2>4. rank[c] <= rank[d]
    BY <2>1, <2>2, <2>3
  <2>5. c # d
    <3> SUFFICES ASSUME c = d PROVE FALSE
      OBVIOUS
    <3>1. ~Free(c, "Read")
      BY <1>2, <2>1 DEF ParkedIsBlocked
    <3>2. cell[c].writer
      BY <3>1 DEF Free
    <3> QED BY <2>2, <3>2, WriterAlone
  <2> QED BY <1>1, <2>4, <2>5
<1>6. CASE y \in Slots
  <2> DEFINE t == tasks[y]
             a == NextAccess(t)
  <2>1. Parked(t) /\ d = a.cell
    BY <1>6, WaitsOnType
  <2>2. PICK kind \in Kinds : Held(RowsOf({y}), c, kind) # {}
    BY <1>3, <1>6 DEF Holds
  <2>3. PICK n \in DOMAIN Accesses[t.cur] :
            n <= t.held[t.cur] /\ Accesses[t.cur][n] = [cell |-> c, kind |-> kind]
    BY <1>6, <2>1, <2>2, HeldByCurrent
  <2>4. t # None /\ t.cur # None /\ t.st[t.cur] = "parked"
    BY <2>1 DEF Parked
  <2>5. t \in Task /\ RowsOK(t)
    BY <1>6, <2>4, LiveTask DEF TaskOK
  <2>6. /\ t.cur \in Rows /\ t.held[t.cur] + 1 \in DOMAIN Accesses[t.cur]
        /\ a = Accesses[t.cur][t.held[t.cur] + 1]
    BY <2>4, <2>5, NextAccessType
  <2>7. n < t.held[t.cur] + 1
    <3>1. t.held[t.cur] \in Nat
      BY <2>5, <2>6 DEF Task
    <3>2. n \in Nat
      BY <2>6, AccessesType
    <3> QED BY <2>3, <3>1, <3>2
  <2> HIDE DEF t, a, d
  <2>8. rank[c] < rank[a.cell] \/ (c = a.cell /\ kind = "Read" /\ a.kind = "Read")
    BY <2>3, <2>6, <2>7
  <2>9. ~(c = a.cell /\ kind = "Read" /\ a.kind = "Read")
    <3> SUFFICES ASSUME c = a.cell, kind = "Read", a.kind = "Read" PROVE FALSE
      OBVIOUS
    <3>1. ~Free(c, "Read")
      BY <1>2, <1>6, <2>1 DEF ParkedIsBlocked, t, a
    <3>2. cell[c].writer
      BY <3>1 DEF Free
    <3>3. y \in Live
      BY <1>6, <2>4 DEF Live, t
    <3> QED BY <2>2, <3>2, <3>3, WriterAlone
  <2> QED BY <2>1, <2>8, <2>9 DEF d
<1> QED BY <1>4, <1>5, <1>6, WaitsOnType

\* The thread that waits highest up waits for none of the others.
LEMMA NoCircle ==
  ASSUME IInv, LoneTasks(tasks), InOrder
  PROVE  NoWaitCycle
<1> SUFFICES ASSUME NEW S \in SUBSET Waiting, S # {}
             PROVE  \E x \in S : \A y \in S : ~Holds(y, WaitsOn(x))
  BY DEF NoWaitCycle
<1>1. PICK rank \in [Cells -> Nat] :
        /\ \A c, d \in Cells : rank[c] = rank[d] => c = d
        /\ \A r \in Rows : \A m, n \in DOMAIN Accesses[r] :
              LET a == Accesses[r][m]
                  b == Accesses[r][n]
              IN  m < n => \/ rank[a.cell] < rank[b.cell]
                           \/ a.cell = b.cell /\ a.kind = "Read" /\ b.kind = "Read"
        /\ \A m, n \in DOMAIN ScoopCells :
              m < n => rank[ScoopCells[m]] <= rank[ScoopCells[n]]
  BY DEF InOrder
<1>2. \A x \in S : x \in 0 .. MaxTasks + 1 /\ WaitsOn(x) \in Cells
  BY WaitsOnType
<1> DEFINE f == [x \in S |-> rank[WaitsOn(x)]]
<1>3. f \in [S -> Nat]
  BY <1>2
<1>4. \A x \in S : f[x] = rank[WaitsOn(x)]
  OBVIOUS
<1>5. MaxTasks + 1 \in Nat /\ S \in SUBSET (0 .. MaxTasks + 1)
  BY <1>2, DispatchAssumption
<1> HIDE DEF f
<1>6. PICK x \in S : \A y \in S : f[y] <= f[x]
  BY <1>3, <1>5, Highest
<1>7. \A y \in S : ~Holds(y, WaitsOn(x))
  <2> SUFFICES ASSUME NEW y \in S, Holds(y, WaitsOn(x)) PROVE FALSE
    OBVIOUS
  <2>1. rank[WaitsOn(x)] < rank[WaitsOn(y)]
    BY <1>1, <1>2, Upwards
  <2>2. f[x] \in Nat /\ f[y] \in Nat
    BY <1>3
  <2> QED BY <1>4, <1>6, <2>1, <2>2
<1> QED BY <1>7

\* Threads never wait in a circle where a task holds the guards of one
\* asynchronous row at most and everybody takes the cells in one order: the
\* condvar waits of ComponentCell::read and write then always come to an end of
\* the chain.
THEOREM NobodyWaitsInACircle ==
  ASSUME OneByOne, InOrder
  PROVE  Spec => []NoWaitCycle
<1> DEFINE LInv == IInv /\ LoneTasks(tasks)
<1>1. Init => LInv
  BY InitIInv DEF Init, LoneTasks
<1>2. LInv /\ [Next]_vars => LInv'
  BY NextIInv, LoneStep
<1>3. LInv => NoWaitCycle
  BY NoCircle
<1> QED BY <1>1, <1>2, <1>3, PTL DEF Spec
=============================================================================
