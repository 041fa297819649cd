---------------------------- MODULE Reservations ----------------------------
(***************************************************************************)
(* The reservations of one evaluator phase (crates/bowl/src/access.rs) and *)
(* the driver that fills and empties them (run_phase_streaming in bowl.rs, *)
(* dispatch_rows in dispatch/plan.rs).                                     *)
(*                                                                         *)
(* Admission does not compare accesses pairwise: it looks at counters per  *)
(* component and per row, and completions are matched by RunId, a slot     *)
(* number with a generation.  Slots are counted from 1; slot 0 is no run.  *)
(***************************************************************************)
EXTENDS Integers, Sequences, FiniteSets

CONSTANTS
    Owners,             \* SystemInvocations the phase can plan
    Components, Entities, Whole,
    NoOwner,            \* a slot without a record
    Requests,           \* the access lists the planner can ask for
    MaxSlots,           \* execution slot space (u32)
    MaxGeneration       \* the last generation of a slot (u32)

VARIABLES
    owners,             \* Reservations::owners
    slots, used, free,  \* Records: the slots, how many exist, the free stack
    total,              \* ComponentAccess::total
    reserved,           \* ComponentAccess::whole_store and ::rows
    readRuns, writeRuns,\* the two dispatch queues
    mode,               \* where the driver is in run_phase_streaming
    retired             \* history: the RunIds released in this phase

vars == <<owners, slots, used, free, total, reserved, readRuns, writeRuns, mode, retired>>

SlotIds == 1..MaxSlots
RunId == [slot : 0..MaxSlots, generation : 0..MaxGeneration]
NoRun == [slot |-> 0, generation |-> 0]

\* The promise: the invocations in flight, and what they hold.
Holding == {o \in Owners : owners[o] # NoRun}
AccessesOf(s) == {slots[s].accesses[i] : i \in DOMAIN slots[s].accesses}
Held == [o \in Owners |-> IF o \in Holding THEN AccessesOf(owners[o].slot) ELSE {}]

RL == INSTANCE RowLocks WITH active <- Holding, locks <- Held

Kinds == RL!Kinds
Access == RL!Access

ASSUME SlotsAssumption ==
    /\ MaxSlots \in Nat /\ MaxGeneration \in Nat
    /\ NoOwner \notin Owners
    /\ Whole \notin Entities
ASSUME RequestsAssumption == Requests \subseteq Seq(Access)

FreshSlot == [generation |-> 0, owner |-> NoOwner, accesses |-> <<>>]

\* A slot with a record.
Live == {s \in SlotIds : slots[s].owner # NoOwner}

\* The id a slot's current record was given.
IdOf(s) == [slot |-> s, generation |-> slots[s].generation]

\* Records::get
Contains(id) == id.slot \in Live /\ id.generation = slots[id.slot].generation

\* Record::writer
Writes(accs) == \E i \in DOMAIN accs : accs[i].kind = "Write"

-----------------------------------------------------------------------------
(* ComponentAccess                                                         *)

\* How many entries of an access list are in a set of accesses.
Count(accs, P) == Cardinality({i \in DOMAIN accs : accs[i] \in P})

\* Mutant: a read only looks at the readers.
CountsConflictSameKind(readers, writers, kind) ==
    IF kind = "Read" THEN FALSE ELSE readers # 0 \/ writers # 0

\* Counts::conflicts
CountsConflict(readers, writers, kind) ==
    IF kind = "Read" THEN writers # 0 ELSE readers # 0 \/ writers # 0

Row(c, e, k) == [component |-> c, entity |-> e, kind |-> k]

RowConflicts(c, e, kind) ==
    CountsConflict(reserved[Row(c, e, "Read")], reserved[Row(c, e, "Write")], kind)

\* Mutant: a whole-store access does not look at the rows.
ConflictsWholeOnly(a) ==
    RowConflicts(a.component, Whole, a.kind) \/ RowConflicts(a.component, a.entity, a.kind)

\* ComponentAccess::conflicts
Conflicts(a) ==
    IF a.entity = Whole
    THEN CountsConflict(total[a.component]["Read"], total[a.component]["Write"], a.kind)
    ELSE \/ RowConflicts(a.component, Whole, a.kind)
         \/ RowConflicts(a.component, a.entity, a.kind)

OfKind(c, k) == {a \in Access : a.component = c /\ a.kind = k}

\* ComponentAccess::add for every access of a record.
AddAll(accs) ==
    /\ total' = [c \in Components |-> [k \in Kinds |-> total[c][k] + Count(accs, OfKind(c, k))]]
    /\ reserved' = [a \in Access |-> reserved[a] + Count(accs, {a})]

\* Mutant: a duplicated access is released once.
RemoveOnce(accs) ==
    /\ total' = [c \in Components |-> [k \in Kinds |-> total[c][k] - Count(accs, OfKind(c, k))]]
    /\ reserved' = [a \in Access |-> IF Count(accs, {a}) > 0 THEN reserved[a] - 1 ELSE reserved[a]]

\* ComponentAccess::remove for every access of a record.
RemoveAll(accs) ==
    /\ total' = [c \in Components |-> [k \in Kinds |-> total[c][k] - Count(accs, OfKind(c, k))]]
    /\ reserved' = [a \in Access |-> reserved[a] - Count(accs, {a})]

-----------------------------------------------------------------------------
(* Records                                                                 *)

\* The slot Records::insert takes.  (The code panics when there is none.)
TakeSlot(s) ==
    IF free # <<>>
    THEN s = free[Len(free)] /\ free' = SubSeq(free, 1, Len(free) - 1) /\ UNCHANGED used
    ELSE s = used + 1 /\ used < MaxSlots /\ used' = s /\ UNCHANGED free

\* Mutant: a slot whose generations are used up is free again.
RetireSlotExhausted(s) ==
    LET g == slots[s].generation
    IN  /\ slots' = [slots EXCEPT ![s] =
                        [FreshSlot EXCEPT !.generation = IF g < MaxGeneration THEN g + 1 ELSE g]]
        /\ free' = Append(free, s)

\* Records::remove.  A generation never wraps: the slot is given up instead.
RetireSlot(s) ==
    LET g == slots[s].generation
    IN  /\ slots' = [slots EXCEPT ![s] =
                        [FreshSlot EXCEPT !.generation = IF g < MaxGeneration THEN g + 1 ELSE g]]
        /\ free' = IF g < MaxGeneration THEN Append(free, s) ELSE free

-----------------------------------------------------------------------------
(* Reservations, and the driver that uses them.                            *)

Init ==
    /\ owners = [o \in Owners |-> NoRun]
    /\ slots = [s \in SlotIds |-> FreshSlot] /\ used = 0 /\ free = <<>>
    /\ total = [c \in Components |-> [k \in Kinds |-> 0]]
    /\ reserved = [a \in Access |-> 0]
    /\ readRuns = {} /\ writeRuns = {}
    /\ mode = "running" /\ retired = {}

\* Reservations::admit, and the queue dispatch_rows puts the run into.  A
\* duplicate owner or a conflict is rejected without any change.
Admit(o, accs) ==
    /\ mode = "running"
    /\ owners[o] = NoRun
    /\ \A i \in DOMAIN accs : ~Conflicts(accs[i])
    /\ \E s \in SlotIds :
          /\ TakeSlot(s)
          /\ slots' = [slots EXCEPT ![s].owner = o, ![s].accesses = accs]
          /\ owners' = [owners EXCEPT ![o] = IdOf(s)]
          /\ IF Writes(accs)
             THEN writeRuns' = writeRuns \cup {IdOf(s)} /\ UNCHANGED readRuns
             ELSE readRuns' = readRuns \cup {IdOf(s)} /\ UNCHANGED writeRuns
    /\ AddAll(accs)
    /\ UNCHANGED <<mode, retired>>

\* Reservations::remove of a record that is there.
Release(s) ==
    /\ RetireSlot(s)
    /\ owners' = [owners EXCEPT ![slots[s].owner] = NoRun]
    /\ RemoveAll(slots[s].accesses)
    /\ retired' = retired \cup {IdOf(s)}
    /\ UNCHANGED used

\* A run finishes, commits and gives its reservation back.
Complete(id) ==
    /\ mode # "cancel"
    /\ id \in readRuns \cup writeRuns
    /\ Contains(id)
    /\ Release(id.slot)
    /\ readRuns' = readRuns \ {id} /\ writeRuns' = writeRuns \ {id}
    /\ UNCHANGED mode

\* A mutator waits: the readers' queue is dropped ...
Preempt ==
    /\ mode = "running"
    /\ mode' = "cancel"
    /\ readRuns' = {}
    /\ UNCHANGED <<owners, slots, used, free, total, reserved, writeRuns, retired>>

\* Mutant: writers are cancelled too.
ToCancelAll == Live

\* The records cancel_readers collects.
ToCancel == {s \in Live : ~Writes(slots[s].accesses)}

\* ... their reservations are released, in slot order ...
CancelReader(s) ==
    /\ mode = "cancel"
    /\ s \in ToCancel /\ \A t \in ToCancel : s <= t
    /\ Release(s)
    /\ UNCHANGED <<readRuns, writeRuns, mode>>

\* ... and the writers are drained.
CancelDone ==
    /\ mode = "cancel" /\ ToCancel = {}
    /\ mode' = "drain"
    /\ UNCHANGED <<owners, slots, used, free, total, reserved, readRuns, writeRuns, retired>>

\* The queues are empty and the phase returns, or its driver is dropped at an
\* await: queues and reservations go together.
NewPhase ==
    /\ mode # "cancel"
    /\ owners' = [o \in Owners |-> NoRun]
    /\ slots' = [s \in SlotIds |-> FreshSlot] /\ used' = 0 /\ free' = <<>>
    /\ total' = [c \in Components |-> [k \in Kinds |-> 0]]
    /\ reserved' = [a \in Access |-> 0]
    /\ readRuns' = {} /\ writeRuns' = {}
    /\ mode' = "running" /\ retired' = {}

Next ==
    \/ \E o \in Owners, accs \in Requests : Admit(o, accs)
    \/ \E id \in readRuns \cup writeRuns : Complete(id)
    \/ Preempt
    \/ \E s \in SlotIds : CancelReader(s)
    \/ CancelDone
    \/ NewPhase

Spec == Init /\ [][Next]_vars

-----------------------------------------------------------------------------
(* Properties.                                                             *)

Slot == [generation : 0..MaxGeneration, owner : Owners \cup {NoOwner}, accesses : Seq(Access)]

\* Types; the counters are usize, so releasing never takes one below zero.
TypeOK ==
    /\ owners \in [Owners -> RunId]
    /\ slots \in [SlotIds -> Slot]
    /\ used \in 0..MaxSlots
    /\ free \in Seq(SlotIds)
    /\ total \in [Components -> [Kinds -> Nat]]
    /\ reserved \in [Access -> Nat]
    /\ readRuns \subseteq RunId /\ writeRuns \subseteq RunId /\ retired \subseteq RunId
    /\ mode \in {"running", "cancel", "drain"}

\* Two invocations in flight never hold conflicting accesses: a MutRef owns
\* its row for the whole invocation (admit).
AdmittedNeverConflict ==
    \A s, t \in Live : s # t =>
        \A a \in AccessesOf(s), b \in AccessesOf(t) : ~RL!Conflict(a, b)

\* The counters answer what the pairwise rule would: nothing is admitted
\* against a reservation, and no released access blocks a row for ever.
IndexMatchesOracle ==
    \A a \in Access : Conflicts(a) <=> \E s \in Live : \E b \in AccessesOf(s) : RL!Conflict(a, b)

\* The logical-key index and the records name each other, so a planned row
\* that is already running is seen as a duplicate (Reservations::owners).
OwnersIndexed ==
    /\ \A o \in Holding : Contains(owners[o]) /\ slots[owners[o].slot].owner = o
    /\ \A s \in Live : owners[slots[s].owner] = IdOf(s)

\* The free stack holds every slot at most once, and no slot in use.
FreeListSound ==
    /\ \A i \in DOMAIN free : free[i] <= used /\ free[i] \notin Live
    /\ \A i, j \in DOMAIN free : free[i] = free[j] => i = j
    /\ \A s \in SlotIds : s > used => slots[s] = FreshSlot

\* The driver's assertion "completion belongs to an active invocation", and
\* its converse: a record whose completion is not queued would never be
\* released.  Writers are in the queue that preemption drains.
CompletionsValid ==
    /\ \A id \in readRuns : Contains(id) /\ ~Writes(slots[id.slot].accesses)
    /\ \A id \in writeRuns : Contains(id) /\ Writes(slots[id.slot].accesses)
    /\ \A s \in Live : \/ IdOf(s) \in readRuns \cup writeRuns
                       \/ mode = "cancel" /\ s \in ToCancel

\* A retired RunId never names a record again, also when a slot runs out of
\* generations (Records::remove: "never wrap a generation").
RetiredStaysRetired == \A id \in retired : ~Contains(id)

\* The counters implement the pairwise rule.
ImplementsRowLocks == RL!Spec
=============================================================================
