------------------------------ MODULE Dispatch ------------------------------
(***************************************************************************)
(* One phase of an evaluation at the level of its worker tasks: admission  *)
(* of planned rows in batches (dispatch/plan.rs), the tasks that execute   *)
(* them and stream their results back (dispatch/executor.rs), and the      *)
(* guarded cells their bodies borrow from (world.rs ComponentCell,         *)
(* query/guards.rs).  Rows fetch their guards one cell at a time, bodies   *)
(* run on workers while the driver receives, preempts or is dropped, and   *)
(* three callers outside the evaluation use the same cells: a preemptive   *)
(* mutator, a scoop that keeps its rows, and a Cow for_each.               *)
(***************************************************************************)
EXTENDS Integers, Sequences, SequencesExt, FiniteSets, FiniteSetsExt, Functions

CONSTANTS
    Rows,               \* the invocations the phase may plan
    Cells,              \* one component of one entity each
    Planned,            \* the rows in the order the planning pass meets them
    SystemOf,           \* the system of each row
    Accesses,           \* the guards a row fetches, in parameter order
    Sync,               \* rows of synchronous systems
    Maximum,            \* dispatch_batch_size
    Workers,            \* num_workers of the runtime
    BatchesPerWorker,   \* 4 in grain
    MaxTasks,           \* bound: tasks alive at once
    MaxEvents,          \* bound: external calls, panics and dropped drivers;
                        \* below PREEMPTION_BUDGET
    MutatorCells,       \* the cells with_latest may be called on
    ScoopCells,         \* the cells of a collected query result, in row order
    CowCells,           \* the cells for_each may visit
    None

Kinds == {"Read", "Write"}
Slots == 1 .. MaxTasks

\* A worker task: the rows of its batch, the guards each has taken and how far
\* it got, the row it is busy with, and the results not yet received.
Task == [rows : SUBSET Rows, held : [Rows -> Nat],
         st : [Rows -> {"new", "fetch", "parked", "body", "await", "resumed", "sent"}],
         cur : Rows \cup {None}, run : {"idle", "polling", "done", "panicked"},
         chan : Seq(Rows), fate : {"attached", "cancelled", "orphaned"}]

ASSUME DispatchAssumption ==
    /\ IsFiniteSet(Rows)
    /\ Planned \in Seq(Rows)
    /\ \A r \in Rows : \E n \in DOMAIN Planned : Planned[n] = r
    /\ \A m, n \in DOMAIN Planned : Planned[m] = Planned[n] => m = n
    /\ Accesses \in [Rows -> Seq([cell : Cells, kind : Kinds])]
    /\ \A q, r \in Rows : SystemOf[q] = SystemOf[r] => (q \in Sync <=> r \in Sync)
    /\ ScoopCells \in Seq(Cells)
    /\ MutatorCells \cup CowCells \subseteq Cells
    /\ {Maximum, Workers, BatchesPerWorker, MaxTasks} \subseteq Nat \ {0}
    /\ MaxEvents \in Nat
    /\ None \notin Rows \cup Task

VARIABLES
    parallel,           \* a tokio runtime is present
    cell,               \* ComponentLockState of each cell
    tasks,              \* the batches of the phase, and the abandoned ones
    reserved,           \* the rows Reservations holds
    due,                \* rows whose memo is out of date
    pc,                 \* the driver in run_phase_streaming
    dirty,              \* rows that wrote in place and are not published
    mutator, scoop, cow,
    events              \* how much of MaxEvents is used

vars == <<parallel, cell, tasks, reserved, due, pc, dirty, mutator, scoop, cow,
          events>>

----------------------------------------------------------------------------
(* Cells and guards *)

\* ComponentCell::new.
Unlocked == [readers |-> 0, writer |-> FALSE]

FreeToReaders(c, kind) == ~cell[c].writer

\* The wait conditions of ComponentCell::read, write and try_write.
Free(c, kind) ==
    /\ ~cell[c].writer
    /\ kind = "Write" => cell[c].readers = 0

\* The guard is granted.
Granted(c, kind) ==
    IF kind = "Read"
    THEN [cell EXCEPT ![c].readers = @ + 1]
    ELSE [cell EXCEPT ![c].writer = TRUE]

Writes(r) == \E n \in DOMAIN Accesses[r] : Accesses[r][n].kind = "Write"

FetchReversed(r) == IF Writes(r) THEN Reverse(Accesses[r]) ELSE Accesses[r]

\* Prepared fetch: the parameters take their guards in declaration order.
FetchOrder(r) == Accesses[r]

\* The guards that GuardStores hold: P is a set of tasks, each with a row.
RowsOf(K) == K \X Rows

Positions == UNION {DOMAIN Accesses[r] : r \in Rows}

Held(P, c, kind) ==
    {g \in P \X Positions :
        /\ g[2] <= tasks[g[1][1]].held[g[1][2]]
        /\ FetchOrder(g[1][2])[g[2]] = [cell |-> c, kind |-> kind]}

\* HeldGuard::drop of each of them: release_read, release_write.
Released(P) ==
    [c \in Cells |->
        [readers |-> cell[c].readers - Cardinality(Held(P, c, "Read")),
         writer |-> cell[c].writer /\ Held(P, c, "Write") = {}]]

NotifiedByWriters(after) == {c \in Cells : cell[c].writer /\ ~after[c].writer}

\* notify_all: of the last reader, and of the writer.
Notified(after) ==
    {c \in Cells : \/ cell[c].writer /\ ~after[c].writer
                   \/ cell[c].readers > 0 /\ after[c].readers = 0}

NextAccess(t) == FetchOrder(t.cur)[t.held[t.cur] + 1]

Parked(t) == t # None /\ t.cur # None /\ t.st[t.cur] = "parked"

\* The waiters of the cells `awake` look again.
Woken(ts, awake) ==
    [k \in Slots |->
        IF Parked(ts[k]) /\ NextAccess(ts[k]).cell \in awake
        THEN [ts[k] EXCEPT !.st[ts[k].cur] = "fetch"]
        ELSE ts[k]]

ScoopWoken(awake) ==
    IF scoop.st = "parked" /\ ScoopCells[scoop.held + 1] \in awake
    THEN [scoop EXCEPT !.st = "fetch"] ELSE scoop

CowWoken(awake) ==
    IF cow.st = "parked" /\ cow.at \in awake
    THEN [cow EXCEPT !.st = "locked"] ELSE cow

\* Guards are dropped: the cells become `after`, the tasks ts.
Unlock(ts, after) ==
    LET awake == Notified(after)
    IN  /\ cell' = after
        /\ tasks' = Woken(ts, awake)
        /\ scoop' = ScoopWoken(awake)
        /\ cow' = CowWoken(awake)

----------------------------------------------------------------------------
(* Admission and batches *)

Conflicts(r, q) ==
    \E m \in DOMAIN Accesses[r], n \in DOMAIN Accesses[q] :
        /\ Accesses[r][m].cell = Accesses[q][n].cell
        /\ "Write" \in {Accesses[r][m].kind, Accesses[q][n].kind}

CeilDiv(n, d) == (n + d - 1) \div d

\* grain.
Grain(ready) ==
    IF parallel
    THEN Max({1, Min({CeilDiv(ready, Workers * BatchesPerWorker), Maximum})})
    ELSE Maximum

\* executor::spawn, spawn_calls: one task for the rows of a batch.
Spawned(batch) ==
    [rows |-> batch, held |-> [r \in Rows |-> 0], st |-> [r \in Rows |-> "new"],
     cur |-> None, run |-> "idle", chan |-> <<>>, fate |-> "attached"]

\* The capacity of the completion channel.
Capacity(t) == Cardinality(t.rows)

\* The planning pass, or a batch, comes to q before r.
Before(q, r) ==
    \E m, n \in DOMAIN Planned : m < n /\ Planned[m] = q /\ Planned[n] = r

\* The admission loop of dispatch_rows over the planned rows, system by system:
\* a row is refused when it is in flight, or conflicts with a row in flight or
\* with one admitted before it.
Admits(A) ==
    \A r \in Rows :
        r \in A <=>
            /\ r \in due \ reserved
            /\ \A q \in reserved : ~Conflicts(r, q)
            /\ \A q \in A : Before(q, r) => ~Conflicts(r, q)

\* dispatch_rows: the readers and the writers of a system go to separate
\* batches, each filled up to the grain of the system's plan.
BatchOf(A, r) ==
    LET size == Grain(Cardinality({q \in due : SystemOf[q] = SystemOf[r]}))
        earlier == {q \in A : /\ SystemOf[q] = SystemOf[r] /\ Writes(q) = Writes(r)
                              /\ Before(q, r)}
    IN  <<SystemOf[r], Writes(r), Cardinality(earlier) \div size>>

Batches(A) == {{q \in A : BatchOf(A, q) = BatchOf(A, r)} : r \in A}

Live == {k \in Slots : tasks[k] # None}
Polled == {k \in Live : tasks[k].run = "polling"}
Attached(k) == tasks[k] # None /\ tasks[k].fate = "attached"
WriteBatch(t) == \E r \in t.rows : Writes(r)

\* Without a runtime the driver itself polls the rows.
DriverFree ==
    /\ parallel \/ Polled = {}
    /\ cow.st \notin {"locked", "parked", "writing"}
    /\ mutator.st # "writing"

----------------------------------------------------------------------------
(* The driver *)

Event == events < MaxEvents /\ events' = events + 1
Quiet == UNCHANGED <<mutator, events>>

\* A settle finds work and elects its caller.
Begin ==
    /\ pc = "idle" /\ due # {} /\ DriverFree
    /\ pc' = "plan"
    /\ UNCHANGED <<parallel, cell, tasks, reserved, due, dirty, scoop, cow>>
    /\ Quiet

\* One planning pass over the systems of the phase.
Plan ==
    /\ pc = "plan" /\ DriverFree
    /\ \E A \in SUBSET (due \ reserved) :
        /\ Admits(A)
        /\ \E batches \in {Batches(A)} :
            /\ Injection(batches, Slots \ Live) # {}
            /\ \E slot \in {CHOOSE f \in Injection(batches, Slots \ Live) : TRUE} :
                tasks' = [k \in Slots |->
                    IF \E b \in batches : slot[b] = k
                    THEN Spawned(CHOOSE b \in batches : slot[b] = k)
                    ELSE tasks[k]]
        /\ reserved' = reserved \cup A
    /\ pc' = "wait"
    /\ UNCHANGED <<parallel, cell, due, dirty, scoop, cow>>
    /\ Quiet

\* SpawnedBatch::poll_next yields a result, and the driver commits it: the
\* rows that read what it wrote are due, its own memo absorbs the write.
Receive(k) ==
    LET r == tasks[k].chan[1]
        wrote == {Accesses[r][n].cell : n \in {m \in DOMAIN Accesses[r] :
                                                Accesses[r][m].kind = "Write"}}
        reads(q) == \E n \in DOMAIN Accesses[q] : Accesses[q][n].cell \in wrote
    IN  /\ pc \in {"wait", "drain"} /\ DriverFree
        /\ Attached(k) /\ tasks[k].chan # <<>>
        /\ pc = "drain" => WriteBatch(tasks[k])
        /\ tasks' = [tasks EXCEPT ![k].chan = Tail(@)]
        /\ reserved' = reserved \ {r}
        /\ due' = (due \cup {q \in Rows : reads(q)}) \ {r}
        /\ dirty' = dirty \ {r}
        /\ pc' = IF pc = "wait" THEN "plan" ELSE pc
        /\ UNCHANGED <<parallel, cell, scoop, cow>>
        /\ Quiet

ExhaustedClosed(t) == t.run \in {"done", "panicked"}

\* The channel is closed and the handle joined: the stream ends.
Exhausted(t) == t.run = "done"

Exhaust(k) ==
    /\ pc \in {"wait", "drain"} /\ DriverFree
    /\ Attached(k) /\ tasks[k].chan = <<>> /\ Exhausted(tasks[k])
    /\ tasks' = [tasks EXCEPT ![k] = None]
    /\ UNCHANGED <<parallel, cell, reserved, due, pc, dirty, scoop, cow>>
    /\ Quiet

\* The streams of the tasks K are dropped: a task is aborted, and a row that
\* the driver polls itself is dropped at once.
Detach(K, fate) ==
    LET over == {k \in K : ~parallel \/ tasks[k].run \in {"done", "panicked"}}
    IN  Unlock([k \in Slots |-> IF k \in over THEN None
                                ELSE IF k \in K THEN [tasks[k] EXCEPT !.fate = fate]
                                ELSE tasks[k]],
               Released(RowsOf(over)))

Streams == {k \in Slots : Attached(k)}

CancelledAll == Streams
CancelledNone == {}

\* Tiered preemption: the reader streams are dropped with their reservations,
\* the writers are drained.
Cancelled == {k \in Streams : ~WriteBatch(tasks[k])}

Preempt ==
    /\ pc \in {"plan", "wait"} /\ mutator.st = "waiting" /\ DriverFree
    /\ Detach(Cancelled, "cancelled")
    /\ reserved' = {r \in reserved : Writes(r)}
    /\ pc' = "drain"
    /\ UNCHANGED <<parallel, due, dirty>>
    /\ Quiet

OpenWindow ==
    /\ pc = "drain" /\ Streams = {} /\ DriverFree
    /\ pc' = "window"
    /\ reserved' = {}
    /\ UNCHANGED <<parallel, cell, tasks, due, dirty, scoop, cow>>
    /\ Quiet

\* Every registered mutator has applied: the phase restarts.
CloseWindow ==
    /\ pc = "window" /\ mutator.st = "idle"
    /\ pc' = "plan"
    /\ UNCHANGED <<parallel, cell, tasks, reserved, due, dirty, scoop, cow>>
    /\ Quiet

\* Both queues are drained: the phase ends, or deferred conflicts are planned.
Drained ==
    /\ pc = "wait" /\ Streams = {} /\ DriverFree
    /\ pc' = IF due = {} THEN "idle" ELSE "plan"
    /\ UNCHANGED <<parallel, cell, tasks, reserved, due, dirty, scoop, cow>>
    /\ Quiet

\* run_phase_streaming ends without returning: its queues and reservations
\* are dropped, its memo stays as it is.
Abandon ==
    /\ Detach(Streams, "orphaned")
    /\ reserved' = {}
    /\ dirty' = {}
    /\ pc' = "idle"
    /\ UNCHANGED <<parallel, due, mutator>>

\* poll_next re-raises the panic of a task once its results are received.
Unwind(k) ==
    /\ pc \in {"wait", "drain"} /\ DriverFree
    /\ Attached(k) /\ tasks[k].chan = <<>> /\ tasks[k].run = "panicked"
    /\ Abandon
    /\ UNCHANGED events

\* The caller that drives the evaluation is dropped at an await.
DropDriver ==
    /\ pc \in {"wait", "drain", "window"} /\ DriverFree
    /\ Event
    /\ Abandon

----------------------------------------------------------------------------
(* The tasks *)

Driver == UNCHANGED <<parallel, reserved, due, pc>>

\* Finished or dropped tasks whose stream is gone leave nothing behind.
Ended(k, t) == [tasks EXCEPT ![k] = IF t.fate = "attached" THEN t ELSE None]

\* A task that is polled, or that goes on within the poll, turns to row r; a
\* row without guards starts its body.
PollRow(k, r) ==
    LET t == tasks[k]
        begun == IF FetchOrder(r) = <<>> THEN "body" ELSE "fetch"
    IN  /\ t # None /\ t.cur = None /\ r \in t.rows
        /\ \/ parallel
           \/ pc \in {"wait", "drain"} /\ Polled \subseteq {k}
        /\ t.run = "idle" => t.fate = "attached"
        /\ t.run \in {"idle", "polling"}
        /\ t.st[r] \in {"new", "await"}
        /\ r \in Sync =>
                /\ t.fate = "attached"
                /\ \A q \in t.rows : Before(q, r) => t.st[q] = "sent"
        /\ tasks' = [tasks EXCEPT ![k].run = "polling", ![k].cur = r,
                        ![k].st[r] = IF @ = "new" THEN begun ELSE "resumed"]
        /\ UNCHANGED <<cell, dirty, scoop, cow>>
        /\ Driver /\ Quiet

\* fetch takes the next guard, or waits on the cell's condvar; after the last
\* one the body starts.
Fetch(k) ==
    LET t == tasks[k]
        r == t.cur
        a == NextAccess(t)
        last == t.held[r] + 1 = Len(FetchOrder(r))
    IN  /\ t # None /\ r # None /\ t.st[r] = "fetch"
        /\ IF Free(a.cell, a.kind)
           THEN /\ cell' = Granted(a.cell, a.kind)
                /\ tasks' = [tasks EXCEPT ![k].held[r] = @ + 1,
                                          ![k].st[r] = IF last THEN "body" ELSE @]
                /\ dirty' = IF last /\ Writes(r) /\ t.fate # "orphaned"
                            THEN dirty \cup {r} ELSE dirty
           ELSE /\ tasks' = [tasks EXCEPT ![k].st[r] = "parked"]
                /\ UNCHANGED <<cell, dirty>>
        /\ UNCHANGED <<scoop, cow>>
        /\ Driver /\ Quiet

InBody(k) ==
    /\ tasks[k] # None /\ tasks[k].cur # None
    /\ tasks[k].st[tasks[k].cur] \in {"body", "resumed"}

\* The body of an async row awaits, its guards held (bound: once).
Suspend(k) ==
    LET r == tasks[k].cur
    IN  /\ InBody(k) /\ tasks[k].st[r] = "body" /\ r \notin Sync
        /\ tasks' = [tasks EXCEPT ![k].st[r] = "await", ![k].cur = None]
        /\ UNCHANGED <<cell, dirty, scoop, cow>>
        /\ Driver /\ Quiet

\* The poll of an async task returns Pending, and a poll of the driver's own
\* queue hands it a result.
Pend(k) ==
    /\ tasks[k] # None /\ tasks[k].run = "polling" /\ tasks[k].cur = None
    /\ parallel => tasks[k].rows \cap Sync = {}
    /\ tasks' = [tasks EXCEPT ![k].run = "idle"]
    /\ UNCHANGED <<cell, dirty, scoop, cow>>
    /\ Driver /\ Quiet

\* The body returns, its guards are cleared and its result is sent. On a
\* closed channel the task returns and drops the other rows.
Finish(k) ==
    LET t == tasks[k]
        r == t.cur
        sent == [t EXCEPT !.cur = None, !.held[r] = 0, !.st[r] = "sent"]
        all == \A q \in t.rows : sent.st[q] = "sent"
    IN  /\ InBody(k)
        /\ CASE t.fate # "attached" ->
                    Unlock([tasks EXCEPT ![k] = None], Released(RowsOf({k})))
             [] t.fate = "attached" /\ Len(t.chan) < Capacity(t) ->
                    Unlock([tasks EXCEPT ![k] =
                                [sent EXCEPT !.chan = Append(@, r),
                                             !.run = IF all THEN "done" ELSE @]],
                           Released({<<k, r>>}))
             [] OTHER ->
                    Unlock([tasks EXCEPT ![k] =
                                [sent EXCEPT !.held = [q \in Rows |-> 0],
                                             !.run = "panicked"]],
                           Released(RowsOf({k})))
        /\ UNCHANGED dirty
        /\ Driver /\ Quiet

\* The body panics: unwinding drops the guards of every row of the task.
Panic(k) ==
    /\ InBody(k)
    /\ Event
    /\ LET t == [tasks[k] EXCEPT !.cur = None, !.run = "panicked",
                                 !.held = [r \in Rows |-> 0]]
       IN  Unlock(Ended(k, t), Released(RowsOf({k})))
    /\ UNCHANGED <<dirty, mutator>>
    /\ Driver

\* A call batch finds its channel closed between two calls.
Return(k) ==
    /\ tasks[k] # None /\ tasks[k].fate # "attached"
    /\ tasks[k].run = "polling" /\ tasks[k].cur = None
    /\ tasks[k].rows \cap Sync # {}
    /\ tasks' = [tasks EXCEPT ![k] = None]
    /\ UNCHANGED <<cell, dirty, scoop, cow>>
    /\ Driver /\ Quiet

\* The runtime drops an aborted task that is not being polled.
Reap(k) ==
    /\ tasks[k] # None /\ tasks[k].fate # "attached" /\ tasks[k].run = "idle"
    /\ Unlock([tasks EXCEPT ![k] = None], Released(RowsOf({k})))
    /\ UNCHANGED dirty
    /\ Driver /\ Quiet

----------------------------------------------------------------------------
(* Callers outside the evaluation *)

Evaluation == UNCHANGED <<parallel, reserved, pc, dirty>>

\* with_latest registers as a preempting writer.
Register(c) ==
    /\ mutator.st = "idle"
    /\ Event
    /\ mutator' = [st |-> "waiting", at |-> c]
    /\ UNCHANGED <<cell, tasks, due, scoop, cow>>
    /\ Evaluation

\* At a boundary it tries the cell under the state lock; a busy cell makes it
\* yield and try again.
TryWrite ==
    /\ mutator.st = "waiting" /\ pc \in {"idle", "window"} /\ DriverFree
    /\ Free(mutator.at, "Write")
    /\ cell' = Granted(mutator.at, "Write")
    /\ mutator' = [mutator EXCEPT !.st = "writing"]
    /\ UNCHANGED <<tasks, due, scoop, cow, events>>
    /\ Evaluation

Readers(c) == {r \in Rows : \E n \in DOMAIN Accesses[r] : Accesses[r][n].cell = c}

WriteDone ==
    /\ mutator.st = "writing"
    /\ Unlock(tasks, [cell EXCEPT ![mutator.at].writer = FALSE])
    /\ mutator' = [st |-> "idle", at |-> None]
    /\ due' = due \cup Readers(mutator.at)
    /\ UNCHANGED events
    /\ Evaluation

\* A scoop collects its rows, one read guard each, ...
Scoop ==
    /\ scoop.st = "done"
    /\ Event
    /\ scoop' = [scoop EXCEPT !.st = "fetch"]
    /\ UNCHANGED <<cell, tasks, due, cow, mutator>>
    /\ Evaluation

ScoopFetch ==
    /\ scoop.st = "fetch" /\ scoop.held < Len(ScoopCells)
    /\ IF Free(ScoopCells[scoop.held + 1], "Read")
       THEN /\ cell' = Granted(ScoopCells[scoop.held + 1], "Read")
            /\ scoop' = [scoop EXCEPT !.held = @ + 1]
       ELSE /\ scoop' = [scoop EXCEPT !.st = "parked"]
            /\ UNCHANGED cell
    /\ UNCHANGED <<tasks, due, cow>>
    /\ Evaluation /\ UNCHANGED <<mutator, events>>

\* ... keeps them as long as the caller likes, and drops the result.
ScoopDrop ==
    /\ scoop.st = "fetch" /\ scoop.held = Len(ScoopCells)
    /\ LET after == [c \in Cells |-> [cell[c] EXCEPT !.readers =
                        @ - Cardinality({n \in DOMAIN ScoopCells : ScoopCells[n] = c})]]
           awake == Notified(after)
       IN  /\ cell' = after
           /\ tasks' = Woken(tasks, awake)
           /\ cow' = CowWoken(awake)
    /\ scoop' = [st |-> "done", held |-> 0]
    /\ UNCHANGED due
    /\ Evaluation /\ UNCHANGED <<mutator, events>>

\* for_each takes the state lock once the bowl is settled, and then waits for
\* the cell.
CowLock(c) ==
    /\ cow.st = "done" /\ pc = "idle" /\ due = {} /\ DriverFree
    /\ Event
    /\ cow' = [st |-> "locked", at |-> c]
    /\ UNCHANGED <<cell, tasks, due, scoop, mutator>>
    /\ Evaluation

CowWrite ==
    /\ cow.st = "locked"
    /\ IF Free(cow.at, "Write")
       THEN /\ cell' = Granted(cow.at, "Write")
            /\ cow' = [cow EXCEPT !.st = "writing"]
       ELSE /\ cow' = [cow EXCEPT !.st = "parked"]
            /\ UNCHANGED cell
    /\ UNCHANGED <<tasks, due, scoop>>
    /\ Evaluation /\ UNCHANGED <<mutator, events>>

CowDone ==
    /\ cow.st = "writing"
    /\ LET after == [cell EXCEPT ![cow.at].writer = FALSE]
           awake == Notified(after)
       IN  /\ cell' = after
           /\ tasks' = Woken(tasks, awake)
           /\ scoop' = ScoopWoken(awake)
    /\ cow' = [st |-> "done", at |-> None]
    /\ due' = due \cup Readers(cow.at)
    /\ Evaluation /\ UNCHANGED <<mutator, events>>

----------------------------------------------------------------------------
Init ==
    /\ parallel \in BOOLEAN
    /\ cell = [c \in Cells |-> Unlocked]
    /\ tasks = [k \in Slots |-> None]
    /\ reserved = {} /\ due = Rows /\ pc = "idle" /\ dirty = {}
    /\ mutator = [st |-> "idle", at |-> None]
    /\ scoop = [st |-> "done", held |-> 0]
    /\ cow = [st |-> "done", at |-> None]
    /\ events = 0

DriverNext ==
    \/ Begin \/ Plan \/ Preempt \/ OpenWindow \/ CloseWindow \/ Drained
    \/ \E k \in Slots : Receive(k) \/ Exhaust(k) \/ Unwind(k)

TaskNext(k) ==
    \/ \E r \in tasks[k].rows : PollRow(k, r)
    \/ Fetch(k) \/ Suspend(k) \/ Pend(k) \/ Finish(k) \/ Panic(k)
    \/ Return(k) \/ Reap(k)

CallerNext ==
    \/ \E c \in MutatorCells : Register(c)
    \/ \E c \in CowCells : CowLock(c)
    \/ TryWrite \/ WriteDone \/ Scoop \/ ScoopFetch \/ ScoopDrop \/ CowWrite \/ CowDone

Next ==
    \/ DriverNext
    \/ DropDriver
    \/ \E k \in Live : TaskNext(k)
    \/ CallerNext

\* What a worker does by itself: an awaiting reader may never be woken, every
\* other row goes on and its body ends.
TaskProgress(k) ==
    \/ \E r \in tasks[k].rows :
            /\ tasks[k].st[r] = "new" \/ WriteBatch(tasks[k])
            /\ PollRow(k, r)
    \/ Fetch(k) \/ Suspend(k) \/ Pend(k) \/ Finish(k) \/ Return(k) \/ Reap(k)

CallerProgress == TryWrite \/ WriteDone \/ ScoopFetch \/ ScoopDrop \/ CowWrite \/ CowDone

Fairness ==
    /\ WF_vars(DriverNext)
    /\ WF_vars(\E k \in Live : TaskProgress(k))
    /\ WF_vars(CallerProgress)

Spec == Init /\ [][Next]_vars /\ Fairness

----------------------------------------------------------------------------
(* Properties *)

\* The lock words of a cell count exactly the guards that exist, in invocation
\* frames, query results and closures, on whatever path they were dropped
\* (return, abort, panic, closed channel, dropped driver); and a writer is alone.
GuardsExact ==
    \A c \in Cells :
        LET readers == Cardinality(Held(RowsOf(Live), c, "Read"))
                       + Cardinality({n \in 1 .. scoop.held : ScoopCells[n] = c})
            writers == Cardinality(Held(RowsOf(Live), c, "Write"))
                       + (IF mutator.st = "writing" /\ mutator.at = c THEN 1 ELSE 0)
                       + (IF cow.st = "writing" /\ cow.at = c THEN 1 ELSE 0)
        IN  /\ cell[c].readers = readers
            /\ writers = IF cell[c].writer THEN 1 ELSE 0
            /\ writers = 1 => readers = 0

\* A thread that waits on a cell's condvar has something to wait for: the
\* notifications of release_read and release_write reach every waiter.
ParkedIsBlocked ==
    /\ \A k \in Slots : Parked(tasks[k]) =>
            ~Free(NextAccess(tasks[k]).cell, NextAccess(tasks[k]).kind)
    /\ scoop.st = "parked" => ~Free(ScoopCells[scoop.held + 1], "Read")
    /\ cow.st = "parked" => ~Free(cow.at, "Write")

\* The results of a task that are still to come.
Outstanding(t) == ToSet(t.chan) \cup {r \in t.rows : t.st[r] # "sent"}

\* A reservation is backed by a result still to come: otherwise its row, and
\* every row it conflicts with, would be refused for the rest of the phase.
ReservationsBacked == reserved = UNION {Outstanding(tasks[k]) : k \in Streams}

\* When callers may write, and when the bowl is idle, every in-place write of
\* the evaluation is published, unless its driver was dropped or unwound.
WritesPublished == pc \in {"idle", "window"} => dirty = {}

\* Who waits for whom: a thread parked on a cell, for the cell's holders. The
\* threads are the tasks, the scoop and the for_each.
ScoopThread == 0
CowThread == MaxTasks + 1

Holds(x, c) ==
    CASE x = ScoopThread -> \E n \in 1 .. scoop.held : ScoopCells[n] = c
      [] x = CowThread -> cow.st = "writing" /\ cow.at = c
      [] OTHER -> \E kind \in Kinds : Held(RowsOf({x}), c, kind) # {}

WaitsOn(x) ==
    CASE x = ScoopThread -> ScoopCells[scoop.held + 1]
      [] x = CowThread -> cow.at
      [] OTHER -> NextAccess(tasks[x]).cell

Waiting ==
    {k \in Slots : Parked(tasks[k])}
    \cup {x \in {ScoopThread} : scoop.st = "parked"}
    \cup {x \in {CowThread} : cow.st = "parked"}

\* No group of threads waits for itself: the deadlock nothing would resolve.
NoWaitCycle ==
    \A S \in SUBSET Waiting :
        S # {} => \E x \in S : \A y \in S : ~Holds(y, WaitsOn(x))

\* A registered mutator is served, although bodies of readers may never end:
\* they are cancelled, and the writers drained.
MutatorServed == mutator.st = "waiting" ~> mutator.st = "idle"
=============================================================================
