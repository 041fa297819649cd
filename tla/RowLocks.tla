------------------------------ MODULE RowLocks ------------------------------
(***************************************************************************)
(* What the reservations of one evaluator phase promise: an invocation     *)
(* holds its accesses from admission until its commit, and two invocations *)
(* in flight never hold conflicting ones.                                  *)
(***************************************************************************)
CONSTANTS
    Owners,             \* SystemInvocations
    Components,         \* component types
    Entities,
    Whole               \* an access to every row of a component

VARIABLES
    active,             \* the invocations in flight
    locks               \* the accesses each of them holds

vars == <<active, locks>>

Kinds == {"Read", "Write"}
Access == [component : Components, entity : Entities \cup {Whole}, kind : Kinds]

\* Access::conflicts, the pairwise rule.
Conflict(a, b) ==
    /\ a.component = b.component
    /\ a.kind = "Write" \/ b.kind = "Write"
    /\ a.entity = Whole \/ b.entity = Whole \/ a.entity = b.entity

Init == active = {} /\ locks = [o \in Owners |-> {}]

Acquire(o, A) ==
    /\ o \notin active
    /\ \A p \in active : \A a \in A, b \in locks[p] : ~Conflict(a, b)
    /\ active' = active \cup {o}
    /\ locks' = [locks EXCEPT ![o] = A]

Release(o) ==
    /\ o \in active
    /\ active' = active \ {o}
    /\ locks' = [locks EXCEPT ![o] = {}]

\* The phase ends, or its driver is dropped.
ReleaseAll == active' = {} /\ locks' = [o \in Owners |-> {}]

Next ==
    \/ \E o \in Owners, A \in SUBSET Access : Acquire(o, A)
    \/ \E o \in Owners : Release(o)
    \/ ReleaseAll

Spec == Init /\ [][Next]_vars
=============================================================================
