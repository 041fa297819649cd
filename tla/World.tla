------------------------------- MODULE World -------------------------------
(***************************************************************************)
(* The component storage of a bowl: world.rs, world/stores.rs and the      *)
(* relationship and anchor parts of component.rs, as operators on a world  *)
(* value.  A world holds the typed stores, the indexes kept beside them    *)
(* (fingerprints, presence bits, ownership, singletons, spawn slots), the  *)
(* revision counters and the lists a commit drains.  Every operator stands *)
(* for a method that runs under the state lock, so it is one step of the   *)
(* modules that use it.                                                    *)
(***************************************************************************)
EXTENDS Naturals, FiniteSetsExt, SequencesExt, Functions, TLC

CONSTANTS
    Components,  \* component types
    Entities,    \* entity ids, 1 .. n in the order of allocation
    Tracked,     \* types whose writes invalidate (Component::tracked)
    Hashed,      \* types with a fingerprint (Component::fingerprint)
    Universe,    \* types of the schema, none for a bowl without one
    InverseOf,   \* edge type -> the inverse the engine maintains on its target
    Singletons,  \* marker types with a singleton key
    Anchored,    \* the type DerivedFrom
    None         \* Option::None: no value, no owner, no fingerprint

ASSUME WorldAssumption ==
    /\ Tracked \cup Hashed \cup Universe \cup Singletons \cup {Anchored} \subseteq Components
    /\ InverseOf \in [DOMAIN InverseOf -> Components \ (DOMAIN InverseOf \cup {Anchored})]
    /\ DOMAIN InverseOf \subseteq Components \ {Anchored}
    /\ IsInjective(InverseOf)
    /\ Singletons \cap (DOMAIN InverseOf \cup Range(InverseOf) \cup Tracked \cup {Anchored}) = {}

-----------------------------------------------------------------------------
(* The value and its reads *)

\* World::new.  owned holds <<owner, type, entity>> (derived_owners), index
\* <<type, fingerprint, entity>> (Store::by_fingerprint), presence the set bits.
NewWorld ==
    [entries |-> [c \in Components |-> [e \in {} |-> None]],
     index |-> {}, presence |-> {}, owned |-> {},
     watermark |-> [c \in Components |-> 0], revision |-> 0, mutations |-> 0,
     spawns |-> [o \in {} |-> <<>>], cursors |-> [o \in {} |-> 0],
     singletons |-> [c \in {} |-> None], next |-> 1,
     removedEntities |-> {}, removedOwners |-> {}, removedComponentOwners |-> {},
     pending |-> <<>>, log |-> <<>>, epoch |-> 0]

Dropped(f, k) == Restrict(f, DOMAIN f \ {k})
Stored(f, k, v) == [x \in DOMAIN f \cup {k} |-> IF x = k THEN v ELSE f[x]]
Has(w, c, e) == e \in DOMAIN w.entries[c]
Entry(w, c, e) == w.entries[c][e]
Old(w, c, e) == IF Has(w, c, e) THEN {Entry(w, c, e)} ELSE {}

\* Component::fingerprint; hashes of different values are taken to differ.
Fingerprint(c, v) == IF c \in Hashed THEN v ELSE None

RevisionOf(w, c, e) == IF Has(w, c, e) THEN Entry(w, c, e).revision ELSE None

\* Untracked types re-stamp their entry at every write and are left out.
EntityRevision(w, e) ==
    LET revisions == {Entry(w, c, e).revision : c \in {t \in Tracked : Has(w, t, e)}}
    IN  IF revisions = {} THEN None ELSE Max(revisions)

HasDerivedOwned(w, o) == \E out \in w.owned : out[1] = o

\* DerivedFrom::capture and is_current_revision, for anchors <<entity, revision>>.
Capture(w, anchors) == {<<a, EntityRevision(w, a)>> : a \in anchors}
IsCurrentAnchor(w, captured) ==
    /\ captured # {}
    /\ \A a \in captured : a[2] # None /\ a[2] = EntityRevision(w, a[1])

-----------------------------------------------------------------------------
(* Bookkeeping shared by the writes *)

Logged(w, c, e) == [w EXCEPT !.log = Append(@, <<c, e>>)]
PresenceSet(w, c, e) == IF c \in Universe THEN w.presence \cup {<<c, e>>} ELSE w.presence

\* Every removal moves the store: a new revision, its watermark, the log.
Moved(w, c, e) ==
    [Logged(w, c, e) EXCEPT !.revision = @ + 1, !.mutations = @ + 1,
                            !.watermark[c] = w.revision + 1]

Keyed(c, fp, e) == IF fp = None THEN {} ELSE {<<c, fp, e>>}
UnindexDerived(w, o, c, e) == w.owned \ {<<o, c, e>>}

\* The entry leaves its store, its fingerprint bucket and its presence bit.
Without(w, c, e) ==
    [w EXCEPT !.entries[c] = Dropped(@, e),
              !.index = @ \ Keyed(c, Entry(w, c, e).fingerprint, e),
              !.presence = @ \ {<<c, e>>}]

-----------------------------------------------------------------------------
(* Writing one entry *)

\* World::insert up to the relationship maintenance.  An equal fingerprint
\* keeps the revision of a tracked entry; every other write bumps.
InsertEntry(w, e, c, v, o) ==
    LET old == Old(w, c, e)
        fp == Fingerprint(c, v)
        same == \E p \in old : p.fingerprint # None /\ p.fingerprint = fp
        kept == same /\ c \in Tracked
        rev == IF kept THEN Entry(w, c, e).revision ELSE w.revision + 1
        disowned == {<<p.owner, c, e>> : p \in {q \in old : q.owner # o}}
        new == [value |-> v, revision |-> rev, fingerprint |-> fp, owner |-> o]
    IN  [w EXCEPT
          !.log = Append(w.log, <<c, e>>),
          !.revision = IF kept THEN w.revision ELSE rev,
          !.mutations = IF same THEN w.mutations ELSE w.mutations + 1,
          !.watermark = [w.watermark EXCEPT ![c] = Max({@, rev})],
          !.presence = PresenceSet(w, c, e),
          !.entries = [w.entries EXCEPT ![c] = Stored(@, e, new)],
          !.index = (w.index \ UNION {Keyed(c, p.fingerprint, e) : p \in old}) \cup Keyed(c, fp, e),
          !.owned = (w.owned \ disowned) \cup (IF o = None THEN {} ELSE {<<o, c, e>>}),
          !.singletons = IF c \in Singletons \ DOMAIN w.singletons
                         THEN Stored(w.singletons, c, e) ELSE w.singletons]

\* World::remove_component up to the relationship maintenance.  An owner other
\* than the remover is noted: its memo no longer describes live output.
RemoveEntry(w, c, e, remover) ==
    IF ~Has(w, c, e) THEN w
    ELSE LET o == Entry(w, c, e).owner
         IN  [Moved(Without(w, c, e), c, e) EXCEPT
               !.owned = UnindexDerived(w, o, c, e),
               !.removedComponentOwners =
                   IF o = None \/ o = remover THEN @ ELSE @ \cup {o},
               !.singletons = IF c \in DOMAIN @ /\ @[c] = e THEN Dropped(@, c) ELSE @]

-----------------------------------------------------------------------------
(* Relationships: an edge type c on a source keeps InverseOf[c] on its target *)

Members(w, t, target) == IF Has(w, t, target) THEN Entry(w, t, target).value ELSE {}

\* World::relationship_add_member
AddMember(w, t, source, target) ==
    IF source \in Members(w, t, target) THEN w
    ELSE InsertEntry(w, target, t, Members(w, t, target) \cup {source}, None)

\* World::relationship_remove_member: an empty inverse leaves its entity.
RemoveMember(w, t, source, target) ==
    LET rest == Members(w, t, target) \ {source}
    IN  IF source \notin Members(w, t, target) THEN w
        ELSE IF rest = {} THEN RemoveEntry(w, t, target, None)
        ELSE InsertEntry(w, target, t, rest, None)

\* The targets of e's edge of type c: none, or the one its value names.
Targets(w, c, e) == IF c \in DOMAIN InverseOf THEN {p.value : p \in Old(w, c, e)} ELSE {}

RetargetAddOnly(w, c, e, before, after) ==
    FoldSet(LAMBDA t, v : AddMember(v, InverseOf[c], e, t), w, after)

\* w is the world after e's edge of type c went from the targets in before to
\* those in after; an unchanged target touches nothing.
Retarget(w, c, e, before, after) ==
    IF before = after THEN w
    ELSE LET gone == FoldSet(LAMBDA t, v : RemoveMember(v, InverseOf[c], e, t), w, before)
         IN  FoldSet(LAMBDA t, v : AddMember(v, InverseOf[c], e, t), gone, after)

-----------------------------------------------------------------------------
(* The methods *)


AnyEntity(w, c, e) == FALSE
\* The panic of World::insert: the marker is registered on another entity.
Misplaced(w, c, e) == c \in Singletons \cap DOMAIN w.singletons /\ w.singletons[c] # e

\* World::insert, insert_base (o = None) and insert_derived.  The insert of
\* DerivedFrom waits for the end of its command buffer; a panic comes before any
\* store is touched (Facts takes no step whose commands panic).
Insert(w, e, c, v, o) ==
    IF c = Anchored THEN [w EXCEPT !.pending = Append(@, [at |-> e, anchors |-> v, owner |-> o])]
    ELSE IF Misplaced(w, c, e) THEN w
    ELSE LET next == InsertEntry(w, e, c, v, o)
         IN  Retarget(next, c, e, Targets(w, c, e), Targets(next, c, e))

\* World::flush_derived_from: anchors are captured against the written world.
FlushDerivedFrom(w) ==
    FoldLeft(LAMBDA v, p : InsertEntry(v, p.at, Anchored, Capture(v, p.anchors), p.owner),
            [w EXCEPT !.pending = <<>>], w.pending)

\* World::remove_component
RemoveComponent(w, c, e, remover) ==
    Retarget(RemoveEntry(w, c, e, remover), c, e, Targets(w, c, e), {})

\* World::remove_derived_entry: only while o still owns the entry.
RemoveDerivedEntry(w, c, e, o) ==
    IF ~Has(w, c, e) \/ Entry(w, c, e).owner # o THEN w
    ELSE Retarget(Moved(Without(w, c, e), c, e), c, e, Targets(w, c, e), {})

RemoveDerivedEntries(w, outs) ==
    FoldSet(LAMBDA out, v : RemoveDerivedEntry(v, out[2], out[3], out[1]), w, outs)

OutputsOf(w, owners) == {out \in w.owned : out[1] \in owners}

\* World::take_derived_outputs is TakeOutputs(w, {o}); the retirements below
\* forget the spawn slots of their owners as well.
TakeOutputs(w, owners) == [w EXCEPT !.owned = @ \ OutputsOf(w, owners)]
Retire(w, owners) ==
    RemoveDerivedEntries(
        [TakeOutputs(w, owners) EXCEPT !.spawns = Restrict(@, DOMAIN @ \ owners)],
        OutputsOf(w, owners))

\* World::remove_derived_owned
RemoveDerivedOwned(w, o) == Retire(w, {o})

\* World::remove_derived_stale: what the rerun did not emit again.
RemoveDerivedStale(w, previous) == RemoveDerivedEntries(w, previous \ w.owned)

TouchedProviders(w, keys, systems) ==
    {o \in {out[1] : out \in w.owned} :
        o.system \in systems /\ o.keys # <<>> /\ Head(o.keys) \in keys}

\* World::remove_derived_touched_by_systems: the owners it retires, the world
\* after, and the entities that lost an output (the next frontier).
TouchedOwners(w, keys, systems) ==
    {o \in {out[1] : out \in w.owned} : o.system \in systems /\ Range(o.keys) \cap keys # {}}
RemoveDerivedTouchedBy(w, keys, systems) == Retire(w, TouchedOwners(w, keys, systems))
TouchedEntities(w, keys, systems) ==
    {out[3] : out \in {x \in OutputsOf(w, TouchedOwners(w, keys, systems)) :
                          Has(w, x[2], x[3]) /\ Entry(w, x[2], x[3]).owner = x[1]}}

\* World::remove_entity: the entity leaves every store; its own edges leave
\* their targets, and the edges that point at it are retracted.
RemoveEntity(w, e) ==
    LET types == {c \in Components : Has(w, c, e)}
        owners == {Entry(w, c, e).owner : c \in types} \ {None}
        bare == FoldSet(LAMBDA c, v : Moved(Without(v, c, e), c, e), w, types)
        dropped == [bare EXCEPT !.owned = {out \in @ : ~(out[3] = e /\ out[2] \in types)},
                                !.singletons = Restrict(@, {c \in DOMAIN @ : @[c] # e}),
                                !.removedEntities = @ \cup {e},
                                !.removedOwners = @ \cup owners]
        unlinked == FoldSet(LAMBDA c, v : Retarget(v, c, e, Targets(w, c, e), {}),
                            dropped, DOMAIN InverseOf)
        sources == UNION {{<<c, s>> : s \in Members(w, InverseOf[c], e)} : c \in DOMAIN InverseOf}
    IN  FoldSet(LAMBDA x, v : RemoveComponent(v, x[1], x[2], None), unlinked, sources)

OwnersOn(w, e) == {Entry(w, c, e).owner : c \in {t \in Components : Has(w, t, e)}} \ {None}

-----------------------------------------------------------------------------
(* In-place writes *)

\* A Mut row writes through its guard: nothing but the value moves.
WriteInPlace(w, c, e, v) == [w EXCEPT !.entries[c][e].value = v]

\* Store::reconcile_entry and World::reconcile_written, at the commit.
ReconcileEntry(w, c, e) ==
    IF ~Has(w, c, e) THEN w
    ELSE LET old == Entry(w, c, e)
             after == Fingerprint(c, old.value)
             changed == c \in Tracked /\ (old.fingerprint = None \/ old.fingerprint # after)
             rev == w.revision + 1
             new == [old EXCEPT !.fingerprint = after, !.revision = IF changed THEN rev ELSE @]
         IN  [w EXCEPT !.entries = [w.entries EXCEPT ![c] = Stored(@, e, new)],
                       !.revision = IF changed THEN rev ELSE @,
                       !.watermark = [w.watermark EXCEPT ![c] = IF changed THEN rev ELSE @],
                       !.index = (w.index \ Keyed(c, old.fingerprint, e)) \cup Keyed(c, after, e)]
ReconcileWritten(w, writes) ==
    FoldSet(LAMBDA x, v : Logged(ReconcileEntry(v, x[1], x[2]), x[1], x[2]), w, writes)

\* World::update_component_live and try_update_component_live with a free
\* cell: value, fingerprint and revision move together, the log if changed.
UpdateComponentLive(w, c, e, v) ==
    LET next == ReconcileEntry(WriteInPlace(w, c, e, v), c, e)
    IN  IF next.revision = w.revision THEN next ELSE Logged(next, c, e)

-----------------------------------------------------------------------------
(* Entity ids *)

SpawnSlots(w, o) == IF o \in DOMAIN w.spawns THEN w.spawns[o] ELSE <<>>

\* World::record_derived_spawn
RecordDerivedSpawn(w, o, e) ==
    LET slot == IF o \in DOMAIN w.cursors THEN w.cursors[o] ELSE 0
        slots == SpawnSlots(w, o)
    IN  [w EXCEPT !.cursors = (o :> slot + 1) @@ @,
                  !.spawns = (o :> (IF slot < Len(slots) THEN [slots EXCEPT ![slot + 1] = e]
                                    ELSE Append(slots, e))) @@ @]

\* World::finish_derived_spawns: slots the run did not use are dropped.
FinishDerivedSpawns(w, o) ==
    LET used == IF o \in DOMAIN w.cursors THEN w.cursors[o] ELSE 0
        slots == SpawnSlots(w, o)
        kept == SubSeq(slots, 1, Min({used, Len(slots)}))
    IN  [w EXCEPT !.cursors = Dropped(@, o),
                  !.spawns = IF kept = <<>> THEN Dropped(@, o) ELSE (o :> kept) @@ @]

\* World::singleton_entity_or_register
SingletonEntity(w, c, candidate) ==
    IF c \in DOMAIN w.singletons THEN w.singletons[c] ELSE candidate
RegisterSingleton(w, c, candidate) ==
    [w EXCEPT !.singletons = IF c \in DOMAIN @ THEN @ ELSE Stored(@, c, candidate)]

\* World::maybe_roll_plan_epoch with a budget of limit rows.
RollPlanEpoch(w, limit) ==
    IF Len(w.log) <= limit THEN w ELSE [w EXCEPT !.log = <<>>, !.epoch = @ + 1]

-----------------------------------------------------------------------------
(* What the indexes promise *)

OwnersExact(w) ==
    w.owned = {out \in UNION {{<<Entry(w, c, e).owner, c, e>> : e \in DOMAIN w.entries[c]} :
                                 c \in Components} : out[1] # None}
FingerprintsExact(w) ==
    w.index = UNION {UNION {Keyed(c, Entry(w, c, e).fingerprint, e) : e \in DOMAIN w.entries[c]} :
                        c \in Components}
PresenceExact(w) ==
    w.presence = UNION {{<<c, e>> : e \in DOMAIN w.entries[c]} : c \in Universe}
InversesExact(w) ==
    \A c \in DOMAIN InverseOf : \A e \in Entities :
        Members(w, InverseOf[c], e) = {s \in DOMAIN w.entries[c] : Entry(w, c, s).value = e}
RevisionsBounded(w) ==
    \A c \in Components : /\ w.watermark[c] <= w.revision
                          /\ \A e \in DOMAIN w.entries[c] : Entry(w, c, e).revision <= w.watermark[c]
=============================================================================
