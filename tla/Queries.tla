------------------------------ MODULE Queries ------------------------------
(***************************************************************************)
(* Which rows a system has, which of them a plan admits and what each of   *)
(* them depends on: the query parts, filters and parameters of query.rs,   *)
(* their tuples in system.rs and the prepared lookups of prepared.rs, over *)
(* the worlds of module World.                                             *)
(*                                                                         *)
(* A query is a record: bare for a lone Entity<H>, otherwise the tuple     *)
(* (Entity<H>, P1, .., Pn) with H as the set of its parts and the parts in *)
(* order.  A filter is the set of its atoms; And adds the atoms of its two *)
(* sides.  A parameter is a query with its filter and its kind.            *)
(***************************************************************************)
EXTENDS World

CONSTANTS
    Plans,      \* system -> the sequence of its parameters
    InitWorld,  \* the world before the first plan
    Writes,     \* writes other actors may make
    MaxWrites   \* bound on the number of writes

ASSUME QueriesAssumption ==
    /\ MaxWrites \in Nat
    /\ \A s \in DOMAIN Plans : Plans[s] # <<>>

-----------------------------------------------------------------------------
(* Stores *)

StoreOf(w, c) == DOMAIN w.entries[c]
StoreLen(w, c) == Cardinality(StoreOf(w, c))
Allocated(w) == 1 .. (w.next - 1)
Unbounded == Cardinality(Entities) + 1   \* usize::MAX: no store bounds the rows

\* PresenceIndex::mask and matches: there is a mask only for a schema and only
\* when every type is in its universe.
MaskedAny(types) == Universe # {}
Masked(types) == Universe # {} /\ types \subseteq Universe
MaskMatches(w, types, e) == \A c \in types : <<c, e>> \in w.presence
HasAll(w, types, e) == \A c \in types : Has(w, c, e)

\* Dep: <<type, entity, revision>>; a store-scoped one has entity 0.
ComponentDep(w, c, e) == IF c \in Tracked THEN {<<c, e, RevisionOf(w, c, e)>>} ELSE {}
StoreWatermarkDep(w, c) == <<c, 0, w.watermark[c]>>

\* The guard fetch takes on an entry, when there is one.
Locks(w, mode, c, e) == IF Has(w, c, e) THEN {<<mode, c, e>>} ELSE {}

\* What a row shows its body of one entry; untracked data promises nothing.
Shown(w, c, e) == IF c \in Tracked /\ Has(w, c, e) THEN Entry(w, c, e).value ELSE None

Required(facet) == {f.type : f \in {g \in facet : ~g.optional}}

\* facet_rows: the dense id scan, the mask, or the smallest store probed.
FacetRows(w, facet) ==
    LET required == Required(facet)
        driver == CHOOSE c \in required : \A d \in required : StoreLen(w, c) <= StoreLen(w, d)
    IN  IF required = {} THEN Allocated(w)
        ELSE IF Masked(required) THEN {e \in Allocated(w) : MaskMatches(w, required, e)}
        ELSE {e \in StoreOf(w, driver) : HasAll(w, required, e)}

-----------------------------------------------------------------------------
(* The parts of a tuple: what each answers about entity e *)

\* &T
ReadPart(w, p, e) ==
    [len |-> StoreLen(w, p.type), candidates |-> StoreOf(w, p.type),
     matches |-> Has(w, p.type, e), interest |-> {p.type}, providers |-> {},
     deps |-> ComponentDep(w, p.type, e), access |-> {<<"read", p.type, e>>},
     locks |-> Locks(w, "read", p.type, e), accessAll |-> {<<"read", p.type, None>>},
     shown |-> Shown(w, p.type, e)]

\* Option<&T> never constrains the row, and observes absence.
OptionalPart(w, p, e) ==
    [ReadPart(w, p, e) EXCEPT !.len = Unbounded, !.candidates = Allocated(w), !.matches = TRUE]

\* MutRef<T>
MutPart(w, p, e) ==
    [ReadPart(w, p, e) EXCEPT !.access = {<<"write", p.type, e>>},
                              !.locks = Locks(w, "write", p.type, e),
                              !.accessAll = {<<"write", p.type, None>>}]

\* Tracked<H> depends on every part of H and borrows none.
TrackedPart(w, p, e) ==
    LET types == {f.type : f \in p.facet}
    IN  [len |-> Unbounded, candidates |-> FacetRows(w, p.facet), matches |-> TRUE,
         interest |-> types, providers |-> {},
         deps |-> UNION {ComponentDep(w, c, e) : c \in types},
         access |-> {<<"read", c, e>> : c \in types}, locks |-> {}, accessAll |-> {},
         shown |-> {<<c, Shown(w, c, e)>> : c \in types}]

\* RelatedQueryPart for tuples of read parts: one member of an inverse.
MemberPart(w, q, e) ==
    [matches |-> q.kind = "read" => Has(w, q.type, e), deps |-> ComponentDep(w, q.type, e),
     access |-> {<<"read", q.type, e>>}, locks |-> Locks(w, "read", q.type, e),
     shown |-> Shown(w, q.type, e)]
MemberMatches(w, p, e) == \A q \in p.of : MemberPart(w, q, e).matches
EdgeOf(t) == CHOOSE c \in DOMAIN InverseOf : InverseOf[c] = t
MemberDepsRequired(w, p, e) ==
    UNION {MemberPart(w, q, e).deps : q \in {r \in p.of : r.kind = "read"}}
MemberDeps(w, p, e) == UNION {MemberPart(w, q, e).deps : q \in p.of}
MemberAccessNone(w, p, e) == {}
MemberAccess(w, p, e) == UNION {MemberPart(w, q, e).access : q \in p.of}

\* Related<R, P>: the inverse of the owner, and each member's parts.
RelatedPart(w, p, e) ==
    LET members == Members(w, p.type, e)
        projected == {m \in members : MemberMatches(w, p, m)}
    IN  [len |-> Unbounded, candidates |-> Allocated(w), matches |-> TRUE,
         interest |-> {p.type} \cup {q.type : q \in p.of},
         providers |-> Targets(w, EdgeOf(p.type), e),
         deps |-> ComponentDep(w, p.type, e) \cup UNION {MemberDeps(w, p, m) : m \in members},
         access |-> {<<"read", p.type, e>>} \cup UNION {MemberAccess(w, p, m) : m \in members},
         locks |-> Locks(w, "read", p.type, e)
                       \cup UNION {MemberPart(w, q, m).locks : q \in p.of, m \in projected},
         accessAll |-> {<<"read", p.type, None>>},
         shown |-> {<<m, {<<q.type, MemberPart(w, q, m).shown>> : q \in p.of}>> : m \in projected}]

PartAt(w, p, e) ==
    CASE p.kind = "read" -> ReadPart(w, p, e)
      [] p.kind = "option" -> OptionalPart(w, p, e)
      [] p.kind = "mut" -> MutPart(w, p, e)
      [] p.kind = "tracked" -> TrackedPart(w, p, e)
      [] p.kind = "related" -> RelatedPart(w, p, e)

\* What the parts answer whatever the entity.
PartOf(w, p) == PartAt(w, p, None)
PartsOf(q) == Range(q.parts)
PartRequires(q) == {p.type : p \in {r \in PartsOf(q) : r.kind \in {"read", "mut"}}}

-----------------------------------------------------------------------------
(* Queries *)

\* retain_matching_parts!: one mask check, or every part probed.
Retained(w, q, candidates) ==
    IF Masked(PartRequires(q)) THEN {e \in candidates : MaskMatches(w, PartRequires(q), e)}
    ELSE {e \in candidates : \A p \in PartsOf(q) : PartAt(w, p, e).matches}

\* The first part with the smallest store drives.
FirstSmallest(len) ==
    CHOOSE i \in DOMAIN len : \A j \in DOMAIN len : len[i] < len[j] \/ (len[i] = len[j] /\ i <= j)
Driver(w, q) == FirstSmallest([i \in DOMAIN q.parts |-> PartOf(w, q.parts[i]).len])

\* QueryParam::rows: one part's candidates are its matches.
Rows(w, q) ==
    LET driven == Required(q.facet) = {} /\ ~q.bare
        candidates == IF driven THEN PartOf(w, q.parts[Driver(w, q)]).candidates
                      ELSE FacetRows(w, q.facet)
    IN  IF q.bare \/ (driven /\ Len(q.parts) = 1) THEN candidates ELSE Retained(w, q, candidates)

HintedParts(w, q, hint) == IF q.bare THEN hint ELSE Retained(w, q, hint)
\* QueryParam::rows_hinted with Some(hint): a bare handle takes the hint as is.
RowsHinted(w, q, hint) ==
    IF q.bare THEN hint ELSE Retained(w, q, {e \in hint : HasAll(w, Required(q.facet), e)})

\* prepared::rows: facet and parts share one mask, or both are probed.
PreparedRows(w, q, candidates) ==
    IF q.bare THEN candidates
    ELSE LET required == Required(q.facet) \cup PartRequires(q)
         IN  IF Masked(required) THEN {e \in candidates : MaskMatches(w, required, e)}
             ELSE {e \in candidates : /\ HasAll(w, Required(q.facet), e)
                                      /\ \A p \in PartsOf(q) : PartAt(w, p, e).matches}

\* QueryParam::interest_types of a query that is not a dense id scan.
QueryInterest(w, q) ==
    {f.type : f \in q.facet} \cup UNION {PartOf(w, p).interest : p \in PartsOf(q)}

RowBound(w, q) ==
    Min({Unbounded} \cup {PartOf(w, p).len : p \in PartsOf(q)}
                    \cup {StoreLen(w, c) : c \in IF q.bare THEN {} ELSE Required(q.facet)})

-----------------------------------------------------------------------------
(* Filters inside systems *)

Atoms(f, kinds) == {a \in f : a.kind \in kinds}
EqKeys(f) == {a.type : a \in Atoms(f, {"eq"})}
InKeys(f) == {a.type : a \in Atoms(f, {"in"})}

\* With<T> and Where<Eq<T>> require T and drive from its store; Without<T>
\* prunes; Where<In<T>> leaves membership to the binding of the tuple.
AtomMatches(w, a, e) ==
    CASE a.kind \in {"with", "eq"} -> Has(w, a.type, e)
      [] a.kind = "without" -> ~Has(w, a.type, e)
      [] a.kind = "in" -> TRUE
FilterMatches(w, f, e) == \A a \in f : AtomMatches(w, a, e)

\* entity_candidates: the intersection over the atoms that have some.
Drivers(f) == Atoms(f, {"with", "eq"})
FilterCandidates(w, f) == {e \in Entities : \A a \in Drivers(f) : Has(w, a.type, e)}

FilterDeps(w, f, e) == UNION {ComponentDep(w, a.type, e) : a \in Drivers(f)}
FilterAccess(f, e) == {<<"read", a.type, e>> : a \in Atoms(f, {"with", "eq", "without"})}
FilterAccessAll(f) == FilterAccess(f, None)

\* And keeps the default bound: only a lone With bounds the candidates.
CandidateBound(w, f) ==
    IF Cardinality(f) = 1 /\ Atoms(f, {"with"}) # {}
    THEN StoreLen(w, (CHOOSE a \in f : TRUE).type) ELSE Unbounded

\* The entities that share fingerprint fp of key (fingerprint_candidates_iter).
Bucket(w, key, fp) == {e \in Entities : <<key, fp, e>> \in w.index}

\* hint_providers: whoever a changed member e pairs with, by key or by edge.
FilterProviders(w, f, e) ==
    (UNION {Bucket(w, a.type, Entry(w, a.type, e).fingerprint) :
               a \in {b \in Atoms(f, {"eq"}) : Has(w, b.type, e)}})
        \cup UNION {Targets(w, EdgeOf(a.type), e) : a \in Atoms(f, {"in"})}

\* filtered_rows and filtered_rows_from_candidates
FilteredRows(w, p) ==
    {e \in IF Drivers(p.filter) = {} THEN Rows(w, p) ELSE RowsHinted(w, p, FilterCandidates(w, p.filter)) :
        FilterMatches(w, p.filter, e)}
FilteredFrom(w, p, candidates) ==
    {e \in RowsHinted(w, p, candidates) : FilterMatches(w, p.filter, e)}

-----------------------------------------------------------------------------
(* Parameters: Query, Option<Query>, View, TrackedView, Commands, WorldMetaView *)

Unit == 0

AccessAll(w, p) == UNION {PartOf(w, r).accessAll : r \in PartsOf(p)}
ViewAccess(w, p) == AccessAll(w, p) \cup FilterAccessAll(p.filter)

\* tracked_view_types: what the parts and the filter borrow, not the facet.
TrackedViewTypes(w, p) == {a[2] : a \in ViewAccess(w, p)}

Interest(w, p) ==
    LET atoms == {a.type : a \in p.filter}
    IN  CASE p.kind \in {"query", "outer"} ->
                 IF p.parts # <<>> \/ p.facet # {} THEN QueryInterest(w, p) \cup atoms
                 ELSE IF Atoms(p.filter, {"with"}) # {} THEN atoms ELSE None
          [] p.kind = "trackedview" -> TrackedViewTypes(w, p)
          [] p.kind \in {"view", "commands"} -> {}
          [] p.kind = "meta" -> None

\* states: the absent placeholder of an outer join always enumerates.
ParamStates(w, p) ==
    IF p.kind \in {"query", "outer"}
    THEN FilteredRows(w, p) \cup (IF p.kind = "outer" THEN {None} ELSE {})
    ELSE {Unit}

PairExpandable(p) ==
    p.kind = "query" /\ Cardinality(EqKeys(p.filter)) + Cardinality(InKeys(p.filter)) = 1

ParamShape(p) ==
    CASE p.kind \in {"view", "commands"} -> "inert"
      [] p.kind \in {"outer", "trackedview", "meta"} -> "opaque"
      [] PairExpandable(p) -> "pair"
      [] p.kind = "query" /\ EqKeys(p.filter) \cup InKeys(p.filter) = {} -> "driver"
      [] OTHER -> "opaque"

ParamBound(w, p) == Min({RowBound(w, p), CandidateBound(w, p.filter)})

ParamProviders(w, p, hint) ==
    UNION {(UNION {PartAt(w, r, e).providers : r \in PartsOf(p)}) \cup FilterProviders(w, p.filter, e) :
              e \in hint}

RowDeps(w, p, e) == (UNION {PartAt(w, r, e).deps : r \in PartsOf(p)}) \cup FilterDeps(w, p.filter, e)

\* deps: an absent partner is a watermark on every joined store.
ParamDeps(w, p, e) ==
    CASE p.kind \in {"query", "outer"} /\ e # None -> RowDeps(w, p, e)
      [] p.kind = "outer" /\ e = None ->
             {StoreWatermarkDep(w, c) : c \in {a[2] : a \in AccessAll(w, p)} \cup EqKeys(p.filter)}
      [] p.kind = "trackedview" -> {StoreWatermarkDep(w, c) : c \in TrackedViewTypes(w, p)}
      [] OTHER -> {}

\* access: rows by entity, views and absent partners by store.
ParamAccess(w, p, e) ==
    CASE p.kind \in {"query", "outer"} /\ e # None ->
             (UNION {PartAt(w, r, e).access : r \in PartsOf(p)}) \cup FilterAccess(p.filter, e)
      [] OTHER -> ViewAccess(w, p)

\* fetch: the guards held while the body runs, a view's for each of its rows.
ParamLocks(w, p, e) ==
    LET rows == CASE p.kind \in {"query", "outer"} -> {e} \ {None}
                  [] p.kind \in {"view", "trackedview"} -> FilteredRows(w, p)
                  [] OTHER -> {}
    IN  UNION {PartAt(w, r, x).locks : r \in PartsOf(p), x \in rows}

\* What the body sees of the parameter through its tracked reads.
ParamShown(w, p, e) ==
    CASE p.kind \in {"query", "outer"} /\ e # None -> {<<r, PartAt(w, r, e).shown>> : r \in PartsOf(p)}
      [] p.kind = "trackedview" ->
             {<<x, {<<r, PartAt(w, r, x).shown>> : r \in PartsOf(p)}>> : x \in FilteredRows(w, p)}
      [] OTHER -> {}

\* A MutRef provides no key: a join key is not mutated by what it binds.
Provides(p, key) ==
    p.kind = "query" /\ \E r \in PartsOf(p) : r.kind = "read" /\ r.type = key

-----------------------------------------------------------------------------
(* Tuples of parameters *)

Siblings(params, i, key) == {j \in DOMAIN params : j # i /\ Provides(params[j], key)}

\* for_each_state!: a pair-bound parameter takes its rows from the provider
\* picked before it, by membership or by fingerprint bucket.
Partners(w, params, i, picked) ==
    LET p == params[i]
        key == CHOOSE k \in EqKeys(p.filter) \cup InKeys(p.filter) : TRUE
        provider == picked[Min(Siblings(params, i, key))]
        candidates == IF key \in InKeys(p.filter) THEN Members(w, key, provider)
                      ELSE Bucket(w, key, Entry(w, key, provider).fingerprint)
    IN  {e \in PreparedRows(w, p, candidates) : FilterMatches(w, p.filter, e)}

Product(w, params, rows) ==
    FoldLeft(LAMBDA acc, i :
                UNION {{Append(picked, e) : e \in IF PairExpandable(params[i])
                                                  THEN Partners(w, params, i, picked) ELSE rows[i]} :
                          picked \in acc},
             {<<>>}, [i \in DOMAIN params |-> i])

\* absent_binding_matches: no inner row carries an equal key.
AbsentMatches(w, p, key, fp) ==
    ~\E e \in FilteredRows(w, p) : key \in EqKeys(p.filter) /\ Entry(w, key, e).fingerprint = fp

\* binding_matches: equality, membership, and the absence of outer joins.
BindingMatches(w, params, state) ==
    \A i \in DOMAIN params :
        LET p == params[i]
            given(key) == state[Min(Siblings(params, i, key))]
            fp(key) == Entry(w, key, given(key)).fingerprint
        IN  IF state[i] = None THEN \A key \in EqKeys(p.filter) : AbsentMatches(w, p, key, fp(key))
            ELSE /\ \A key \in EqKeys(p.filter) : Entry(w, key, state[i]).fingerprint = fp(key)
                 /\ p.kind = "query" => \A key \in InKeys(p.filter) : state[i] \in Members(w, key, given(key))

\* SystemParam::states of the tuple: only what is not pair-expanded is pruned.
States(w, params) ==
    LET pruned == \E i \in DOMAIN params :
                     EqKeys(params[i].filter) \cup InKeys(params[i].filter) # {}
                        /\ ~PairExpandable(params[i])
    IN  {state \in Product(w, params, [i \in DOMAIN params |-> ParamStates(w, params[i])]) :
            pruned => BindingMatches(w, params, state)}

DeltaShape(params) ==
    LET shapes == {ParamShape(params[i]) : i \in DOMAIN params}
    IN  IF "opaque" \notin shapes /\ "driver" \in shapes THEN "driver" ELSE "opaque"

ExpandNothing(w, params, hint) == hint
\* A member-side write replans through the providers it pairs with.
Expanded(w, params, hint) ==
    hint \cup UNION {ParamProviders(w, params[i], hint) :
                        i \in {j \in DOMAIN params : params[j].kind = "query"}}

\* states_hinted: hint the one large driver; several large ones or a dirty
\* tiny one plan fully.
DriversOf(params) == {i \in DOMAIN params : ParamShape(params[i]) = "driver"}
LargeDrivers(w, params) == {i \in DriversOf(params) : ParamBound(w, params[i]) > 1}
Hinted(w, params, hint, large) ==
    LET dirty == \E i \in DriversOf(params) \ large : ParamStates(w, params[i]) \cap hint # {}
    IN  IF Cardinality(large) > 1 \/ dirty THEN States(w, params)
        ELSE Product(w, params, [i \in DOMAIN params |->
                 IF i \in large THEN FilteredFrom(w, params[i], hint) ELSE ParamStates(w, params[i])])
StatesHinted(w, params, hint) ==
    Hinted(w, params, Expanded(w, params, hint), LargeDrivers(w, params))

Keys(state) ==
    FoldLeft(LAMBDA acc, e : IF e \in {None, Unit} THEN acc ELSE Append(acc, e), <<>>, state)
StateDeps(w, params, state) == UNION {ParamDeps(w, params[i], state[i]) : i \in DOMAIN params}
StateShown(w, params, state) == [i \in DOMAIN params |-> ParamShown(w, params[i], state[i])]
StateAccess(w, params, state) == UNION {ParamAccess(w, params[i], state[i]) : i \in DOMAIN params}
StateLocks(w, params, state) == UNION {ParamLocks(w, params[i], state[i]) : i \in DOMAIN params}
AlwaysRun(params) == \E i \in DOMAIN params : params[i].kind = "meta"

-----------------------------------------------------------------------------
(* One system planned over a world that others write *)

VARIABLES
    system,  \* the system under plan
    world,
    memo,    \* keys -> [deps, shown]: MemoEntry, and what that run was shown
    cursor,  \* planned_mark, plan_epoch and log_pos of the system
    writes   \* number of writes made

vars == <<system, world, memo, cursor, writes>>

Params == Plans[system]

\* None: some parameter has rows that no set of stores bounds.
AllInterest(sets) == IF None \in sets THEN None ELSE UNION sets
SystemInterest(w) == AllInterest({Interest(w, Params[i]) : i \in DOMAIN Params})

\* The highest watermark of the stores a system is interested in.
MarkOf(w, types) == IF types = None THEN None ELSE Max({0} \cup {w.watermark[c] : c \in types})
Mark(w) == MarkOf(w, SystemInterest(w))

\* BoxedSystem::peek_needs_planning
MovedPast(mark, now) == now = None \/ (mark # None => now > mark)
NeedsPlanning == MovedPast(cursor.mark, Mark(world))

Stale(state) ==
    \/ AlwaysRun(Params)
    \/ Keys(state) \notin DOMAIN memo
    \/ memo[Keys(state)].deps # StateDeps(world, Params, state)

DeltaEligible == DeltaShape(Params) = "driver" /\ SystemInterest(world) # None

\* The rows written since the cursor, of stores the system is interested in.
Dirty == {x[2] : x \in {y \in Range(SubSeq(world.log, cursor.pos + 1, Len(world.log))) :
                              y[1] \in SystemInterest(world)}}

Candidates ==
    IF DeltaEligible /\ cursor.epoch = world.epoch THEN StatesHinted(world, Params, Dirty)
    ELSE States(world, Params)

Admitted == {state \in Candidates : Stale(state)}

Init ==
    /\ system \in DOMAIN Plans
    /\ world = InitWorld
    /\ memo = [k \in {} |-> None]
    /\ cursor = [mark |-> None, epoch |-> None, pos |-> 0]
    /\ writes = 0

Perform(w, x) ==
    CASE x.op = "insert" -> Insert(w, x.at, x.type, x.value, None)
      [] x.op = "remove" -> RemoveComponent(w, x.type, x.at, None)
      [] x.op = "despawn" -> RemoveEntity(w, x.at)
      [] x.op = "update" -> UpdateComponentLive(w, x.type, x.at, x.value)

\* Other actors write; the memos of a removed entity go with it.
Write ==
    /\ writes < MaxWrites
    /\ \E x \in Writes :
          /\ x.op = "update" => Has(world, x.type, x.at)
          /\ world' \in {Perform(world, x)} \ {world}
          /\ memo' = IF x.op = "despawn"
                     THEN Restrict(memo, {k \in DOMAIN memo : x.at \notin Range(k)}) ELSE memo
    /\ writes' = writes + 1
    /\ UNCHANGED <<system, cursor>>

\* The entries rows leave behind, and the cursor a plan leaves behind.
MemoEntry(state) ==
    [deps |-> StateDeps(world, Params, state), shown |-> StateShown(world, Params, state)]
Remembered(rows) ==
    LET keys == {Keys(state) : state \in rows}
    IN  [k \in keys \cup DOMAIN memo |->
            IF k \in keys THEN MemoEntry(CHOOSE state \in rows : Keys(state) = k) ELSE memo[k]]
Advanced(mark, delta) ==
    [mark |-> mark, epoch |-> IF delta THEN world.epoch ELSE cursor.epoch,
     pos |-> IF delta THEN Len(world.log) ELSE cursor.pos]

\* A wave that plans the system and commits every row it admits.
Plan ==
    /\ NeedsPlanning
    /\ memo' = Remembered(Admitted)
    /\ cursor' = Advanced(Mark(world), DeltaEligible)
    /\ UNCHANGED <<system, world, writes>>

Next == Write \/ Plan
Spec == Init /\ [][Next]_vars

-----------------------------------------------------------------------------
(* Properties *)

\* A row of a query by definition: every required store, and the filter.
Belongs(w, p, e) ==
    /\ e \in Allocated(w)
    /\ HasAll(w, Required(p.facet) \cup PartRequires(p), e)
    /\ FilterMatches(w, p.filter, e)

\* e joins the rows picked for the other parameters: equal keys, by value, and
\* an edge to the row whose inverse binds it.
Joins(w, params, i, state, e) ==
    /\ \A key \in EqKeys(params[i].filter) : \A j \in Siblings(params, i, key) :
          Has(w, key, state[j]) /\ Entry(w, key, e).value = Entry(w, key, state[j]).value
    /\ \A key \in InKeys(params[i].filter) : \A j \in Siblings(params, i, key) :
          Targets(w, EdgeOf(key), e) = {state[j]}

IsState(w, params, state) ==
    \A i \in DOMAIN params :
        LET p == params[i]
            partners == {e \in Entities : Belongs(w, p, e) /\ Joins(w, params, i, state, e)}
        IN  CASE p.kind = "query" -> state[i] \in partners
              [] p.kind = "outer" -> IF partners = {} THEN state[i] = None ELSE state[i] \in partners
              [] OTHER -> state[i] = Unit

\* The rows of a system are the combinations its parameters describe: smallest
\* stores, presence masks, fingerprint buckets and maintained inverses only
\* speed their enumeration up, and an unmatched provider of an outer join has
\* exactly one row, with None (query.rs rows, system.rs states).
StatesExact ==
    LET combinations == [DOMAIN Params -> Entities \cup {None, Unit}]
    IN  States(world, Params) = {state \in combinations : IsState(world, Params, state)}

\* Incremental planning loses no work: a row that a full plan would run now is
\* run by the next plan, although that plan only looks at the rows written
\* since the last one and the providers they pair with (system.rs
\* states_hinted, hint_providers; bowl.rs run_phase_streaming).
NoRowMissed ==
    \A state \in States(world, Params) : Stale(state) => NeedsPlanning /\ state \in Candidates

\* A hint narrows: what it admits is a row of the system.
HintsOnlyNarrow == Candidates \subseteq States(world, Params)

\* A memo that planning honours describes what the row would be shown now: no
\* tracked value the body reads, member it projects or absence it observed has
\* changed behind equal dependencies (query.rs deps, Dep).
MemoSound ==
    \A state \in States(world, Params) :
        ~Stale(state) => memo[Keys(state)].shown = StateShown(world, Params, state)

\* Every guard a body holds is one its reservation declared, at the row or at
\* the whole store: a conflicting invocation is never admitted beside it
\* (query.rs access and fetch, Related and views included).
AccessCoversFetch ==
    \A state \in Admitted : \A lock \in StateLocks(world, Params, state) :
        \E a \in StateAccess(world, Params, state) :
            a[1] = lock[1] /\ a[2] = lock[2] /\ a[3] \in {None, lock[3]}
=============================================================================
