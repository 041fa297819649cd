---------------------------- MODULE QueriesProofs ---------------------------
(***************************************************************************)
(* Proofs about Queries, for every world, query and plan: the guards a     *)
(* body fetches are declared; every way to enumerate the rows of a query   *)
(* (smallest store, presence mask, hint, prepared candidates, filter       *)
(* index) gives the rows of its definition; so does the product of joined  *)
(* parameters; a hint narrows it; a memo with current dependencies         *)
(* describes the row it is kept for; and a plan by watermarks and the log  *)
(* finds every row that is due.                                            *)
(***************************************************************************)
EXTENDS Queries, WorldProofs, SequenceTheorems

PartKinds == {"read", "option", "mut", "tracked", "related"}
ParamKinds == {"query", "outer", "view", "trackedview", "commands", "meta"}

-----------------------------------------------------------------------------
(* Accesses *)

\* The kinds of parts and parameters there are.  "Related is supported by
\* tracked Query rows, not View or TrackedView, whose whole-store models
\* cannot describe member stores" (query.rs, the doc of Related).
PlansOK ==
    \A s \in DOMAIN Plans : \A i \in DOMAIN Plans[s] :
        LET p == Plans[s][i]
        IN  /\ p.kind \in ParamKinds
            /\ \A r \in PartsOf(p) : r.kind \in PartKinds
            /\ p.kind \in {"view", "trackedview"} => \A r \in PartsOf(p) : r.kind # "related"

\* A guard on an entry is only taken where there is one.
LEMMA LocksType ==
  ASSUME NEW w, NEW m, NEW c, NEW e
  PROVE  Locks(w, m, c, e) \subseteq {<<m, c, e>>}
BY DEF Locks

\* A part of a row fetches only what it declares for the row, each member of an
\* inverse included.
LEMMA RowLocksDeclared ==
  ASSUME NEW w, NEW p, NEW e, p.kind \in PartKinds
  PROVE  PartAt(w, p, e).locks \subseteq PartAt(w, p, e).access
<1>1. CASE p.kind = "read"
  BY <1>1, LocksType DEF PartAt, ReadPart
<1>2. CASE p.kind = "option"
  <2>1. PartAt(w, p, e) = OptionalPart(w, p, e)
    BY <1>2 DEF PartAt
  <2>2. /\ OptionalPart(w, p, e).locks = Locks(w, "read", p.type, e)
        /\ OptionalPart(w, p, e).access = {<<"read", p.type, e>>}
    BY DEF OptionalPart, ReadPart
  <2> QED BY <2>1, <2>2, LocksType
<1>3. CASE p.kind = "mut"
  <2>1. PartAt(w, p, e) = MutPart(w, p, e)
    BY <1>3 DEF PartAt
  <2>2. /\ MutPart(w, p, e).locks = Locks(w, "write", p.type, e)
        /\ MutPart(w, p, e).access = {<<"write", p.type, e>>}
    BY DEF MutPart, ReadPart
  <2> QED BY <2>1, <2>2, LocksType
<1>4. CASE p.kind = "tracked"
  BY <1>4 DEF PartAt, TrackedPart
<1>5. CASE p.kind = "related"
  <2> DEFINE members == Members(w, p.type, e)
             projected == {m \in members : MemberMatches(w, p, m)}
             fetched == UNION {MemberPart(w, q, m).locks : q \in p.of, m \in projected}
             declared == UNION {MemberAccess(w, p, m) : m \in members}
  <2>1. PartAt(w, p, e) = RelatedPart(w, p, e)
    BY <1>5 DEF PartAt
  <2>2. /\ RelatedPart(w, p, e).locks = Locks(w, "read", p.type, e) \cup fetched
        /\ RelatedPart(w, p, e).access = {<<"read", p.type, e>>} \cup declared
    BY DEF RelatedPart
  <2>3. fetched \subseteq declared
    <3> SUFFICES ASSUME NEW q \in p.of, NEW m \in projected, NEW lock \in MemberPart(w, q, m).locks
          PROVE  lock \in declared
      OBVIOUS
    <3>1. lock = <<"read", q.type, m>>
      BY LocksType DEF MemberPart
    <3>2. lock \in MemberPart(w, q, m).access
      BY <3>1 DEF MemberPart
    <3>3. lock \in MemberAccess(w, p, m)
      BY <3>2 DEF MemberAccess
    <3> QED BY <3>3
  <2> QED BY <2>1, <2>2, <2>3, LocksType
<1> QED BY <1>1, <1>2, <1>3, <1>4, <1>5 DEF PartKinds

\* A part of a view declares the whole store it fetches from.
LEMMA ViewLocksDeclared ==
  ASSUME NEW w, NEW p, NEW e, p.kind \in PartKinds, p.kind # "related",
         NEW lock \in PartAt(w, p, e).locks
  PROVE  <<lock[1], lock[2], None>> \in PartOf(w, p).accessAll
<1>1. CASE p.kind \in {"read", "option"}
  <2>1. PartAt(w, p, e).locks = Locks(w, "read", p.type, e)
    BY <1>1 DEF PartAt, OptionalPart, ReadPart
  <2>2. PartOf(w, p).accessAll = {<<"read", p.type, None>>}
    BY <1>1 DEF PartOf, PartAt, OptionalPart, ReadPart
  <2> QED BY <2>1, <2>2, LocksType
<1>2. CASE p.kind = "mut"
  <2>1. PartAt(w, p, e).locks = Locks(w, "write", p.type, e)
    BY <1>2 DEF PartAt, MutPart, ReadPart
  <2>2. PartOf(w, p).accessAll = {<<"write", p.type, None>>}
    BY <1>2 DEF PartOf, PartAt, MutPart, ReadPart
  <2> QED BY <2>1, <2>2, LocksType
<1>3. CASE p.kind = "tracked"
  BY <1>3 DEF PartAt, TrackedPart
<1> QED BY <1>1, <1>2, <1>3 DEF PartKinds

\* What one parameter fetches is what it declares, at the row or at the store.
LEMMA ParamLocksDeclared ==
  ASSUME NEW w, NEW p, NEW e, p.kind \in ParamKinds,
         \A r \in PartsOf(p) : r.kind \in PartKinds,
         p.kind \in {"view", "trackedview"} => \A r \in PartsOf(p) : r.kind # "related",
         NEW lock \in ParamLocks(w, p, e)
  PROVE  \E a \in ParamAccess(w, p, e) :
            a[1] = lock[1] /\ a[2] = lock[2] /\ a[3] \in {None, lock[3]}
<1>1. CASE p.kind \in {"query", "outer"}
  <2>1. PICK r \in PartsOf(p), x \in {e} \ {None} : lock \in PartAt(w, r, x).locks
    BY <1>1 DEF ParamLocks
  <2>2. e # None /\ lock \in PartAt(w, r, e).access
    BY <2>1, RowLocksDeclared
  <2>3. lock \in ParamAccess(w, p, e)
    BY <1>1, <2>2 DEF ParamAccess
  <2> QED BY <2>3
<1>2. CASE p.kind \in {"view", "trackedview"}
  <2>1. PICK r \in PartsOf(p), x \in FilteredRows(w, p) : lock \in PartAt(w, r, x).locks
    BY <1>2 DEF ParamLocks
  <2>2. <<lock[1], lock[2], None>> \in PartOf(w, r).accessAll
    BY <1>2, <2>1, ViewLocksDeclared
  <2>3. <<lock[1], lock[2], None>> \in ParamAccess(w, p, e)
    BY <1>2, <2>2 DEF ParamAccess, ViewAccess, AccessAll
  <2> QED BY <2>3
<1>3. CASE p.kind \in {"commands", "meta"}
  BY <1>3 DEF ParamLocks
<1> QED BY <1>1, <1>2, <1>3 DEF ParamKinds

\* Every guard a body holds was declared to the reservations, for every system
\* of the supported shapes and in every world: a conflicting invocation is
\* never admitted beside it (access and fetch of query.rs and system.rs).
THEOREM AccessesDeclared ==
  ASSUME PlansOK
  PROVE  Spec => []AccessCoversFetch
<1>1. Init => system \in DOMAIN Plans
  BY DEF Init
<1>2. system \in DOMAIN Plans /\ [Next]_vars => (system \in DOMAIN Plans)'
  BY DEF Next, Write, Plan, vars
<1>3. system \in DOMAIN Plans => AccessCoversFetch
  <2> SUFFICES ASSUME system \in DOMAIN Plans, NEW state, NEW lock \in StateLocks(world, Params, state)
        PROVE  \E a \in StateAccess(world, Params, state) :
                  a[1] = lock[1] /\ a[2] = lock[2] /\ a[3] \in {None, lock[3]}
    BY DEF AccessCoversFetch
  <2>1. PICK i \in DOMAIN Params : lock \in ParamLocks(world, Params[i], state[i])
    BY DEF StateLocks
  <2>2. \E a \in ParamAccess(world, Params[i], state[i]) :
           a[1] = lock[1] /\ a[2] = lock[2] /\ a[3] \in {None, lock[3]}
    BY <2>1, PlansOK, ParamLocksDeclared DEF PlansOK, Params
  <2> QED BY <2>1, <2>2 DEF StateAccess
<1> QED BY <1>1, <1>2, <1>3, PTL DEF Spec

-----------------------------------------------------------------------------
(* Rows *)

\* What enumeration relies on: presence bits that agree with the stores
\* (IndexesExact of Facts), and stores of allocated entities.
StoresOK(w) ==
    /\ PresenceExact(w)
    /\ \A c \in Components : /\ IsFiniteSet(StoreOf(w, c))
                             /\ StoreOf(w, c) \subseteq Allocated(w)

\* A query is a lone handle or a tuple with a part.  What Tracked<H> tracks is
\* anchored by the query's own facet: "Tracking never constrains or drives the
\* row set; the facet anchor (or sibling parts) do" (query.rs).
QueryOK(q) ==
    /\ q.bare \in BOOLEAN
    /\ Len(q.parts) \in Nat /\ DOMAIN q.parts = 1..Len(q.parts)
    /\ q.bare <=> Len(q.parts) = 0
    /\ Required(q.facet) \subseteq Components
    /\ \A p \in PartsOf(q) :
          /\ p.kind \in PartKinds
          /\ p.kind \in {"read", "mut"} => p.type \in Components
          /\ p.kind = "tracked" => Required(p.facet) \subseteq Required(q.facet)

\* The rows of a query by definition: every required store has the entity.
DefinedRows(w, q) ==
    {e \in Allocated(w) : HasAll(w, Required(q.facet) \cup PartRequires(q), e)}

\* A set of naturals has a least element.
LEMMA LeastExists ==
  ASSUME NEW S \in SUBSET Nat, S # {}
  PROVE  \E x \in S : \A y \in S : x <= y
<1> DEFINE Less == OpToRel(<, Nat)
<1>1. \A m, n \in Nat : <<m, n>> \in Less <=> m < n
  BY DEF OpToRel
<1>2. IsWellFoundedOn(Less, Nat)
  BY NatLessThanWellFounded
<1> HIDE DEF Less
<1>3. PICK x \in S : \A y \in S : ~(<<y, x>> \in Less)
  BY <1>2, WFMin
<1>4. \A y \in S : x <= y
  <2> SUFFICES ASSUME NEW y \in S PROVE x <= y
    OBVIOUS
  <2>1. ~(y < x)
    BY <1>1, <1>3
  <2> QED BY <2>1
<1> QED BY <1>4

\* One mask check answers what probing every store answers.
LEMMA MaskIsProbe ==
  ASSUME NEW w, NEW types, NEW e, PresenceExact(w), Masked(types)
  PROVE  MaskMatches(w, types, e) <=> HasAll(w, types, e)
<1>1. \A c \in Universe : <<c, e>> \in w.presence <=> e \in DOMAIN w.entries[c]
  BY DEF PresenceExact
<1>2. types \subseteq Universe
  BY DEF Masked
<1> QED BY <1>1, <1>2 DEF MaskMatches, HasAll, Has

\* Dense scan, mask and smallest store find the same entities.
LEMMA FacetRowsDefined ==
  ASSUME NEW w, NEW facet, StoresOK(w), Required(facet) \subseteq Components
  PROVE  FacetRows(w, facet) = {e \in Allocated(w) : HasAll(w, Required(facet), e)}
<1> DEFINE required == Required(facet)
           driver == CHOOSE c \in required : \A d \in required : StoreLen(w, c) <= StoreLen(w, d)
<1>1. CASE required = {}
  BY <1>1 DEF FacetRows, HasAll
<1>2. CASE required # {} /\ Masked(required)
  BY <1>2, MaskIsProbe DEF FacetRows, StoresOK
<1>3. CASE required # {} /\ ~Masked(required)
  <2> DEFINE sizes == {StoreLen(w, c) : c \in required}
  <2>1. sizes \subseteq Nat /\ sizes # {}
    BY <1>3, FS_CardinalityType DEF StoreLen, StoresOK
  <2>2. PICK n \in sizes : \A m \in sizes : n <= m
    <3> HIDE DEF sizes
    <3> QED BY <2>1, LeastExists
  <2>3. driver \in required
    BY <2>2
  <2> HIDE DEF driver
  <2>4. FacetRows(w, facet) = {e \in StoreOf(w, driver) : HasAll(w, required, e)}
    BY <1>3 DEF FacetRows, driver
  <2>5. \A e : HasAll(w, required, e) => e \in StoreOf(w, driver)
    BY <2>3 DEF HasAll, Has, StoreOf
  <2>6. StoreOf(w, driver) \subseteq Allocated(w)
    BY <2>3 DEF StoresOK
  <2> QED BY <2>4, <2>5, <2>6
<1> QED BY <1>1, <1>2, <1>3

\* Probing the parts is probing the stores they require.
LEMMA PartsMatch ==
  ASSUME NEW w, NEW q, NEW e, QueryOK(q)
  PROVE  (\A p \in PartsOf(q) : PartAt(w, p, e).matches) <=> HasAll(w, PartRequires(q), e)
<1>1. ASSUME NEW p \in PartsOf(q), p.kind \in {"read", "mut"}
      PROVE  PartAt(w, p, e).matches = Has(w, p.type, e)
  BY <1>1 DEF PartAt, ReadPart, MutPart
<1>2. ASSUME NEW p \in PartsOf(q), p.kind \notin {"read", "mut"}
      PROVE  PartAt(w, p, e).matches = TRUE
  <2>1. CASE p.kind = "option"
    BY <2>1 DEF PartAt, ReadPart, OptionalPart
  <2>2. CASE p.kind = "tracked"
    BY <2>2 DEF PartAt, TrackedPart
  <2>3. CASE p.kind = "related"
    BY <2>3 DEF PartAt, RelatedPart
  <2> QED BY <1>2, <2>1, <2>2, <2>3 DEF QueryOK, PartKinds
<1> QED BY <1>1, <1>2 DEF HasAll, PartRequires

\* retain_matching_parts! keeps the candidates that the parts accept, masked or
\* probed.
LEMMA RetainedDefined ==
  ASSUME NEW w, NEW q, NEW C, StoresOK(w), QueryOK(q)
  PROVE  Retained(w, q, C) = {e \in C : HasAll(w, PartRequires(q), e)}
<1>1. CASE Masked(PartRequires(q))
  BY <1>1, MaskIsProbe DEF Retained, StoresOK
<1>2. CASE ~Masked(PartRequires(q))
  BY <1>2, PartsMatch DEF Retained
<1> QED BY <1>1, <1>2

\* The stores a part names bound how many rows it can have.
LEMMA PartLenType ==
  ASSUME NEW w, NEW q, NEW p \in PartsOf(q), StoresOK(w), QueryOK(q), IsFiniteSet(Entities)
  PROVE  PartOf(w, p).len \in Nat
<1>1. Unbounded \in Nat
  BY FS_CardinalityType DEF Unbounded
<1>2. CASE p.kind \in {"read", "mut"}
  <2>1. PartOf(w, p).len = StoreLen(w, p.type)
    BY <1>2 DEF PartOf, PartAt, ReadPart, MutPart
  <2> QED BY <1>2, <2>1, FS_CardinalityType DEF StoreLen, StoresOK, QueryOK
<1>3. CASE p.kind = "option"
  <2>1. PartOf(w, p).len = Unbounded
    BY <1>3 DEF PartOf, PartAt, ReadPart, OptionalPart
  <2> QED BY <1>1, <2>1
<1>4. CASE p.kind \in {"tracked", "related"}
  <2>1. PartOf(w, p).len = Unbounded
    BY <1>4 DEF PartOf, PartAt, TrackedPart, RelatedPart
  <2> QED BY <1>1, <2>1
<1> QED BY <1>2, <1>3, <1>4 DEF QueryOK, PartKinds

\* Some part drives.
LEMMA DriverIsPart ==
  ASSUME NEW w, NEW q, StoresOK(w), QueryOK(q), ~q.bare, IsFiniteSet(Entities)
  PROVE  Driver(w, q) \in DOMAIN q.parts
<1> DEFINE len == [i \in DOMAIN q.parts |-> PartOf(w, q.parts[i]).len]
           lens == {len[i] : i \in DOMAIN len}
<1>1. \A i \in DOMAIN q.parts : len[i] \in Nat
  BY PartLenType DEF PartsOf, Range
<1>2. 1 \in DOMAIN q.parts /\ DOMAIN q.parts \subseteq Nat
  BY DEF QueryOK
<1>3. DOMAIN len = DOMAIN q.parts
  OBVIOUS
<1> HIDE DEF len
<1>4. lens \subseteq Nat /\ lens # {}
  BY <1>1, <1>2, <1>3
<1>5. PICK m \in lens : \A n \in lens : m <= n
  <2> HIDE DEF lens
  <2> QED BY <1>4, LeastExists
<1> DEFINE at == {i \in DOMAIN q.parts : len[i] = m}
<1>6. at \subseteq Nat /\ at # {}
  BY <1>2, <1>3, <1>5
<1>7. PICK i \in at : \A j \in at : i <= j
  <2> HIDE DEF at
  <2> QED BY <1>6, LeastExists
<1>8. \A j \in DOMAIN len : len[i] < len[j] \/ (len[i] = len[j] /\ i <= j)
  <2> SUFFICES ASSUME NEW j \in DOMAIN len
        PROVE  len[i] < len[j] \/ (len[i] = len[j] /\ i <= j)
    OBVIOUS
  <2>1. len[i] = m /\ m <= len[j] /\ m \in Nat /\ len[j] \in Nat
    BY <1>1, <1>3, <1>4, <1>5, <1>7
  <2> QED BY <1>3, <1>7, <2>1
<1>9. FirstSmallest(len) \in DOMAIN len
  BY <1>3, <1>7, <1>8 DEF FirstSmallest
<1> QED BY <1>3, <1>9 DEF Driver, len

\* Whichever part drives, its candidates are allocated and hold every row; when
\* it is the only part they are the rows.
LEMMA DrivenCandidates ==
  ASSUME NEW w, NEW q, NEW p \in PartsOf(q), StoresOK(w), QueryOK(q), Required(q.facet) = {}
  PROVE  /\ PartOf(w, p).candidates \subseteq Allocated(w)
         /\ \A e \in Allocated(w) :
               HasAll(w, PartRequires(q), e) => e \in PartOf(w, p).candidates
         /\ PartsOf(q) = {p} =>
               \A e \in PartOf(w, p).candidates : HasAll(w, PartRequires(q), e)
<1>1. CASE p.kind \in {"read", "mut"}
  <2>1. PartOf(w, p).candidates = StoreOf(w, p.type)
    BY <1>1 DEF PartOf, PartAt, ReadPart, MutPart
  <2>2. p.type \in PartRequires(q) /\ p.type \in Components
    BY <1>1 DEF PartRequires, QueryOK
  <2>3. PartsOf(q) = {p} => PartRequires(q) = {p.type}
    BY <1>1 DEF PartRequires
  <2> QED BY <2>1, <2>2, <2>3 DEF StoresOK, HasAll, Has, StoreOf
<1>2. CASE p.kind \notin {"read", "mut"}
  <2>1. PartOf(w, p).candidates = Allocated(w)
    <3>1. p.kind = "option" => PartOf(w, p).candidates = Allocated(w)
      BY DEF PartOf, PartAt, ReadPart, OptionalPart
    <3>2. p.kind = "related" => PartOf(w, p).candidates = Allocated(w)
      BY DEF PartOf, PartAt, RelatedPart
    <3>3. p.kind = "tracked" => PartOf(w, p).candidates = Allocated(w)
      <4> SUFFICES ASSUME p.kind = "tracked" PROVE PartOf(w, p).candidates = Allocated(w)
        OBVIOUS
      <4>1. PartOf(w, p).candidates = FacetRows(w, p.facet)
        BY DEF PartOf, PartAt, TrackedPart
      <4>2. Required(p.facet) = {}
        BY DEF QueryOK
      <4> QED BY <4>1, <4>2 DEF FacetRows
    <3> QED BY <1>2, <3>1, <3>2, <3>3 DEF QueryOK, PartKinds
  <2>2. PartsOf(q) = {p} => PartRequires(q) = {}
    BY <1>2 DEF PartRequires
  <2> QED BY <2>1, <2>2 DEF HasAll
<1> QED BY <1>1, <1>2

\* Smallest stores, masks and dense scans only speed enumeration up: for every
\* world with exact presence bits and every query, the rows are the allocated
\* entities that carry all required stores (QueryParam::rows).
THEOREM RowsAreDefined ==
  ASSUME NEW w, NEW q, StoresOK(w), QueryOK(q), IsFiniteSet(Entities)
  PROVE  Rows(w, q) = DefinedRows(w, q)
<1> DEFINE driven == Required(q.facet) = {} /\ ~q.bare
           candidates == IF driven THEN PartOf(w, q.parts[Driver(w, q)]).candidates
                         ELSE FacetRows(w, q.facet)
<1>0. Rows(w, q) = IF q.bare \/ (driven /\ Len(q.parts) = 1) THEN candidates
                   ELSE Retained(w, q, candidates)
  BY DEF Rows
<1>1. CASE q.bare
  <2>1. PartRequires(q) = {}
    BY <1>1 DEF QueryOK, PartRequires, PartsOf, Range
  <2>2. FacetRows(w, q.facet) = DefinedRows(w, q)
    BY <2>1, FacetRowsDefined DEF QueryOK, DefinedRows
  <2> QED BY <1>0, <1>1, <2>2
<1>2. CASE driven
  <2> DEFINE p == q.parts[Driver(w, q)]
  <2>1. Driver(w, q) \in DOMAIN q.parts /\ p \in PartsOf(q)
    BY <1>2, DriverIsPart DEF PartsOf, Range
  <2> HIDE DEF p
  <2>2. /\ PartOf(w, p).candidates \subseteq Allocated(w)
        /\ \A e \in Allocated(w) :
              HasAll(w, PartRequires(q), e) => e \in PartOf(w, p).candidates
        /\ PartsOf(q) = {p} =>
              \A e \in PartOf(w, p).candidates : HasAll(w, PartRequires(q), e)
    BY <1>2, <2>1, DrivenCandidates
  <2>3. DefinedRows(w, q) = {e \in Allocated(w) : HasAll(w, PartRequires(q), e)}
    BY <1>2 DEF DefinedRows
  <2>4. CASE Len(q.parts) = 1
    <3>1. DOMAIN q.parts = {1} /\ Driver(w, q) = 1
      BY <2>1, <2>4 DEF QueryOK
    <3>2. PartsOf(q) = {p}
      BY <3>1 DEF p, PartsOf, Range
    <3>3. Rows(w, q) = PartOf(w, p).candidates
      BY <1>0, <1>2, <2>4 DEF p
    <3> QED BY <2>2, <2>3, <3>2, <3>3
  <2>5. CASE Len(q.parts) # 1
    <3>1. Rows(w, q) = Retained(w, q, PartOf(w, p).candidates)
      BY <1>0, <1>2, <2>5 DEF p
    <3>2. Rows(w, q) = {e \in PartOf(w, p).candidates : HasAll(w, PartRequires(q), e)}
      BY <3>1, RetainedDefined
    <3> QED BY <2>2, <2>3, <3>2
  <2> QED BY <2>4, <2>5
<1>3. CASE ~q.bare /\ ~driven
  <2>1. Rows(w, q) = Retained(w, q, FacetRows(w, q.facet))
    BY <1>0, <1>3
  <2>2. FacetRows(w, q.facet) = {e \in Allocated(w) : HasAll(w, Required(q.facet), e)}
    BY FacetRowsDefined DEF QueryOK
  <2>3. Retained(w, q, FacetRows(w, q.facet))
          = {e \in FacetRows(w, q.facet) : HasAll(w, PartRequires(q), e)}
    BY RetainedDefined
  <2> QED BY <2>1, <2>2, <2>3 DEF DefinedRows, HasAll
<1> QED BY <1>1, <1>2, <1>3

\* Hints and prepared candidates narrow the rows and change nothing else: a
\* delta plan meets exactly the rows among its candidates (rows_hinted and
\* prepared::rows).  A bare handle is left out: it takes its hint as it is
\* (queries_bare_facet).
THEOREM CandidatesNarrow ==
  ASSUME NEW w, NEW q, NEW C \in SUBSET Allocated(w), StoresOK(w), QueryOK(q), ~q.bare
  PROVE  /\ RowsHinted(w, q, C) = C \cap DefinedRows(w, q)
         /\ PreparedRows(w, q, C) = C \cap DefinedRows(w, q)
<1> DEFINE required == Required(q.facet) \cup PartRequires(q)
<1>1. RowsHinted(w, q, C) = C \cap DefinedRows(w, q)
  <2>1. RowsHinted(w, q, C) = {e \in {d \in C : HasAll(w, Required(q.facet), d)} :
                                  HasAll(w, PartRequires(q), e)}
    BY RetainedDefined DEF RowsHinted
  <2> QED BY <2>1 DEF DefinedRows, HasAll
<1>2. CASE Masked(required)
  <2>1. PreparedRows(w, q, C) = {e \in C : MaskMatches(w, required, e)}
    BY <1>2 DEF PreparedRows
  <2>2. \A e : MaskMatches(w, required, e) <=> HasAll(w, required, e)
    BY <1>2, MaskIsProbe DEF StoresOK
  <2> QED BY <1>1, <2>1, <2>2 DEF DefinedRows
<1>3. CASE ~Masked(required)
  <2>1. PreparedRows(w, q, C) =
          {e \in C : HasAll(w, Required(q.facet), e) /\ \A p \in PartsOf(q) : PartAt(w, p, e).matches}
    BY <1>3 DEF PreparedRows
  <2>2. PreparedRows(w, q, C) =
          {e \in C : HasAll(w, Required(q.facet), e) /\ HasAll(w, PartRequires(q), e)}
    BY <2>1, PartsMatch
  <2> QED BY <1>1, <2>2 DEF DefinedRows, HasAll
<1> QED BY <1>1, <1>2, <1>3

\* Driving a filter from its stores changes no row: filtered_rows gives the rows
\* of the query that satisfy every atom, whether it scans or starts from the
\* candidates of With and Where<Eq>.
THEOREM FilteredRowsDefined ==
  ASSUME NEW w, NEW p, StoresOK(w), QueryOK(p), ~p.bare, IsFiniteSet(Entities),
         \A a \in p.filter : a.type \in Components,
         \A c \in Components : StoreOf(w, c) \subseteq Entities
  PROVE  FilteredRows(w, p) = {e \in DefinedRows(w, p) : FilterMatches(w, p.filter, e)}
<1> DEFINE f == p.filter
<1>1. CASE Drivers(f) = {}
  BY <1>1, RowsAreDefined DEF FilteredRows
<1>2. CASE Drivers(f) # {}
  <2>1. PICK a \in Drivers(f) : TRUE
    BY <1>2
  <2>2. a \in f /\ a.type \in Components
    BY <2>1 DEF Drivers, Atoms
  <2>3. FilterCandidates(w, f) \subseteq Allocated(w)
    BY <2>1, <2>2 DEF FilterCandidates, Has, StoresOK, StoreOf
  <2>4. FilteredRows(w, p)
          = {e \in FilterCandidates(w, f) \cap DefinedRows(w, p) : FilterMatches(w, f, e)}
    BY <1>2, <2>3, CandidatesNarrow DEF FilteredRows
  <2>5. ASSUME NEW e \in DefinedRows(w, p), FilterMatches(w, f, e)
        PROVE  e \in FilterCandidates(w, f)
    <3>1. \A b \in Drivers(f) : Has(w, b.type, e)
      BY <2>5 DEF FilterMatches, AtomMatches, Drivers, Atoms
    <3>2. e \in Entities
      BY <2>1, <2>2, <3>1 DEF Has, StoreOf
    <3> QED BY <3>1, <3>2 DEF FilterCandidates
  <2> QED BY <2>4, <2>5
<1> QED BY <1>1, <1>2

-----------------------------------------------------------------------------
(* The world that the plans and the other actors share *)

\* The bowl before the first plan is in order: indexes agree with the stores and
\* revisions with the watermarks, and only allocated entities are named.
Ids == Allocated(InitWorld)
InitOK ==
    /\ IsFiniteSet(Components) /\ IsFiniteSet(Entities) /\ Ids \subseteq Entities
    /\ Sound(InitWorld, {}) /\ Steady(InitWorld, Ids)

\* What other actors write: the engine alone writes inverses, an in-place write
\* leaves edges alone, and entities are allocated before they are named.
WritesOK ==
    \A x \in Writes :
        /\ x.op \in {"insert", "remove", "update", "despawn"}
        /\ x.op = "insert" => /\ x.at \in Ids /\ x.type \in Components \ Inverses
                              /\ x.type \in Edges => x.value \in Ids
                              /\ x.type \in Hashed => x.value # None
        /\ x.op = "remove" => x.type \in Components \ Inverses
        /\ x.op = "update" => /\ x.type \in Components \ (Edges \cup Inverses)
                              /\ x.type \in Hashed => x.value # None

\* A world the bowl reaches from its first.
Ordered(w) == Sound(w, {}) /\ Steady(w, Ids) /\ Grows(InitWorld, w)

\* Each write of another actor is a step from one such world to a later one.
LEMMA PerformGrows ==
  ASSUME InitOK, WritesOK, NEW x \in Writes, NEW w, Ordered(w),
         x.op = "update" => Has(w, x.type, x.at)
  PROVE  Ordered(Perform(w, x)) /\ Grows(w, Perform(w, x))
<1>0. Sound(w, {}) /\ Steady(w, Ids) /\ Steady(InitWorld, Ids) /\ Grows(InitWorld, w)
  BY DEF Ordered, InitOK
<1>1. ASSUME NEW n, Sound(n, {}), Steady(n, Ids), Grows(w, n)
      PROVE  Ordered(n) /\ Grows(w, n)
  BY <1>0, <1>1, GrowsOn DEF Ordered
<1>2. CASE x.op = "insert"
  <2>1. Perform(w, x) = Insert(w, x.at, x.type, x.value, None)
    BY <1>2 DEF Perform
  <2>2. /\ x.at \in Ids /\ x.type \in Components \ Inverses
        /\ x.type \in Edges => x.value \in Ids
        /\ x.type \in Hashed => x.value # None
    BY <1>2 DEF WritesOK
  <2>3. Sound(Insert(w, x.at, x.type, x.value, None), {})
    BY <1>0, <2>2, InsertSound
  <2>4. LET n == Insert(w, x.at, x.type, x.value, None) IN Steady(n, Ids) /\ Grows(w, n)
    BY <1>0, <2>2, InsertGrows
  <2> QED BY <1>1, <2>1, <2>3, <2>4
<1>3. CASE x.op = "remove"
  <2>1. Perform(w, x) = RemoveComponent(w, x.type, x.at, None)
    BY <1>3 DEF Perform
  <2>2. x.type \in Components \ Inverses
    BY <1>3 DEF WritesOK
  <2>3. Sound(RemoveComponent(w, x.type, x.at, None), {})
    BY <1>0, <2>2, RemoveComponentSound
  <2>4. LET n == RemoveComponent(w, x.type, x.at, None) IN Steady(n, Ids) /\ Grows(w, n)
    BY <1>0, <2>2, RemoveComponentGrows
  <2> QED BY <1>1, <2>1, <2>3, <2>4
<1>4. CASE x.op = "despawn"
  <2>1. Perform(w, x) = RemoveEntity(w, x.at)
    BY <1>4 DEF Perform
  <2>2. Sound(RemoveEntity(w, x.at), {})
    BY <1>0, RemoveEntitySound DEF InitOK
  <2>3. LET n == RemoveEntity(w, x.at) IN Steady(n, Ids) /\ Grows(w, n)
    BY <1>0, RemoveEntityGrows DEF InitOK
  <2> QED BY <1>1, <2>1, <2>2, <2>3
<1>5. CASE x.op = "update"
  <2>1. Perform(w, x) = UpdateComponentLive(w, x.type, x.at, x.value)
    BY <1>5 DEF Perform
  <2>2. x.type \in Components \ (Edges \cup Inverses) /\ (x.type \in Hashed => x.value # None)
    BY <1>5 DEF WritesOK
  <2>3. Sound(UpdateComponentLive(w, x.type, x.at, x.value), {})
    BY <1>0, <2>2, UpdateSound
  <2>4. LET n == UpdateComponentLive(w, x.type, x.at, x.value) IN Steady(n, Ids) /\ Grows(w, n)
    BY <1>0, <1>5, <2>2, UpdateGrows
  <2> QED BY <1>1, <2>1, <2>3, <2>4
<1> QED BY <1>2, <1>3, <1>4, <1>5 DEF WritesOK

\* What enumeration relies on holds of them.
LEMMA OrderedStores ==
  ASSUME InitOK, NEW w, Ordered(w)
  PROVE  /\ Allocated(w) = Ids /\ Ids \subseteq Entities /\ StoresOK(w) /\ Linked(w) /\ IsWorld(w)
         /\ RevisionsBounded(w) /\ FingerprintsExact(w)
         /\ \A c \in Components : StoreOf(w, c) \subseteq Ids
         /\ \A c \in Components : \A e \in DOMAIN w.entries[c] :
               /\ w.entries[c][e].fingerprint = Fingerprint(c, w.entries[c][e].value)
               /\ c \in Edges => w.entries[c][e].value \in Ids
               /\ c \in Hashed \ Inverses => w.entries[c][e].value # None
<1>1. /\ PresenceExact(w) /\ FingerprintsExact(w) /\ RevisionsBounded(w) /\ Linked(w) /\ IsWorld(w)
      /\ Finite(w)
  BY DEF Ordered, Sound, Core, Exact, Indexed
<1>2. Allocated(w) = Ids
  BY DEF Ordered, Grows, Allocated, Ids
<1>3. \A c \in Components : \A e \in DOMAIN w.entries[c] :
         /\ e \in Ids
         /\ w.entries[c][e].fingerprint = Fingerprint(c, w.entries[c][e].value)
         /\ c \in Edges => w.entries[c][e].value \in Ids
         /\ c \in Hashed \ Inverses => w.entries[c][e].value # None
  BY DEF Ordered, Steady
<1>4. \A c \in Components : StoreOf(w, c) \subseteq Ids
  BY <1>3 DEF StoreOf
<1>5. Ids \subseteq Entities /\ IsFiniteSet(Entities)
  BY DEF InitOK
<1>6. \A c \in Components : IsFiniteSet(StoreOf(w, c))
  BY <1>4, <1>5, FS_Subset
<1> QED BY <1>1, <1>2, <1>3, <1>4, <1>5, <1>6 DEF StoresOK

\* The invariant.
LEMMA WorldsOrdered ==
  ASSUME InitOK, WritesOK
  PROVE  Spec => []Ordered(world)
<1>1. Init => Ordered(world)
  BY GrowsSelf DEF Init, Ordered, InitOK
<1>2. Ordered(world) /\ [Next]_vars => Ordered(world)'
  <2> SUFFICES ASSUME Ordered(world), [Next]_vars PROVE Ordered(world')
    BY DEF Ordered
  <2>1. CASE Write
    <3>1. PICK x \in Writes : /\ x.op = "update" => Has(world, x.type, x.at)
                              /\ world' \in {Perform(world, x)} \ {world}
      BY <2>1 DEF Write
    <3> QED BY <3>1, PerformGrows
  <2>2. CASE UNCHANGED world
    BY <2>2
  <2> QED BY <2>1, <2>2 DEF Next, Plan, vars
<1> QED BY <1>1, <1>2, PTL DEF Spec

-----------------------------------------------------------------------------
(* Tuples of rows *)

\* A tuple of n rows, and its first n.
Tuple(s, n) == s = [j \in 1 .. n |-> s[j]]
First(s, n) == [j \in 1 .. n |-> s[j]]

\* What the parameter at i takes its row from, given the rows picked before it.
RowsFor(w, params, rows, i, picked) ==
    IF PairExpandable(params[i]) THEN Partners(w, params, i, picked) ELSE rows[i]
Chosen(w, params, rows, s, n) ==
    Tuple(s, n) /\ \A i \in 1 .. n : s[i] \in RowsFor(w, params, rows, i, First(s, i - 1))

ProductStep(p, i, acc) ==
    UNION {{Append(picked, e) : e \in RowsFor(p.w, p.params, p.rows, p.order[i], picked)} : picked \in acc}
ProductInv(p, acc, done) ==
    \A n \in Nat : done = 1 .. n => \A s : s \in acc <=> Chosen(p.w, p.params, p.rows, s, n)
Picking == INSTANCE FoldFacts WITH op <- ProductStep, pick <- LastOf, Inv <- ProductInv

\* One more row.
LEMMA ChosenOneMore ==
  ASSUME NEW w, NEW params, NEW rows, NEW n \in Nat, NEW s
  PROVE  Chosen(w, params, rows, s, n + 1) <=>
            \E t, e : /\ Chosen(w, params, rows, t, n) /\ s = Append(t, e)
                      /\ e \in RowsFor(w, params, rows, n + 1, t)
<1>1. ASSUME Chosen(w, params, rows, s, n + 1)
      PROVE  \E t, e : /\ Chosen(w, params, rows, t, n) /\ s = Append(t, e)
                       /\ e \in RowsFor(w, params, rows, n + 1, t)
  <2> DEFINE t == First(s, n)
  <2>1. t = [j \in 1 .. n |-> s[j]] /\ s = [j \in 1 .. n + 1 |-> s[j]]
    BY <1>1 DEF First, Chosen, Tuple
  <2> HIDE DEF t
  <2>2. Tuple(t, n) /\ \A j \in 1 .. n : t[j] = s[j]
    BY <2>1 DEF Tuple
  <2>3. \A i \in 1 .. n : First(t, i - 1) = First(s, i - 1)
    BY <2>2 DEF First
  <2>4. Chosen(w, params, rows, t, n)
    <3>1. \A i \in 1 .. n : s[i] \in RowsFor(w, params, rows, i, First(s, i - 1))
      BY <1>1 DEF Chosen
    <3> QED BY <2>2, <2>3, <3>1 DEF Chosen
  <2>5. s[n + 1] \in RowsFor(w, params, rows, n + 1, First(s, (n + 1) - 1))
    BY <1>1 DEF Chosen
  <2>6. (n + 1) - 1 = n
    OBVIOUS
  <2>7. s = Append(t, s[n + 1])
    BY <2>1
  <2> QED BY <2>4, <2>5, <2>6, <2>7 DEF t
<1>2. ASSUME NEW t, NEW e, Chosen(w, params, rows, t, n), s = Append(t, e),
             e \in RowsFor(w, params, rows, n + 1, t)
      PROVE  Chosen(w, params, rows, s, n + 1)
  <2>1. t = [j \in 1 .. n |-> t[j]]
    BY <1>2 DEF Chosen, Tuple
  <2>2. s = [j \in 1 .. n + 1 |-> IF j = n + 1 THEN e ELSE t[j]]
    BY <1>2, <2>1
  <2>3. Tuple(s, n + 1) /\ s[n + 1] = e /\ \A j \in 1 .. n : s[j] = t[j]
    BY <2>2 DEF Tuple
  <2>4. \A i \in 1 .. n : First(s, i - 1) = First(t, i - 1)
    BY <2>3 DEF First
  <2>5. First(s, (n + 1) - 1) = t
    BY <2>1, <2>3 DEF First
  <2>6. ASSUME NEW i \in 1 .. n + 1 PROVE s[i] \in RowsFor(w, params, rows, i, First(s, i - 1))
    <3>1. CASE i = n + 1
      BY <1>2, <2>3, <2>5, <3>1
    <3>2. CASE i \in 1 .. n
      <4>1. t[i] \in RowsFor(w, params, rows, i, First(t, i - 1))
        BY <1>2, <3>2 DEF Chosen
      <4> QED BY <2>3, <2>4, <3>2, <4>1
    <3> QED BY <3>1, <3>2
  <2> QED BY <2>3, <2>6 DEF Chosen
<1> QED BY <1>1, <1>2

\* for_each_state! enumerates the tuples that choose their rows one by one.
LEMMA ProductMembers ==
  ASSUME NEW w, NEW params, NEW rows, IsList(params), NEW s
  PROVE  s \in Product(w, params, rows) <=> Chosen(w, params, rows, s, Len(params))
<1> DEFINE order == [i \in DOMAIN params |-> i]
           p == [w |-> w, params |-> params, rows |-> rows, order |-> order]
           all == Product(w, params, rows)
<1>0. p.w = w /\ p.params = params /\ p.rows = rows /\ p.order = order
  OBVIOUS
<1>1. Len(params) \in Nat /\ DOMAIN params = 1 .. Len(params)
  BY DEF IsList
<1>2. DOMAIN order = DOMAIN params /\ IsFiniteSet(DOMAIN params)
      /\ \A S \in SUBSET DOMAIN params : S # {} => LastOf(S) \in S
  BY Positions
<1>3. all = Picking!Fold(p, {<<>>}, DOMAIN order)
  BY SMT DEF Product, FoldLeft, MapThenFoldSet, Picking!Fold, ProductStep, RowsFor,
     LastOf
<1>7. \A i \in DOMAIN params : order[i] = i
  OBVIOUS
<1> HIDE DEF p, all, order
<1>4. ProductInv(p, {<<>>}, {})
  <2> SUFFICES ASSUME NEW n \in Nat, {} = 1 .. n, NEW t
        PROVE  t \in {<<>>} <=> Chosen(w, params, rows, t, n)
    BY <1>0 DEF ProductInv
  <2>1. n = 0
    OBVIOUS
  <2>2. Tuple(t, 0) <=> t = <<>>
    BY DEF Tuple
  <2> QED BY <2>1, <2>2 DEF Chosen
<1>5. ASSUME NEW v, NEW S \in SUBSET DOMAIN params, S # {}, ProductInv(p, v, S \ {LastOf(S)})
      PROVE  ProductInv(p, ProductStep(p, LastOf(S), v), S)
  <2> SUFFICES ASSUME NEW n \in Nat, S = 1 .. n, NEW t
        PROVE  t \in ProductStep(p, LastOf(S), v) <=> Chosen(w, params, rows, t, n)
    BY <1>0 DEF ProductInv
  <2>1. n # 0 /\ n - 1 \in Nat /\ (n - 1) + 1 = n
    BY <1>5
  <2>2. LastOf(S) = n
    <3>1. n \in S /\ \A y \in S : n >= y
      BY <2>1
    <3>2. LastOf(S) \in S /\ \A y \in S : LastOf(S) >= y
      BY <3>1 DEF LastOf, Max
    <3> QED BY <3>1, <3>2
  <2>3. S \ {LastOf(S)} = 1 .. (n - 1)
    BY <2>1, <2>2
  <2>4. \A u : u \in v <=> Chosen(w, params, rows, u, n - 1)
    BY <1>0, <1>5, <2>1, <2>3 DEF ProductInv
  <2>5. t \in ProductStep(p, n, v) <=>
           \E u, e : u \in v /\ t = Append(u, e) /\ e \in RowsFor(w, params, rows, n, u)
    BY <1>0, <1>1, <1>5, <1>7, <2>1, <2>2 DEF ProductStep
  <2>6. Chosen(w, params, rows, t, (n - 1) + 1) <=>
           \E u, e : /\ Chosen(w, params, rows, u, n - 1) /\ t = Append(u, e)
                    /\ e \in RowsFor(w, params, rows, (n - 1) + 1, u)
    BY <2>1, ChosenOneMore
  <2> QED BY <2>1, <2>2, <2>4, <2>5, <2>6, Zenon
<1>6. ProductInv(p, all, DOMAIN params)
  BY <1>2, <1>3, <1>4, <1>5, Picking!FoldInv DEF Picking!IsFiniteSet, IsFiniteSet
<1> QED BY <1>0, <1>1, <1>6, Zenon DEF ProductInv, all

-----------------------------------------------------------------------------
(* Hints *)

\* The systems whose rows their parameters define.  Views and commands join
\* nothing, and what the facet of a bare handle requires its filter asks for
\* again: a bare handle takes its candidates as they are (queries_bare_facet).
AtomKinds == {"with", "eq", "without", "in"}
ParamOK(p) ==
    /\ p.kind \in ParamKinds
    /\ \A a \in p.filter : a.kind \in AtomKinds /\ a.type \in Components
    /\ p.kind \notin {"query", "outer"} => EqKeys(p.filter) \cup InKeys(p.filter) = {}
    /\ p.kind \notin {"commands", "meta"} =>
          /\ QueryOK(p)
          /\ p.bare => Required(p.facet) \subseteq {a.type : a \in Drivers(p.filter)}
SystemOK(params) == IsList(params) /\ \A i \in DOMAIN params : ParamOK(params[i])
SystemsOK == \A s \in DOMAIN Plans : SystemOK(Plans[s])

\* What a row satisfies, the drivers of its filter require.
LEMMA MatchesDrive ==
  ASSUME NEW w, NEW f, NEW e, FilterMatches(w, f, e)
  PROVE  \A a \in Drivers(f) : Has(w, a.type, e)
BY DEF FilterMatches, AtomMatches, Drivers, Atoms

\* filtered_rows gives the rows of the definition, for bare handles too.
LEMMA RowsBelong ==
  ASSUME InitOK, NEW w, Ordered(w), NEW p, ParamOK(p), p.kind \notin {"commands", "meta"}
  PROVE  FilteredRows(w, p) = {e \in Ids : Belongs(w, p, e)}
<1> DEFINE f == p.filter
<1>0. /\ Allocated(w) = Ids /\ Ids \subseteq Entities /\ StoresOK(w)
      /\ \A c \in Components : StoreOf(w, c) \subseteq Entities
      /\ IsFiniteSet(Entities)
  BY OrderedStores DEF InitOK
<1>1. /\ QueryOK(p) /\ \A a \in f : a.type \in Components
      /\ p.bare => Required(p.facet) \subseteq {a.type : a \in Drivers(f)}
  BY DEF ParamOK
<1>2. DefinedRows(w, p) = {e \in Ids : HasAll(w, Required(p.facet) \cup PartRequires(p), e)}
  BY <1>0 DEF DefinedRows
<1>3. FilteredRows(w, p) = {e \in DefinedRows(w, p) : FilterMatches(w, f, e)}
  <2>1. CASE ~p.bare
    BY <1>0, <1>1, <2>1, FilteredRowsDefined
  <2>2. CASE Drivers(f) = {}
    BY <1>0, <1>1, <2>2, RowsAreDefined DEF FilteredRows
  <2>3. CASE p.bare /\ Drivers(f) # {}
    <3>1. FilteredRows(w, p) = {e \in FilterCandidates(w, f) : FilterMatches(w, f, e)}
      BY <2>3 DEF FilteredRows, RowsHinted
    <3>2. PartRequires(p) = {}
      BY <1>1, <2>3 DEF QueryOK, PartRequires, PartsOf, Range
    <3>3. ASSUME NEW e \in FilterCandidates(w, f) PROVE e \in DefinedRows(w, p)
      <4>1. \A a \in Drivers(f) : Has(w, a.type, e)
        BY DEF FilterCandidates
      <4>2. PICK a \in Drivers(f) : TRUE
        BY <2>3
      <4>3. a.type \in Components
        BY <1>1, <4>2 DEF Drivers, Atoms
      <4>4. e \in Allocated(w)
        BY <1>0, <4>1, <4>2, <4>3 DEF StoresOK, StoreOf, Has
      <4>5. HasAll(w, Required(p.facet), e)
        BY <1>1, <2>3, <4>1 DEF HasAll
      <4> QED BY <3>2, <4>4, <4>5 DEF DefinedRows
    <3>4. ASSUME NEW e \in DefinedRows(w, p), FilterMatches(w, f, e)
          PROVE e \in FilterCandidates(w, f)
      <4>1. e \in Entities
        BY <1>0, <1>2
      <4> QED BY <3>4, <4>1, MatchesDrive DEF FilterCandidates
    <3> QED BY <3>1, <3>3, <3>4
  <2> QED BY <2>1, <2>2, <2>3
<1> QED BY <1>0, <1>2, <1>3 DEF Belongs

\* A hint only narrows the rows of a parameter.
LEMMA HintNarrows ==
  ASSUME InitOK, NEW w, Ordered(w), NEW p, ParamOK(p), p.kind \notin {"commands", "meta"},
         NEW C \in SUBSET Ids
  PROVE  FilteredFrom(w, p, C) = C \cap FilteredRows(w, p)
<1> DEFINE f == p.filter
<1>0. Allocated(w) = Ids /\ StoresOK(w)
  BY OrderedStores
<1>1. /\ QueryOK(p)
      /\ p.bare => Required(p.facet) \subseteq {a.type : a \in Drivers(f)}
  BY DEF ParamOK
<1>2. FilteredRows(w, p) = {e \in Ids : Belongs(w, p, e)}
  BY RowsBelong
<1>3. CASE ~p.bare
  <2>1. RowsHinted(w, p, C) = C \cap DefinedRows(w, p)
    BY <1>0, <1>1, <1>3, CandidatesNarrow
  <2> QED BY <1>0, <1>2, <2>1 DEF FilteredFrom, DefinedRows, Belongs
<1>4. CASE p.bare
  <2>1. RowsHinted(w, p, C) = C
    BY <1>4 DEF RowsHinted
  <2>2. PartRequires(p) = {}
    BY <1>1, <1>4 DEF QueryOK, PartRequires, PartsOf, Range
  <2>3. ASSUME NEW e \in C, FilterMatches(w, f, e) PROVE Belongs(w, p, e)
    BY <1>0, <1>1, <1>4, <2>2, <2>3, MatchesDrive DEF Belongs, HasAll
  <2> QED BY <1>2, <2>1, <2>3 DEF FilteredFrom, Belongs
<1> QED BY <1>3, <1>4

\* The targets of an edge and the sharers of a key are allocated.
LEMMA ProvidersAllocated ==
  ASSUME InitOK, NEW w, Ordered(w)
  PROVE  /\ \A c, e : Targets(w, c, e) \subseteq Ids
         /\ \A key, fp : Bucket(w, key, fp) \subseteq Ids
<1>0. /\ FingerprintsExact(w)
      /\ \A c \in Components : StoreOf(w, c) \subseteq Ids
      /\ \A c \in Components : \A e \in DOMAIN w.entries[c] :
            c \in Edges => w.entries[c][e].value \in Ids
  BY OrderedStores
<1>1. ASSUME NEW c, NEW e PROVE Targets(w, c, e) \subseteq Ids
  <2>1. CASE c \notin Edges
    BY <2>1 DEF Targets, Edges
  <2>2. CASE c \in Edges
    <3>1. c \in Components
      BY <2>2, RelationTypes
    <3> QED BY <1>0, <2>2, <3>1 DEF Targets, Edges, Old, Has, Entry
  <2> QED BY <2>1, <2>2
<1>2. ASSUME NEW key, NEW fp, NEW e \in Bucket(w, key, fp) PROVE e \in Ids
  <2>1. <<key, fp, e>> \in w.index
    BY DEF Bucket
  <2>2. PICK c \in Components :
           \E d \in DOMAIN w.entries[c] : <<key, fp, e>> \in Keyed(c, Entry(w, c, d).fingerprint, d)
    BY <1>0, <2>1 DEF FingerprintsExact
  <2>3. e \in DOMAIN w.entries[c]
    BY <2>2 DEF Keyed
  <2> QED BY <1>0, <2>3 DEF StoreOf
<1> QED BY <1>1, <1>2

\* A hint and the providers it pairs with are allocated.
LEMMA ExpandedAllocated ==
  ASSUME InitOK, NEW w, Ordered(w), NEW params, NEW H \in SUBSET Ids, SystemOK(params)
  PROVE  Expanded(w, params, H) \subseteq Ids
<1>1. ASSUME NEW i \in DOMAIN params, params[i].kind = "query", NEW e \in H,
             NEW r \in PartsOf(params[i])
      PROVE  PartAt(w, r, e).providers \subseteq Ids
  <2>1. r.kind \in PartKinds
    BY <1>1 DEF SystemOK, ParamOK, QueryOK
  <2>2. CASE r.kind = "related"
    <3>1. PartAt(w, r, e).providers = Targets(w, EdgeOf(r.type), e)
      BY <2>2 DEF PartAt, RelatedPart
    <3> QED BY <3>1, ProvidersAllocated
  <2>3. CASE r.kind # "related"
    <3>1. PartAt(w, r, e).providers = {}
      BY <2>1, <2>3 DEF PartKinds, PartAt, ReadPart, OptionalPart, MutPart, TrackedPart
    <3> QED BY <3>1
  <2> QED BY <2>2, <2>3
<1>2. ASSUME NEW p, NEW e, NEW x \in FilterProviders(w, p.filter, e) PROVE x \in Ids
  <2>1. CASE \E a : x \in Bucket(w, a.type, Entry(w, a.type, e).fingerprint)
    BY <2>1, ProvidersAllocated
  <2>2. CASE \E a : x \in Targets(w, EdgeOf(a.type), e)
    BY <2>2, ProvidersAllocated
  <2> QED BY <2>1, <2>2, Zenon DEF FilterProviders
<1>3. ASSUME NEW i \in DOMAIN params, params[i].kind = "query"
      PROVE  ParamProviders(w, params[i], H) \subseteq Ids
  <2> SUFFICES ASSUME NEW x \in ParamProviders(w, params[i], H) PROVE x \in Ids
    BY Zenon
  <2>0. PICK e \in H : x \in (UNION {PartAt(w, r, e).providers : r \in PartsOf(params[i])})
                              \cup FilterProviders(w, params[i].filter, e)
    BY Zenon DEF ParamProviders
  <2>1. CASE x \in FilterProviders(w, params[i].filter, e)
    BY <1>2, <2>1, Zenon
  <2>2. CASE \E r \in PartsOf(params[i]) : x \in PartAt(w, r, e).providers
    BY <1>1, <1>3, <2>2, Zenon
  <2> QED BY <2>0, <2>1, <2>2, Zenon
<1>4. ASSUME NEW x \in Expanded(w, params, H) PROVE x \in Ids
  <2>1. CASE x \in H
    BY <2>1
  <2>2. CASE x \notin H
    <3>1. PICK i \in {j \in DOMAIN params : params[j].kind = "query"} :
             x \in ParamProviders(w, params[i], H)
      BY <2>2, Zenon DEF Expanded
    <3> QED BY <1>3, <3>1
  <2> QED BY <2>1, <2>2
<1> QED BY <1>4, Zenon

\* The rows written since the cursor are allocated.
LEMMA DirtyAllocated ==
  ASSUME Ordered(world), cursor.pos \in Nat
  PROVE  Dirty \subseteq Ids
<1>1. world.log \in Seq(Components \X Ids)
  BY DEF Ordered, Steady
<1> SUFFICES ASSUME NEW y \in Range(SubSeq(world.log, cursor.pos + 1, Len(world.log)))
      PROVE  y[2] \in Ids
  BY DEF Dirty
<1> DEFINE new == SubSeq(world.log, cursor.pos + 1, Len(world.log))
<1>2. new \in Seq(Components \X Ids)
  <2>1. Len(world.log) \in Nat /\ cursor.pos + 1 >= 1
    BY <1>1
  <2> QED BY <1>1, <2>1
<1> HIDE DEF new
<1>3. PICK i \in DOMAIN new : y = new[i]
  BY DEF Range, new
<1>4. y \in Components \X Ids
  BY <1>2, <1>3
<1> QED BY <1>4, Zenon

\* Fewer rows, fewer tuples.
LEMMA ProductNarrows ==
  ASSUME NEW w, NEW params, NEW few, NEW many, IsList(params),
         \A i \in DOMAIN params : few[i] \subseteq many[i]
  PROVE  Product(w, params, few) \subseteq Product(w, params, many)
<1> SUFFICES ASSUME NEW s \in Product(w, params, few) PROVE s \in Product(w, params, many)
  OBVIOUS
<1>1. Tuple(s, Len(params)) /\ \A i \in 1 .. Len(params) :
         s[i] \in RowsFor(w, params, few, i, First(s, i - 1))
  BY ProductMembers DEF Chosen
<1>2. DOMAIN params = 1 .. Len(params)
  BY DEF IsList
<1>3. \A i \in 1 .. Len(params) : s[i] \in RowsFor(w, params, many, i, First(s, i - 1))
  BY <1>1, <1>2 DEF RowsFor
<1>4. Chosen(w, params, many, s, Len(params))
  BY <1>1, <1>3 DEF Chosen
<1> QED BY <1>4, ProductMembers

\* Only a query joins, and by one key.
LEMMA PairJoins ==
  ASSUME NEW p, PairExpandable(p)
  PROVE  p.kind = "query" /\ EqKeys(p.filter) \cup InKeys(p.filter) # {}
<1>1. Cardinality({}) = 0
  BY FS_EmptySet
<1>2. CASE EqKeys(p.filter) = {} /\ InKeys(p.filter) = {}
  BY <1>1, <1>2 DEF PairExpandable
<1> QED BY <1>2 DEF PairExpandable

\* A system that can be planned from its driver joins only by pairs.
LEMMA DriverShapes ==
  ASSUME NEW params, SystemOK(params), DeltaShape(params) = "driver", NEW i \in DOMAIN params
  PROVE  /\ ParamShape(params[i]) \in {"inert", "pair", "driver"}
         /\ EqKeys(params[i].filter) \cup InKeys(params[i].filter) # {} => PairExpandable(params[i])
         /\ ParamShape(params[i]) = "driver" => params[i].kind = "query" /\ ~PairExpandable(params[i])
<1> DEFINE p == params[i]
<1>0. PairExpandable(p) => p.kind = "query" /\ EqKeys(p.filter) \cup InKeys(p.filter) # {}
  BY PairJoins
<1>1. ParamShape(p) # "opaque"
  BY DEF DeltaShape
<1>2. p.kind \in ParamKinds
     /\ (p.kind \notin {"query", "outer"} => EqKeys(p.filter) \cup InKeys(p.filter) = {})
  BY DEF SystemOK, ParamOK
<1>6. ParamShape(p) =
         CASE p.kind \in {"view", "commands"} -> "inert"
           [] p.kind \in {"outer", "trackedview", "meta"} -> "opaque"
           [] PairExpandable(p) -> "pair"
           [] p.kind = "query" /\ EqKeys(p.filter) \cup InKeys(p.filter) = {} -> "driver"
           [] OTHER -> "opaque"
  BY DEF ParamShape
<1> HIDE DEF p
<1>3. CASE p.kind \in {"view", "commands"}
  <2>1. ParamShape(p) = "inert"
    BY <1>0, <1>2, <1>3, <1>6
  <2> QED BY <1>0, <1>2, <1>3, <2>1 DEF p
<1>4. p.kind \notin {"outer", "trackedview", "meta"}
  BY <1>0, <1>1, <1>6
<1>5. CASE p.kind = "query"
  <2>1. ParamShape(p) = IF PairExpandable(p) THEN "pair"
                        ELSE IF EqKeys(p.filter) \cup InKeys(p.filter) = {} THEN "driver" ELSE "opaque"
    BY <1>0, <1>5 DEF ParamShape
  <2> QED BY <1>0, <1>1, <1>5, <2>1 DEF p
<1> QED BY <1>2, <1>3, <1>4, <1>5 DEF ParamKinds, p

\* Planning from a hint finds states of the system only.
LEMMA HintedNarrows ==
  ASSUME InitOK, NEW w, Ordered(w), NEW params, SystemOK(params), DeltaShape(params) = "driver",
         NEW H \in SUBSET Ids
  PROVE  StatesHinted(w, params, H) \subseteq States(w, params)
<1> DEFINE hint == Expanded(w, params, H)
           large == LargeDrivers(w, params)
           all == [i \in DOMAIN params |-> ParamStates(w, params[i])]
           few == [i \in DOMAIN params |->
                     IF i \in large THEN FilteredFrom(w, params[i], hint) ELSE ParamStates(w, params[i])]
<1>1. hint \subseteq Ids
  BY ExpandedAllocated
<1>2. States(w, params) = Product(w, params, all)
  BY DriverShapes DEF States
<1>3. StatesHinted(w, params, H) \in {States(w, params), Product(w, params, few)}
  BY DEF StatesHinted, Hinted
<1> HIDE DEF hint
<1>4. ASSUME NEW i \in DOMAIN params, i \in large
      PROVE FilteredFrom(w, params[i], hint) \subseteq ParamStates(w, params[i])
  <2>1. params[i].kind = "query"
    BY <1>4, DriverShapes DEF LargeDrivers, DriversOf
  <2>2. ParamOK(params[i])
    BY DEF SystemOK
  <2>3. FilteredFrom(w, params[i], hint) \subseteq FilteredRows(w, params[i])
    BY <1>1, <2>1, <2>2, HintNarrows
  <2> QED BY <2>1, <2>3 DEF ParamStates
<1> HIDE DEF large
<1>5. \A i \in DOMAIN params : few[i] \subseteq all[i]
  BY <1>4
<1> HIDE DEF few, all
<1>6. Product(w, params, few) \subseteq Product(w, params, all)
  BY <1>5, ProductNarrows DEF SystemOK
<1> QED BY <1>2, <1>3, <1>6

\* The system under plan is one of them, and its cursor points into the log.
PlanState ==
    /\ system \in DOMAIN Plans
    /\ cursor.pos \in Nat
    /\ Ordered(world)

\* Every write and every plan keeps it so.
LEMMA PlanInvariant ==
  ASSUME InitOK, WritesOK
  PROVE  Spec => []PlanState
<1>1. Init => system \in DOMAIN Plans /\ cursor.pos \in Nat
  BY DEF Init
<1>2. /\ system \in DOMAIN Plans /\ cursor.pos \in Nat /\ Ordered(world) /\ [Next]_vars
      => (system \in DOMAIN Plans /\ cursor.pos \in Nat)'
  <2> SUFFICES ASSUME system \in DOMAIN Plans, cursor.pos \in Nat, Ordered(world), [Next]_vars
        PROVE  (system \in DOMAIN Plans /\ cursor.pos \in Nat)'
    OBVIOUS
  <2>1. CASE Plan
    <3>1. Len(world.log) \in Nat
      BY DEF Ordered, Steady
    <3>2. cursor' = Advanced(Mark(world), DeltaEligible) /\ system' = system
      BY <2>1 DEF Plan
    <3>3. cursor'.pos \in {Len(world.log), cursor.pos}
      BY <3>2 DEF Advanced
    <3> QED BY <3>1, <3>2, <3>3
  <2>2. CASE UNCHANGED <<system, cursor>>
    BY <2>2
  <2> QED BY <2>1, <2>2 DEF Next, Write, vars
<1> QED BY <1>1, <1>2, WorldsOrdered, PTL DEF Spec, PlanState

\* A delta plan admits rows of the system only, whatever the log names and
\* however the hint was expanded to providers (states_hinted).
THEOREM HintsNarrow ==
  ASSUME InitOK, WritesOK, SystemsOK
  PROVE  Spec => []HintsOnlyNarrow
<1>1. PlanState => HintsOnlyNarrow
  <2> SUFFICES ASSUME PlanState PROVE Candidates \subseteq States(world, Params)
    BY DEF HintsOnlyNarrow
  <2>1. SystemOK(Params) /\ Ordered(world) /\ cursor.pos \in Nat
    BY DEF PlanState, SystemsOK, Params
  <2>2. Dirty \subseteq Ids
    BY <2>1, DirtyAllocated
  <2>3. DeltaEligible => StatesHinted(world, Params, Dirty) \subseteq States(world, Params)
    BY <2>1, <2>2, HintedNarrows DEF DeltaEligible
  <2> QED BY <2>3 DEF Candidates
<1> QED BY <1>1, PlanInvariant, PTL

-----------------------------------------------------------------------------
(* Joins *)

\* The joins a bowl accepts: "bound Where<Eq<..>> needs exactly one sibling query
\* param reading it", "must be #[component(hash)]", "must precede the joined query
\* in the system's parameter list", "Where<In<..>> provider must read a maintained
\* inverse" (system.rs).  An outer join has one key: with two, None is admitted
\* beside partners that share only one of them (queries_outer_join).
JoinOK(params) ==
    \A i \in DOMAIN params :
        LET p == params[i]
        IN  /\ EqKeys(p.filter) \subseteq Hashed \ Inverses /\ InKeys(p.filter) \subseteq Inverses
            /\ \A key \in EqKeys(p.filter) \cup InKeys(p.filter) :
                  \E j \in DOMAIN params : /\ Siblings(params, i, key) = {j}
                                           /\ PairExpandable(p) => j < i
            /\ p.kind = "outer" => InKeys(p.filter) = {} /\ \E key : EqKeys(p.filter) = {key}
JoinsOK == None \notin Ids /\ \A s \in DOMAIN Plans : JoinOK(Plans[s])

\* The provider of a key.
LEMMA OneProvider ==
  ASSUME NEW params, IsList(params), NEW i, NEW key, NEW j \in DOMAIN params,
         Siblings(params, i, key) = {j}
  PROVE  /\ Min(Siblings(params, i, key)) = j /\ j # i
         /\ params[j].kind = "query" /\ key \in PartRequires(params[j])
<1>1. j \in Nat
  BY DEF IsList
<1>2. Min({j}) = j
  <2>1. \E x \in {j} : \A y \in {j} : x <= y
    BY <1>1
  <2> QED BY <2>1 DEF Min
<1>3. j # i /\ Provides(params[j], key)
  BY DEF Siblings
<1> QED BY <1>2, <1>3 DEF Provides, PartRequires

\* The rows whose key has the value of an entry are its bucket.
LEMMA BucketExact ==
  ASSUME InitOK, NEW w, Ordered(w), NEW key \in Components \cap (Hashed \ Inverses),
         NEW t, Has(w, key, t)
  PROVE  /\ Bucket(w, key, Entry(w, key, t).fingerprint)
              = {e \in Ids : Has(w, key, e) /\ Entry(w, key, e).value = Entry(w, key, t).value}
         /\ \A e : Has(w, key, e) => /\ Entry(w, key, e).fingerprint = Entry(w, key, t).fingerprint
                                        <=> Entry(w, key, e).value = Entry(w, key, t).value
<1>1. /\ FingerprintsExact(w) /\ StoreOf(w, key) \subseteq Ids /\ Ids \subseteq Entities
      /\ \A e \in DOMAIN w.entries[key] :
            w.entries[key][e].fingerprint = w.entries[key][e].value /\ w.entries[key][e].value # None
  BY OrderedStores DEF Fingerprint
<1>2. \A e : Has(w, key, e) => /\ Entry(w, key, e).fingerprint = Entry(w, key, e).value
                               /\ Entry(w, key, e).value # None
  BY <1>1 DEF Has, Entry
<1> DEFINE fp == Entry(w, key, t).fingerprint
<1>3. fp # None
  BY <1>2
<1>4. ASSUME NEW e
      PROVE <<key, fp, e>> \in w.index <=> Has(w, key, e) /\ Entry(w, key, e).fingerprint = fp
  <2>1. ASSUME <<key, fp, e>> \in w.index
        PROVE Has(w, key, e) /\ Entry(w, key, e).fingerprint = fp
    <3>1. PICK d \in Components : \E f \in DOMAIN w.entries[d] :
             <<key, fp, e>> \in Keyed(d, w.entries[d][f].fingerprint, f)
      BY <1>1, <2>1, KeyMembers
    <3>2. PICK f \in DOMAIN w.entries[d] : <<key, fp, e>> \in Keyed(d, w.entries[d][f].fingerprint, f)
      BY <3>1
    <3>3. <<key, fp, e>> = <<d, w.entries[d][f].fingerprint, f>>
      BY <3>2 DEF Keyed
    <3> HIDE DEF fp
    <3>4. d = key /\ f = e /\ w.entries[d][f].fingerprint = fp
      BY <3>3
    <3> QED BY <3>4 DEF Has, Entry
  <2>2. ASSUME Has(w, key, e), Entry(w, key, e).fingerprint = fp PROVE <<key, fp, e>> \in w.index
    <3>1. Keyed(key, w.entries[key][e].fingerprint, e) \subseteq w.index
      BY <1>1, <2>2, KeyMembers DEF Has
    <3> HIDE DEF fp
    <3> QED BY <1>3, <2>2, <3>1 DEF Keyed, Entry
  <2> QED BY <2>1, <2>2
<1>5. ASSUME NEW e PROVE e \in Bucket(w, key, fp) <=> /\ e \in Ids /\ Has(w, key, e)
                                                      /\ Entry(w, key, e).fingerprint = fp
  <2>1. Has(w, key, e) => e \in Ids
    BY <1>1 DEF Has, StoreOf
  <2> HIDE DEF fp
  <2> QED BY <1>1, <1>4, <2>1 DEF Bucket
<1>6. Has(w, key, t) /\ fp = Entry(w, key, t).value
  BY <1>2
<1> HIDE DEF fp
<1>7. Bucket(w, key, fp) = {e \in Ids : Has(w, key, e) /\ Entry(w, key, e).value = Entry(w, key, t).value}
  BY <1>2, <1>5, <1>6
<1> QED BY <1>2, <1>6, <1>7 DEF fp

\* The members an inverse lists are the sources whose edge names its owner.
LEMMA MembersExact ==
  ASSUME InitOK, NEW w, Ordered(w), NEW key \in Inverses, NEW t
  PROVE  /\ EdgeOf(key) \in Edges /\ InverseOf[EdgeOf(key)] = key
         /\ Members(w, key, t) = {e \in Ids : Targets(w, EdgeOf(key), e) = {t}}
<1>1. PICK c \in Edges : InverseOf[c] = key
  BY DEF Inverses
<1>2. EdgeOf(key) \in Edges /\ InverseOf[EdgeOf(key)] = key
  BY <1>1 DEF EdgeOf, Edges
<1> DEFINE d == EdgeOf(key)
<1>3. Linked(w) /\ \A x \in Components : StoreOf(w, x) \subseteq Ids
  BY OrderedStores
<1>4. d \in Components
  BY <1>2, RelationTypes
<1> HIDE DEF d
<1>5. ASSUME NEW e PROVE e \in Members(w, key, t) <=> e \in Ids /\ Targets(w, d, e) = {t}
  <2>1. e \in Members(w, key, t) <=> Edge(w, d, e, t)
    BY <1>2, <1>3 DEF Linked, Member, d
  <2>2. Edge(w, d, e, t) => e \in Ids
    BY <1>3, <1>4 DEF Edge, StoreOf
  <2>3. Targets(w, d, e) = {t} <=> Edge(w, d, e, t)
    BY <1>2 DEF Targets, Edges, Edge, Old, Has, Entry, d
  <2> QED BY <2>1, <2>2, <2>3
<1> QED BY <1>2, <1>5 DEF d

\* The key of a pair.
LEMMA PairKey ==
  ASSUME InitOK, NEW p, ParamOK(p), PairExpandable(p)
  PROVE  \E key : EqKeys(p.filter) \cup InKeys(p.filter) = {key}
<1> DEFINE E == EqKeys(p.filter)
           N == InKeys(p.filter)
<1>1. E \subseteq Components /\ N \subseteq Components
  BY DEF ParamOK, EqKeys, InKeys, Atoms
<1>2. IsFiniteSet(E) /\ IsFiniteSet(N)
  BY <1>1, FS_Subset DEF InitOK
<1>3. Cardinality(E) \in Nat /\ Cardinality(N) \in Nat /\ Cardinality(E) + Cardinality(N) = 1
  BY <1>2, FS_CardinalityType DEF PairExpandable
<1> HIDE DEF E, N
<1>4. CASE Cardinality(E) = 0
  <2>1. E = {} /\ Cardinality(N) = 1
    BY <1>2, <1>3, <1>4, FS_EmptySet
  <2>2. PICK key : N = {key}
    BY <1>2, <2>1, FS_Singleton
  <2> QED BY <2>1, <2>2 DEF E, N
<1>5. CASE Cardinality(E) # 0
  <2>1. N = {} /\ Cardinality(E) = 1
    BY <1>2, <1>3, <1>5, FS_EmptySet
  <2>2. PICK key : E = {key}
    BY <1>2, <2>1, FS_Singleton
  <2> QED BY <2>1, <2>2 DEF E, N
<1> QED BY <1>4, <1>5

\* Whatever the candidates, what is kept of them are rows of the parameter.
LEMMA PreparedBelong ==
  ASSUME InitOK, NEW w, Ordered(w), NEW p, ParamOK(p), p.kind \notin {"commands", "meta"},
         NEW C \in SUBSET Ids
  PROVE  {e \in PreparedRows(w, p, C) : FilterMatches(w, p.filter, e)}
           = {e \in C : Belongs(w, p, e)}
<1>0. Allocated(w) = Ids /\ StoresOK(w)
  BY OrderedStores
<1>1. /\ QueryOK(p)
      /\ p.bare => Required(p.facet) \subseteq {a.type : a \in Drivers(p.filter)}
  BY DEF ParamOK
<1>2. CASE ~p.bare
  <2>1. PreparedRows(w, p, C) = C \cap DefinedRows(w, p)
    BY <1>0, <1>1, <1>2, CandidatesNarrow
  <2> QED BY <1>0, <2>1 DEF DefinedRows, Belongs
<1>3. CASE p.bare
  <2>1. PreparedRows(w, p, C) = C
    BY <1>3 DEF PreparedRows
  <2>2. PartRequires(p) = {}
    BY <1>1, <1>3 DEF QueryOK, PartRequires, PartsOf, Range
  <2>3. ASSUME NEW e \in C, FilterMatches(w, p.filter, e) PROVE Belongs(w, p, e)
    BY <1>0, <1>1, <1>3, <2>2, <2>3, MatchesDrive DEF Belongs, HasAll
  <2> QED BY <2>1, <2>3 DEF Belongs
<1> QED BY <1>2, <1>3

\* The candidates of a pair, and its key: Candidates of Partners.
LEMMA PartnersCandidates ==
  ASSUME InitOK, NEW w, Ordered(w), NEW params, SystemOK(params), JoinOK(params),
         NEW i \in DOMAIN params, PairExpandable(params[i])
  PROVE  \E key, j : /\ j \in DOMAIN params /\ j < i /\ Siblings(params, i, key) = {j}
                     /\ EqKeys(params[i].filter) \cup InKeys(params[i].filter) = {key}
                     /\ \A picked : Partners(w, params, i, picked) =
                           {e \in IF key \in InKeys(params[i].filter) THEN Members(w, key, picked[j])
                                  ELSE Bucket(w, key, Entry(w, key, picked[j]).fingerprint) :
                              Belongs(w, params[i], e)}
<1> DEFINE p == params[i]
<1>1. ParamOK(p) /\ p.kind = "query"
  BY PairJoins DEF SystemOK
<1>2. PICK key : EqKeys(p.filter) \cup InKeys(p.filter) = {key}
  BY <1>1, PairKey
<1>3. PICK j \in DOMAIN params : Siblings(params, i, key) = {j} /\ j < i
  BY <1>2 DEF JoinOK
<1>4. Min(Siblings(params, i, key)) = j
  BY <1>3, OneProvider DEF SystemOK
<1>5. (CHOOSE k \in EqKeys(p.filter) \cup InKeys(p.filter) : TRUE) = key
  BY <1>2
<1>6. ASSUME NEW picked
      PROVE  Partners(w, params, i, picked) =
                {e \in IF key \in InKeys(p.filter) THEN Members(w, key, picked[j])
                       ELSE Bucket(w, key, Entry(w, key, picked[j]).fingerprint) : Belongs(w, p, e)}
  <2> DEFINE C == IF key \in InKeys(p.filter) THEN Members(w, key, picked[j])
                  ELSE Bucket(w, key, Entry(w, key, picked[j]).fingerprint)
  <2>1. C \in SUBSET Ids
    <3>1. key \in InKeys(p.filter) => key \in Inverses
      BY DEF JoinOK
    <3>2. key \in InKeys(p.filter) => Members(w, key, picked[j]) \subseteq Ids
      BY <3>1, MembersExact
    <3> QED BY <3>2, ProvidersAllocated
  <2>2. Partners(w, params, i, picked) = {e \in PreparedRows(w, p, C) : FilterMatches(w, p.filter, e)}
    BY <1>4, <1>5 DEF Partners
  <2> HIDE DEF C
  <2>3. Partners(w, params, i, picked) = {e \in C : Belongs(w, p, e)}
    BY <1>1, <2>1, <2>2, PreparedBelong
  <2> QED BY <2>3 DEF C
<1> QED BY <1>2, <1>3, <1>6

\* The partners picked from the bucket or the member list of the provider are the
\* rows that join it.
LEMMA PartnersExact ==
  ASSUME InitOK, NEW w, Ordered(w), NEW params, SystemOK(params), JoinOK(params),
         NEW i \in DOMAIN params, PairExpandable(params[i]), NEW s, NEW n \in Nat, n >= i - 1,
         \A j \in DOMAIN params : params[j].kind = "query" => Belongs(w, params[j], s[j])
  PROVE  Partners(w, params, i, First(s, n))
           = {e \in Ids : Belongs(w, params[i], e) /\ Joins(w, params, i, s, e)}
<1> DEFINE p == params[i]
<1>1. PICK key, j : /\ j \in DOMAIN params /\ j < i /\ Siblings(params, i, key) = {j}
                    /\ EqKeys(p.filter) \cup InKeys(p.filter) = {key}
                    /\ \A picked : Partners(w, params, i, picked) =
                          {e \in IF key \in InKeys(p.filter) THEN Members(w, key, picked[j])
                                 ELSE Bucket(w, key, Entry(w, key, picked[j]).fingerprint) :
                             Belongs(w, p, e)}
  BY PartnersCandidates
<1>2. First(s, n)[j] = s[j]
  <2>1. i \in Nat /\ j \in Nat /\ 1 <= j
    BY <1>1 DEF SystemOK, IsList
  <2>2. j \in 1 .. n
    BY <1>1, <2>1
  <2> QED BY <2>2 DEF First
<1>3. params[j].kind = "query" /\ key \in PartRequires(params[j])
  BY <1>1, OneProvider DEF SystemOK
<1>4. Has(w, key, s[j])
  BY <1>1, <1>3 DEF Belongs, HasAll
<1>5. \A e : Joins(w, params, i, s, e) <=>
         /\ key \in EqKeys(p.filter) => Has(w, key, s[j]) /\ Entry(w, key, e).value = Entry(w, key, s[j]).value
         /\ key \in InKeys(p.filter) => Targets(w, EdgeOf(key), e) = {s[j]}
  BY <1>1 DEF Joins
<1>6. EqKeys(p.filter) \subseteq Hashed \ Inverses /\ InKeys(p.filter) \subseteq Inverses
  BY DEF JoinOK
<1>7. ASSUME key \in InKeys(p.filter)
      PROVE  Partners(w, params, i, First(s, n)) = {e \in Ids : Belongs(w, p, e) /\ Joins(w, params, i, s, e)}
  <2>1. Members(w, key, s[j]) = {e \in Ids : Targets(w, EdgeOf(key), e) = {s[j]}}
    BY <1>6, <1>7, MembersExact
  <2>2. \A e : Joins(w, params, i, s, e) <=> Targets(w, EdgeOf(key), e) = {s[j]}
    BY <1>5, <1>6, <1>7
  <2> QED BY <1>1, <1>2, <1>7, <2>1, <2>2
<1>8. ASSUME key \notin InKeys(p.filter)
      PROVE  Partners(w, params, i, First(s, n)) = {e \in Ids : Belongs(w, p, e) /\ Joins(w, params, i, s, e)}
  <2>1. key \in EqKeys(p.filter)
    BY <1>1, <1>8
  <2>2. key \in Components \cap (Hashed \ Inverses)
    BY <1>6, <2>1, WorldAssumption
  <2>3. Bucket(w, key, Entry(w, key, s[j]).fingerprint)
          = {e \in Ids : Has(w, key, e) /\ Entry(w, key, e).value = Entry(w, key, s[j]).value}
    BY <1>4, <2>2, BucketExact
  <2>4. \A e : Joins(w, params, i, s, e) <=> Entry(w, key, e).value = Entry(w, key, s[j]).value
    BY <1>4, <1>5, <1>8, <2>1
  <2>5. \A e : Belongs(w, p, e) => Has(w, key, e)
    BY <2>1 DEF Belongs, FilterMatches, AtomMatches, EqKeys, Atoms
  <2> QED BY <1>1, <1>2, <1>8, <2>3, <2>4, <2>5
<1> QED BY <1>7, <1>8

AllRows(w, params) == [i \in DOMAIN params |-> ParamStates(w, params[i])]

\* A query's row in a tuple belongs to the query, whether it was enumerated or
\* found from its provider.
LEMMA ChosenBelong ==
  ASSUME InitOK, NEW w, Ordered(w), NEW params, SystemOK(params), JoinOK(params), NEW s,
         Chosen(w, params, AllRows(w, params), s, Len(params)), NEW i \in DOMAIN params
  PROVE  /\ params[i].kind = "query" => s[i] \in Ids /\ Belongs(w, params[i], s[i])
         /\ params[i].kind = "outer" => s[i] = None \/ (s[i] \in Ids /\ Belongs(w, params[i], s[i]))
         /\ params[i].kind \notin {"query", "outer"} => s[i] = Unit
<1> DEFINE p == params[i]
<1>1. ParamOK(p) /\ DOMAIN params = 1 .. Len(params)
  BY DEF SystemOK, IsList
<1>2. s[i] \in RowsFor(w, params, AllRows(w, params), i, First(s, i - 1))
  BY <1>1 DEF Chosen
<1>3. CASE PairExpandable(p)
  <2>1. p.kind = "query" /\ s[i] \in Partners(w, params, i, First(s, i - 1))
    BY <1>2, <1>3, PairJoins DEF RowsFor
  <2>2. Belongs(w, p, s[i])
    BY <1>3, <2>1, PartnersCandidates
  <2>3. Allocated(w) = Ids
    BY OrderedStores
  <2> QED BY <2>1, <2>2, <2>3 DEF Belongs
<1>4. CASE ~PairExpandable(p)
  <2>1. s[i] \in ParamStates(w, p)
    BY <1>2, <1>4 DEF RowsFor, AllRows
  <2>2. p.kind \in {"query", "outer"} => FilteredRows(w, p) = {e \in Ids : Belongs(w, p, e)}
    BY <1>1, RowsBelong
  <2>3. CASE p.kind \in {"query", "outer"}
    <3>1. s[i] \in {e \in Ids : Belongs(w, p, e)} \cup (IF p.kind = "outer" THEN {None} ELSE {})
      BY <2>1, <2>2, <2>3 DEF ParamStates
    <3> QED BY <2>3, <3>1
  <2>4. CASE p.kind \notin {"query", "outer"}
    BY <2>1, <2>4 DEF ParamStates
  <2> QED BY <2>3, <2>4
<1> QED BY <1>3, <1>4

\* binding_matches of one parameter.
Bound(w, params, s, i) ==
    LET p == params[i]
        given(key) == s[Min(Siblings(params, i, key))]
        fp(key) == Entry(w, key, given(key)).fingerprint
    IN  IF s[i] = None THEN \A key \in EqKeys(p.filter) : AbsentMatches(w, p, key, fp(key))
        ELSE /\ \A key \in EqKeys(p.filter) : Entry(w, key, s[i]).fingerprint = fp(key)
             /\ p.kind = "query" => \A key \in InKeys(p.filter) : s[i] \in Members(w, key, given(key))

\* A row of a query satisfies it when it joins its providers, by key and by edge.
LEMMA BoundJoins ==
  ASSUME InitOK, NEW w, Ordered(w), NEW params, SystemOK(params), JoinOK(params), NEW s,
         \A j \in DOMAIN params : params[j].kind = "query" => Belongs(w, params[j], s[j]),
         NEW i \in DOMAIN params, NEW e \in Ids, Belongs(w, params[i], e)
  PROVE  /\ \A key \in EqKeys(params[i].filter) :
              (\A j \in Siblings(params, i, key) :
                   Has(w, key, s[j]) /\ Entry(w, key, e).value = Entry(w, key, s[j]).value)
             
                <=> Entry(w, key, e).fingerprint = Entry(w, key, s[Min(Siblings(params, i, key))]).fingerprint
         /\ \A key \in InKeys(params[i].filter) :
              (\A j \in Siblings(params, i, key) : Targets(w, EdgeOf(key), e) = {s[j]})
              <=> e \in Members(w, key, s[Min(Siblings(params, i, key))])
<1> DEFINE p == params[i]
<1>0. EqKeys(p.filter) \subseteq Hashed \ Inverses /\ InKeys(p.filter) \subseteq Inverses
  BY DEF JoinOK
<1>1. ASSUME NEW key \in EqKeys(p.filter) \cup InKeys(p.filter)
      PROVE  \E j \in DOMAIN params : /\ Siblings(params, i, key) = {j} /\ Min(Siblings(params, i, key)) = j
                                      /\ Has(w, key, s[j])
  <2>1. PICK j \in DOMAIN params : Siblings(params, i, key) = {j}
    BY DEF JoinOK
  <2>2. /\ Min(Siblings(params, i, key)) = j /\ params[j].kind = "query"
        /\ key \in PartRequires(params[j])
    BY <2>1, OneProvider DEF SystemOK
  <2>3. Has(w, key, s[j])
    BY <2>2 DEF Belongs, HasAll
  <2> QED BY <2>1, <2>2, <2>3
<1>2. ASSUME NEW key \in EqKeys(p.filter)
      PROVE  (\A j \in Siblings(params, i, key) :
                   Has(w, key, s[j]) /\ Entry(w, key, e).value = Entry(w, key, s[j]).value)
             
                <=> Entry(w, key, e).fingerprint = Entry(w, key, s[Min(Siblings(params, i, key))]).fingerprint
  <2>1. PICK j \in DOMAIN params : /\ Siblings(params, i, key) = {j} /\ Min(Siblings(params, i, key)) = j
                                   /\ Has(w, key, s[j])
    BY <1>1
  <2>2. key \in Components \cap (Hashed \ Inverses) /\ Has(w, key, e)
    BY <1>0, <1>2, WorldAssumption DEF Belongs, FilterMatches, AtomMatches, EqKeys,
       Atoms
  <2>3. Entry(w, key, e).fingerprint = Entry(w, key, s[j]).fingerprint
          <=> Entry(w, key, e).value = Entry(w, key, s[j]).value
    BY <2>1, <2>2, BucketExact
  <2> QED BY <2>1, <2>3
<1>3. ASSUME NEW key \in InKeys(p.filter)
      PROVE  (\A j \in Siblings(params, i, key) : Targets(w, EdgeOf(key), e) = {s[j]})
              <=> e \in Members(w, key, s[Min(Siblings(params, i, key))])
  <2>1. PICK j \in DOMAIN params : /\ Siblings(params, i, key) = {j} /\ Min(Siblings(params, i, key)) = j
                                   /\ Has(w, key, s[j])
    BY <1>1
  <2>2. Members(w, key, s[j]) = {f \in Ids : Targets(w, EdgeOf(key), f) = {s[j]}}
    BY <1>0, MembersExact
  <2> QED BY <2>1, <2>2
<1> QED BY <1>2, <1>3

\* For a query it is to join its providers.
LEMMA BoundQuery ==
  ASSUME InitOK, None \notin Ids, NEW w, Ordered(w), NEW params, SystemOK(params), JoinOK(params),
         NEW s, \A j \in DOMAIN params : params[j].kind = "query" => Belongs(w, params[j], s[j]),
         NEW i \in DOMAIN params, params[i].kind = "query", s[i] \in Ids
  PROVE  Bound(w, params, s, i) <=> Joins(w, params, i, s, s[i])
<1> DEFINE p == params[i]
           eq(key) == \A j \in Siblings(params, i, key) :
                   Has(w, key, s[j]) /\ Entry(w, key, s[i]).value = Entry(w, key, s[j]).value
           ed(key) == \A j \in Siblings(params, i, key) : Targets(w, EdgeOf(key), s[i]) = {s[j]}
           fp(key) == Entry(w, key, s[i]).fingerprint = Entry(w, key, s[Min(Siblings(params, i, key))]).fingerprint
           in(key) == s[i] \in Members(w, key, s[Min(Siblings(params, i, key))])
<1>1. s[i] # None /\ Belongs(w, p, s[i])
  OBVIOUS
<1>2. /\ \A key \in EqKeys(p.filter) : eq(key) <=> fp(key)
      /\ \A key \in InKeys(p.filter) : ed(key) <=> in(key)
  BY <1>1, BoundJoins
<1>3. Joins(w, params, i, s, s[i]) <=> /\ \A key \in EqKeys(p.filter) : eq(key)
                                       /\ \A key \in InKeys(p.filter) : ed(key)
  BY DEF Joins
<1>4. Bound(w, params, s, i) <=> /\ \A key \in EqKeys(p.filter) : fp(key)
                                 /\ \A key \in InKeys(p.filter) : in(key)
  BY <1>1 DEF Bound
<1> HIDE DEF eq, ed, fp, in
<1> QED BY <1>2, <1>3, <1>4

\* For an outer parameter it is to join its provider, or to be absent where no row
\* does.
LEMMA BoundOuter ==
  ASSUME InitOK, None \notin Ids, NEW w, Ordered(w), NEW params, SystemOK(params), JoinOK(params),
         NEW s, \A j \in DOMAIN params : params[j].kind = "query" => Belongs(w, params[j], s[j]),
         NEW i \in DOMAIN params, params[i].kind = "outer",
         s[i] = None \/ (s[i] \in Ids /\ Belongs(w, params[i], s[i]))
  PROVE  LET partners == {e \in Ids : Belongs(w, params[i], e) /\ Joins(w, params, i, s, e)}
         IN  Bound(w, params, s, i) <=>
               IF partners = {} THEN s[i] = None ELSE s[i] \in partners
<1> DEFINE p == params[i]
           partners == {e \in Ids : Belongs(w, p, e) /\ Joins(w, params, i, s, e)}
<1>1. PICK key : EqKeys(p.filter) = {key} /\ InKeys(p.filter) = {}
  BY DEF JoinOK
<1> DEFINE fp == Entry(w, key, s[Min(Siblings(params, i, key))]).fingerprint
<1>2. ASSUME NEW e \in Ids, Belongs(w, p, e)
      PROVE  Joins(w, params, i, s, e) <=> Entry(w, key, e).fingerprint = fp
  <2>1. (\A j \in Siblings(params, i, key) :
            Has(w, key, s[j]) /\ Entry(w, key, e).value = Entry(w, key, s[j]).value)
        <=> Entry(w, key, e).fingerprint = fp
    BY <1>1, <1>2, BoundJoins
  <2> QED BY <1>1, <2>1 DEF Joins
<1>3. FilteredRows(w, p) = {e \in Ids : Belongs(w, p, e)}
  BY RowsBelong DEF SystemOK
<1>4. AbsentMatches(w, p, key, fp) <=> ~\E e \in Ids : Belongs(w, p, e) /\ Entry(w, key, e).fingerprint = fp
  BY <1>1, <1>3 DEF AbsentMatches
<1>5. Bound(w, params, s, i) <=> IF s[i] = None THEN AbsentMatches(w, p, key, fp)
                                 ELSE Entry(w, key, s[i]).fingerprint = fp
  BY <1>1 DEF Bound
<1> HIDE DEF fp
<1> QED BY <1>2, <1>4, <1>5

\* What IsState asks of one row.
RowOf(w, params, s, i) ==
    LET partners == {e \in Ids : Belongs(w, params[i], e) /\ Joins(w, params, i, s, e)}
    IN  /\ params[i].kind = "query" => s[i] \in partners
        /\ params[i].kind = "outer" => IF partners = {} THEN s[i] = None ELSE s[i] \in partners
        /\ params[i].kind \notin {"query", "outer"} => s[i] = Unit

\* IsState asks it of every row.
LEMMA IsStateRows ==
  ASSUME InitOK, NEW w, Ordered(w), NEW params, NEW s
  PROVE  IsState(w, params, s) <=> \A i \in DOMAIN params : RowOf(w, params, s, i)
<1>1. Allocated(w) = Ids /\ Ids \subseteq Entities
  BY OrderedStores
<1>2. ASSUME NEW i \in DOMAIN params
      PROVE  {e \in Entities : Belongs(w, params[i], e) /\ Joins(w, params, i, s, e)}
               = {e \in Ids : Belongs(w, params[i], e) /\ Joins(w, params, i, s, e)}
  BY <1>1 DEF Belongs
<1> QED BY <1>2 DEF IsState, RowOf

\* The rows a tuple is made of, where its queries' rows belong to them: they are
\* chosen and bound exactly when each is a row by definition.
LEMMA ChosenRows ==
  ASSUME InitOK, None \notin Ids, NEW w, Ordered(w), NEW params, SystemOK(params), JoinOK(params),
         NEW s, \A j \in DOMAIN params : params[j].kind = "query" => Belongs(w, params[j], s[j]),
         NEW i \in DOMAIN params
  PROVE  LET p == params[i]
             free == EqKeys(p.filter) \cup InKeys(p.filter) = {}
         IN  /\ PairExpandable(p) \/ free =>
                   (s[i] \in RowsFor(w, params, AllRows(w, params), i, First(s, i - 1))
                    <=> RowOf(w, params, s, i))
             /\ ~PairExpandable(p) /\ ~free =>
                   (s[i] \in RowsFor(w, params, AllRows(w, params), i, First(s, i - 1))
                       /\ Bound(w, params, s, i)
                    <=> RowOf(w, params, s, i))
             /\ RowOf(w, params, s, i) => Bound(w, params, s, i)
<1> DEFINE p == params[i]
           free == EqKeys(p.filter) \cup InKeys(p.filter) = {}
           partners == {e \in Ids : Belongs(w, p, e) /\ Joins(w, params, i, s, e)}
           chosen == s[i] \in RowsFor(w, params, AllRows(w, params), i, First(s, i - 1))
<1>1. /\ ParamOK(p) /\ p.kind \in ParamKinds /\ i \in Nat /\ i - 1 \in Nat
      /\ p.kind \notin {"query", "outer"} => free
  <2>1. ParamOK(p) /\ DOMAIN params = 1 .. Len(params) /\ Len(params) \in Nat
    BY DEF SystemOK, IsList
  <2>2. i \in Nat /\ i - 1 \in Nat
    BY <2>1
  <2>3. p.kind \in ParamKinds /\ (p.kind \notin {"query", "outer"} => free)
    BY <2>1 DEF ParamOK
  <2> QED BY <2>1, <2>2, <2>3
<1>2. Allocated(w) = Ids
  BY OrderedStores
<1>3. p.kind \in {"query", "outer"} => FilteredRows(w, p) = {e \in Ids : Belongs(w, p, e)}
  BY <1>1, RowsBelong
<1>4. ~PairExpandable(p) => (chosen <=> s[i] \in ParamStates(w, p))
  BY DEF RowsFor, AllRows
<1>5. CASE p.kind = "query"
  <2>1. Belongs(w, p, s[i]) /\ s[i] \in Ids
    BY <1>2, <1>5 DEF Belongs
  <2>2. Bound(w, params, s, i) <=> Joins(w, params, i, s, s[i])
    BY <1>5, <2>1, BoundQuery
  <2>3. RowOf(w, params, s, i) <=> s[i] \in partners
    BY <1>5 DEF RowOf
  <2>4. PairExpandable(p) => (chosen <=> s[i] \in partners)
    <3>1. PairExpandable(p) => Partners(w, params, i, First(s, i - 1)) = partners
      BY <1>1, PartnersExact
    <3> HIDE DEF partners
    <3> QED BY <3>1 DEF RowsFor
  <2>5. ~PairExpandable(p) => chosen
    BY <1>3, <1>4, <1>5, <2>1 DEF ParamStates
  <2>6. free => Joins(w, params, i, s, s[i])
    BY DEF Joins
  <2>7. s[i] \in partners <=> Joins(w, params, i, s, s[i])
    BY <2>1
  <2>8. free => ~PairExpandable(p)
    BY PairJoins
  <2> HIDE DEF chosen, free, partners
  <2> QED BY <2>2, <2>3, <2>4, <2>5, <2>6, <2>7, <2>8 DEF chosen, free
<1>6. CASE p.kind = "outer"
  <2>1. ~free /\ ~PairExpandable(p)
    BY <1>6, PairJoins DEF JoinOK
  <2>2. chosen <=> s[i] = None \/ (s[i] \in Ids /\ Belongs(w, p, s[i]))
    BY <1>3, <1>4, <1>6, <2>1 DEF ParamStates
  <2>3. chosen => (Bound(w, params, s, i) <=> IF partners = {} THEN s[i] = None ELSE s[i] \in partners)
    BY <1>6, <2>2, BoundOuter
  <2>4. RowOf(w, params, s, i) <=> IF partners = {} THEN s[i] = None ELSE s[i] \in partners
    BY <1>6 DEF RowOf
  <2>5. (IF partners = {} THEN s[i] = None ELSE s[i] \in partners) => chosen
    BY <2>2
  <2> HIDE DEF chosen, free, partners
  <2> QED BY <2>1, <2>3, <2>4, <2>5 DEF chosen, free
<1>7. CASE p.kind \notin {"query", "outer"}
  <2>1. free /\ ~PairExpandable(p)
    BY <1>1, <1>7, PairJoins
  <2>2. chosen <=> s[i] = Unit
    BY <1>4, <1>7, <2>1 DEF ParamStates
  <2>3. RowOf(w, params, s, i) <=> s[i] = Unit
    BY <1>7 DEF RowOf
  <2>4. Bound(w, params, s, i)
    BY <1>7, <2>1 DEF Bound
  <2> HIDE DEF chosen, free
  <2> QED BY <2>1, <2>2, <2>3, <2>4 DEF chosen, free
<1> QED BY <1>5, <1>6, <1>7

\* The states of a system are the tuples its parameters describe.
LEMMA StatesAre ==
  ASSUME InitOK, None \notin Ids, NEW w, Ordered(w), NEW params, SystemOK(params), JoinOK(params),
         NEW s
  PROVE  s \in States(w, params) <=> Tuple(s, Len(params)) /\ IsState(w, params, s)
<1> DEFINE all == AllRows(w, params)
           pruned == \E i \in DOMAIN params :
                        EqKeys(params[i].filter) \cup InKeys(params[i].filter) # {}
                           /\ ~PairExpandable(params[i])
           chosen(i) == s[i] \in RowsFor(w, params, all, i, First(s, i - 1))
<1>0. IsList(params) /\ DOMAIN params = 1 .. Len(params)
  BY DEF SystemOK, IsList
<1>1. s \in States(w, params) <=>
         /\ Chosen(w, params, all, s, Len(params))
         /\ pruned => \A i \in DOMAIN params : Bound(w, params, s, i)
  <2>1. s \in Product(w, params, all) <=> Chosen(w, params, all, s, Len(params))
    BY <1>0, ProductMembers
  <2>2. BindingMatches(w, params, s) <=> \A i \in DOMAIN params : Bound(w, params, s, i)
    BY DEF BindingMatches, Bound
  <2>3. States(w, params) = {t \in Product(w, params, all) : pruned => BindingMatches(w, params, t)}
    BY DEF States, AllRows
  <2> HIDE DEF pruned, all
  <2> QED BY <2>1, <2>2, <2>3
<1>2. Chosen(w, params, all, s, Len(params)) <=> Tuple(s, Len(params)) /\ \A i \in DOMAIN params : chosen(i)
  BY <1>0 DEF Chosen
<1>3. IsState(w, params, s) <=> \A i \in DOMAIN params : RowOf(w, params, s, i)
  BY IsStateRows
<1>4. ASSUME Chosen(w, params, all, s, Len(params)) \/ IsState(w, params, s), NEW j \in DOMAIN params,
             params[j].kind = "query"
      PROVE  Belongs(w, params[j], s[j])
  <2>1. CASE Chosen(w, params, all, s, Len(params))
    BY <1>4, <2>1, ChosenBelong
  <2>2. CASE IsState(w, params, s)
    BY <1>3, <1>4, <2>2 DEF RowOf
  <2> QED BY <1>4, <2>1, <2>2
<1> HIDE DEF all
<1>5. ASSUME s \in States(w, params) PROVE Tuple(s, Len(params)) /\ IsState(w, params, s)
  <2>1. /\ Tuple(s, Len(params)) /\ \A i \in DOMAIN params : chosen(i)
        /\ pruned => \A i \in DOMAIN params : Bound(w, params, s, i)
    BY <1>1, <1>2, <1>5
  <2>2. ASSUME NEW i \in DOMAIN params PROVE RowOf(w, params, s, i)
    <3>1. chosen(i) /\ (pruned => Bound(w, params, s, i))
      BY <2>1
    <3>2. \A j \in DOMAIN params : params[j].kind = "query" => Belongs(w, params[j], s[j])
      BY <1>1, <1>4, <1>5
    <3> QED BY <3>1, <3>2, ChosenRows DEF all
  <2> QED BY <1>3, <2>1, <2>2
<1>6. ASSUME Tuple(s, Len(params)), IsState(w, params, s) PROVE s \in States(w, params)
  <2>1. ASSUME NEW i \in DOMAIN params PROVE chosen(i) /\ Bound(w, params, s, i)
    <3>1. RowOf(w, params, s, i)
      BY <1>3, <1>6
    <3>2. \A j \in DOMAIN params : params[j].kind = "query" => Belongs(w, params[j], s[j])
      BY <1>4, <1>6
    <3> QED BY <3>1, <3>2, ChosenRows DEF all
  <2> QED BY <1>1, <1>2, <1>6, <2>1
<1> QED BY <1>5, <1>6

\* Smallest stores, presence masks, fingerprint buckets and maintained inverses
\* only speed the enumeration of a system's rows up, and an unmatched provider of
\* an outer join has exactly one row (states of the tuple).
THEOREM StatesDefined ==
  ASSUME InitOK, WritesOK, SystemsOK, JoinsOK
  PROVE  Spec => []StatesExact
<1>1. PlanState => StatesExact
  <2> SUFFICES ASSUME PlanState PROVE StatesExact
    OBVIOUS
  <2> DEFINE combinations == [DOMAIN Params -> Entities \cup {None, Unit}]
  <2>1. SystemOK(Params) /\ JoinOK(Params) /\ None \notin Ids /\ Ordered(world)
    BY DEF PlanState, SystemsOK, JoinsOK, Params
  <2>2. DOMAIN Params = 1 .. Len(Params)
    BY <2>1 DEF SystemOK, IsList
  <2>3. Allocated(world) = Ids /\ Ids \subseteq Entities
    BY <2>1, OrderedStores
  <2>4. ASSUME NEW s
        PROVE s \in States(world, Params) <=> s \in combinations /\ IsState(world, Params, s)
    <3>1. s \in States(world, Params) <=> Tuple(s, Len(Params)) /\ IsState(world, Params, s)
      BY <2>1, StatesAre
    <3>2. s \in combinations => Tuple(s, Len(Params))
      BY <2>2 DEF Tuple
    <3>3. ASSUME Tuple(s, Len(Params)), IsState(world, Params, s) PROVE s \in combinations
      <4>1. \A i \in DOMAIN Params : RowOf(world, Params, s, i)
        BY <2>1, <3>3, IsStateRows
      <4>2. \A i \in DOMAIN Params : s[i] \in Entities \cup {None, Unit}
        BY <2>3, <4>1 DEF RowOf
      <4> QED BY <2>2, <3>3, <4>2 DEF Tuple
    <3> QED BY <3>1, <3>2, <3>3
  <2> HIDE DEF combinations
  <2>5. States(world, Params) = {s \in combinations : IsState(world, Params, s)}
    BY <2>4
  <2> QED BY <2>5 DEF StatesExact, combinations
<1> QED BY <1>1, PlanInvariant, PTL

-----------------------------------------------------------------------------
(* Keys *)

\* A row of a system: an entity for every query, perhaps none for an outer join,
\* and the unit of everything else.
RowShape(params, s) ==
    /\ Tuple(s, Len(params))
    /\ \A i \in DOMAIN params :
          /\ params[i].kind = "query" => s[i] \in Ids
          /\ params[i].kind = "outer" => s[i] \in Ids \cup {None}
          /\ params[i].kind \notin {"query", "outer"} => s[i] = Unit

\* The first n places of a row that name an entity.
Identified(s, n) == {j \in 1 .. n : s[j] \notin {None, Unit}}

KeysStep(p, i, acc) ==
    IF p.state[i] \in {None, Unit} THEN acc ELSE Append(acc, p.state[i])
KeysInv(p, acc, done) ==
    \A n \in Nat : done = 1 .. n =>
        /\ acc \in Seq(Ids) /\ Len(acc) = Cardinality(Identified(p.state, n))
        /\ \A i \in Identified(p.state, n) : acc[Cardinality(Identified(p.state, i))] = p.state[i]
        /\ \A k \in 1 .. Len(acc) : \E i \in Identified(p.state, n) : acc[k] = p.state[i]
Naming == INSTANCE FoldFacts WITH op <- KeysStep, pick <- LastOf, Inv <- KeysInv

\* How many places name an entity.
LEMMA IdentifiedCount ==
  ASSUME NEW s, NEW n \in Nat
  PROVE  IsFiniteSet(Identified(s, n)) /\ Cardinality(Identified(s, n)) \in Nat
<1>1. IsFiniteSet(1 .. n)
  BY FS_Interval
<1>2. Identified(s, n) \subseteq 1 .. n
  BY DEF Identified
<1> QED BY <1>1, <1>2, FS_Subset, FS_CardinalityType

\* The keys of a row are its entities in order: each is where the count of
\* entities up to it says.
LEMMA KeysOfRow ==
  ASSUME NEW N \in Nat, NEW s, Tuple(s, N), \A j \in 1 .. N : s[j] \in Ids \cup {None, Unit}
  PROVE  /\ Len(Keys(s)) = Cardinality(Identified(s, N))
         /\ \A i \in Identified(s, N) : Keys(s)[Cardinality(Identified(s, i))] = s[i]
         /\ \A x \in Range(Keys(s)) : \E i \in Identified(s, N) : x = s[i]
<1> DEFINE p == [state |-> s]
           all == Keys(s)
<1>0. p.state = s
  OBVIOUS
<1>1. DOMAIN s = 1 .. N
  BY DEF Tuple
<1>2. /\ IsFiniteSet(DOMAIN s)
      /\ \A S \in SUBSET DOMAIN s : S # {} => LastOf(S) \in S
  <2>1. s \in Seq(Ids \cup {None, Unit})
    BY DEF Tuple
  <2> QED BY <2>1, Positions DEF IsList
<1>3. all = Naming!Fold(p, <<>>, DOMAIN s)
  BY SMT DEF Keys, FoldLeft, MapThenFoldSet, Naming!Fold, KeysStep, LastOf
<1> HIDE DEF p, all
<1>4. KeysInv(p, <<>>, {})
  <2> SUFFICES ASSUME NEW n \in Nat, {} = 1 .. n
        PROVE  /\ <<>> \in Seq(Ids) /\ Len(<<>>) = Cardinality(Identified(s, n))
               /\ \A i \in Identified(s, n) : <<>>[Cardinality(Identified(s, i))] = s[i]
               /\ \A k \in 1 .. Len(<<>>) : \E i \in Identified(s, n) : <<>>[k] = s[i]
    BY <1>0 DEF KeysInv
  <2>1. Identified(s, n) = {}
    BY DEF Identified
  <2> QED BY <2>1, FS_EmptySet
<1>5. ASSUME NEW v, NEW S \in SUBSET DOMAIN s, S # {}, KeysInv(p, v, S \ {LastOf(S)})
      PROVE  KeysInv(p, KeysStep(p, LastOf(S), v), S)
  <2> SUFFICES ASSUME NEW n \in Nat, S = 1 .. n
        PROVE  LET a == KeysStep(p, n, v)
               IN  /\ a \in Seq(Ids) /\ Len(a) = Cardinality(Identified(s, n))
                   /\ \A i \in Identified(s, n) : a[Cardinality(Identified(s, i))] = s[i]
                   /\ \A k \in 1 .. Len(a) : \E i \in Identified(s, n) : a[k] = s[i]
    <3>1. ASSUME NEW n \in Nat, S = 1 .. n PROVE LastOf(S) = n
      <4>1. n \in S /\ \A y \in S : n >= y
        BY <1>5, <3>1
      <4>2. LastOf(S) \in S /\ \A y \in S : LastOf(S) >= y
        BY <4>1 DEF LastOf, Max
      <4>3. LastOf(S) \in 1 .. n /\ LastOf(S) >= n
        BY <3>1, <4>1, <4>2
      <4> QED BY <4>3
    <3> QED BY <1>0, <3>1 DEF KeysInv
  <2>1. n # 0 /\ n - 1 \in Nat /\ n \in 1 .. N /\ S \ {LastOf(S)} = 1 .. (n - 1)
    <3>1. n \in S /\ \A y \in S : n >= y
      BY <1>5
    <3>2. LastOf(S) \in S /\ \A y \in S : LastOf(S) >= y
      BY <3>1 DEF LastOf, Max
    <3> QED BY <1>1, <3>1, <3>2
  <2>2. /\ v \in Seq(Ids) /\ Len(v) = Cardinality(Identified(s, n - 1))
        /\ \A i \in Identified(s, n - 1) : v[Cardinality(Identified(s, i))] = s[i]
        /\ \A k \in 1 .. Len(v) : \E i \in Identified(s, n - 1) : v[k] = s[i]
    BY <1>0, <1>5, <2>1 DEF KeysInv
  <2>3. CASE s[n] \in {None, Unit}
    <3>1. Identified(s, n) = Identified(s, n - 1)
      BY <2>1, <2>3 DEF Identified
    <3>2. KeysStep(p, n, v) = v
      BY <1>0, <2>3 DEF KeysStep
    <3> QED BY <2>2, <3>1, <3>2
  <2>4. CASE s[n] \notin {None, Unit}
    <3>1. Identified(s, n) = Identified(s, n - 1) \cup {n} /\ n \notin Identified(s, n - 1)
      BY <2>1, <2>4 DEF Identified
    <3>2. KeysStep(p, n, v) = Append(v, s[n]) /\ s[n] \in Ids
      BY <1>0, <2>1, <2>4 DEF KeysStep
    <3>3. IsFiniteSet(Identified(s, n - 1))
      BY <2>1, IdentifiedCount
    <3>4. Cardinality(Identified(s, n)) = Len(v) + 1
      <4> DEFINE I == Identified(s, n - 1)
      <4>1. IsFiniteSet(I) /\ n \notin I /\ Len(v) = Cardinality(I) /\ Identified(s, n) = I \cup {n}
        BY <2>2, <3>1, <3>3
      <4> HIDE DEF I
      <4>2. Cardinality(I \cup {n}) = Cardinality(I) + 1
        BY <4>1, FS_AddElement
      <4> QED BY <4>1, <4>2
    <3>5. Append(v, s[n]) \in Seq(Ids) /\ Len(Append(v, s[n])) = Len(v) + 1
      BY <2>2, <3>2
    <3>6. ASSUME NEW i \in Identified(s, n)
          PROVE  Append(v, s[n])[Cardinality(Identified(s, i))] = s[i]
      <4>1. CASE i = n
        BY <2>2, <3>4, <4>1
      <4>2. CASE i # n
        <5>1. i \in Identified(s, n - 1) /\ i \in Nat
          BY <2>1, <3>1, <4>2 DEF Identified
        <5>2. Identified(s, i) \subseteq Identified(s, n - 1) /\ i \in Identified(s, i)
          <6>1. i \in 1 .. (n - 1) /\ s[i] \notin {None, Unit}
            BY <5>1 DEF Identified
          <6>2. 1 .. i \subseteq 1 .. (n - 1) /\ i \in 1 .. i
            BY <2>1, <6>1
          <6> QED BY <6>1, <6>2 DEF Identified
        <5>3. Cardinality(Identified(s, i)) <= Len(v)
          BY <2>2, <3>3, <5>2, FS_Subset
        <5>4. Cardinality(Identified(s, i)) \in Nat /\ Cardinality(Identified(s, i)) # 0
          BY <5>1, <5>2, IdentifiedCount, FS_EmptySet
        <5>5. v[Cardinality(Identified(s, i))] = s[i]
          BY <2>2, <5>1
        <5> QED BY <2>2, <5>3, <5>4, <5>5
      <4> QED BY <4>1, <4>2
    <3>7. ASSUME NEW k \in 1 .. Len(v) + 1
          PROVE  \E i \in Identified(s, n) : Append(v, s[n])[k] = s[i]
      <4>1. CASE k = Len(v) + 1
        BY <2>2, <3>1, <4>1
      <4>2. CASE k # Len(v) + 1
        <5>1. k \in 1 .. Len(v)
          BY <2>2, <4>2
        <5>2. PICK i \in Identified(s, n - 1) : v[k] = s[i]
          BY <2>2, <5>1
        <5> QED BY <2>2, <3>1, <5>1, <5>2
      <4> QED BY <4>1, <4>2
    <3> QED BY <3>2, <3>4, <3>5, <3>6, <3>7
  <2> QED BY <2>3, <2>4
<1>6. KeysInv(p, all, DOMAIN s)
  BY <1>2, <1>3, <1>4, <1>5, Naming!FoldInv DEF Naming!IsFiniteSet, IsFiniteSet
<1>7. /\ Len(all) = Cardinality(Identified(s, N)) /\ all \in Seq(Ids)
      /\ \A i \in Identified(s, N) : all[Cardinality(Identified(s, i))] = s[i]
      /\ \A k \in 1 .. Len(all) : \E i \in Identified(s, N) : all[k] = s[i]
  BY <1>0, <1>1, <1>6, Zenon DEF KeysInv
<1>8. \A x \in Range(all) : \E i \in Identified(s, N) : x = s[i]
  <2>1. DOMAIN all = 1 .. Len(all)
    BY <1>7
  <2> QED BY <1>7, <2>1 DEF Range
<1> QED BY <1>7, <1>8, Zenon DEF all

\* Of two rows with the same keys, neither names an entity where the other does
\* not: only an outer join may, and there is one.
LEMMA SamePlaces ==
  ASSUME None \notin Ids, NEW params, DOMAIN params = 1 .. Len(params), Len(params) \in Nat,
         \A i, j \in DOMAIN params : params[i].kind = "outer" /\ params[j].kind = "outer" => i = j,
         NEW s, NEW t, RowShape(params, s), RowShape(params, t),
         Cardinality(Identified(s, Len(params))) = Cardinality(Identified(t, Len(params)))
  PROVE  Identified(s, Len(params)) \subseteq Identified(t, Len(params))
<1> DEFINE N == Len(params)
<1>0. Unit \notin Ids /\ \A e \in Ids : e \notin {None, Unit}
  BY DEF Ids, Allocated, Unit
<1>1. SUFFICES ASSUME NEW j \in Identified(s, N), j \notin Identified(t, N) PROVE FALSE
  OBVIOUS
<1>2. j \in DOMAIN params /\ params[j].kind = "outer"
  BY <1>0, <1>1 DEF Identified, RowShape
<1>3. ASSUME NEW i \in 1 .. N, i # j PROVE i \in Identified(s, N) <=> i \in Identified(t, N)
  <2>1. params[i].kind # "outer"
    BY <1>2, <1>3
  <2>2. /\ params[i].kind = "query" => s[i] \in Ids /\ t[i] \in Ids
        /\ params[i].kind \notin {"query", "outer"} => s[i] = Unit /\ t[i] = Unit
    BY DEF RowShape
  <2> QED BY <1>0, <2>1, <2>2 DEF Identified
<1>4. Identified(s, N) = Identified(t, N) \cup {j}
  BY <1>1, <1>3 DEF Identified
<1>5. Cardinality(Identified(s, N)) = Cardinality(Identified(t, N)) + 1
  BY <1>1, <1>4, IdentifiedCount, FS_AddElement
<1> QED BY <1>5, IdentifiedCount

\* The keys of a row tell which row it is.
LEMMA KeysTell ==
  ASSUME None \notin Ids, NEW params, DOMAIN params = 1 .. Len(params), Len(params) \in Nat,
         \A i, j \in DOMAIN params : params[i].kind = "outer" /\ params[j].kind = "outer" => i = j,
         NEW s, NEW t, RowShape(params, s), RowShape(params, t), Keys(s) = Keys(t)
  PROVE  s = t
<1> DEFINE N == Len(params)
<1>1. /\ Tuple(s, N) /\ \A j \in 1 .. N : s[j] \in Ids \cup {None, Unit}
      /\ Tuple(t, N) /\ \A j \in 1 .. N : t[j] \in Ids \cup {None, Unit}
  BY DEF RowShape
<1>2. /\ Len(Keys(s)) = Cardinality(Identified(s, N))
      /\ \A i \in Identified(s, N) : Keys(s)[Cardinality(Identified(s, i))] = s[i]
  BY <1>1, KeysOfRow
<1>3. /\ Len(Keys(t)) = Cardinality(Identified(t, N))
      /\ \A i \in Identified(t, N) : Keys(t)[Cardinality(Identified(t, i))] = t[i]
  BY <1>1, KeysOfRow
<1>4. Identified(s, N) \subseteq Identified(t, N)
  BY <1>2, <1>3, SamePlaces
<1>5. Identified(t, N) \subseteq Identified(s, N)
  BY <1>2, <1>3, SamePlaces
<1>6. ASSUME NEW i \in 1 .. N PROVE s[i] = t[i]
  <2>1. CASE i \in Identified(s, N)
    <3>1. Identified(s, i) = Identified(t, i)
      BY <1>4, <1>5 DEF Identified
    <3> QED BY <1>2, <1>3, <1>4, <1>5, <2>1, <3>1
  <2>2. CASE i \notin Identified(s, N)
    <3>1. s[i] \in {None, Unit} /\ t[i] \in {None, Unit}
      BY <1>4, <1>5, <2>2 DEF Identified
    <3>2. None \notin Ids /\ Unit \notin Ids
      BY DEF Ids, Allocated, Unit
    <3>3. CASE params[i].kind = "query"
      BY <3>1, <3>2, <3>3 DEF RowShape
    <3>4. CASE params[i].kind = "outer"
      BY <3>1, <3>2, <3>4 DEF RowShape
    <3>5. CASE params[i].kind \notin {"query", "outer"}
      BY <3>5 DEF RowShape
    <3> QED BY <3>3, <3>4, <3>5
  <2> QED BY <2>1, <2>2
<1> QED BY <1>1, <1>6 DEF Tuple

-----------------------------------------------------------------------------
(* Dependencies *)

\* What dependencies can tell: an untracked type promises nothing, so what
\* decides the members of a Related is tracked, and a TrackedView watches what
\* its parts and its filter borrow, which covers no facet (queries_facet_view).
ViewTypes(p) ==
    {r.type : r \in {x \in PartsOf(p) : x.kind # "tracked"}}
        \cup {a.type : a \in Atoms(p.filter, {"with", "eq", "without"})}
FacetTypes(p) ==
    {f.type : f \in p.facet} \cup UNION {{f.type : f \in r.facet} : r \in {x \in PartsOf(p) : x.kind = "tracked"}}
ObservedOK(p) ==
    /\ \A r \in PartsOf(p) : r.kind = "related" =>
          /\ r.type \in Inverses \cap Tracked
          /\ \A q \in r.of : q.kind = "read" => q.type \in Tracked
    /\ p.kind = "trackedview" =>
          FacetTypes(p) \subseteq ViewTypes(p) /\ \A r \in PartsOf(p) : r.kind # "related"

\* A dependency tells a watermark of the world or the revision of an entry.
Told(w, x) ==
    \/ x[2] = 0 /\ x[3] = w.watermark[x[1]]
    \/ x[2] \in Ids /\ x[3] = RevisionOf(w, x[1], x[2])

\* A dependency on an entry, and one on a store.
LEMMA DepTold ==
  ASSUME NEW w, NEW c
  PROVE  /\ \A e \in Ids : \A x \in ComponentDep(w, c, e) : Told(w, x)
         /\ Told(w, StoreWatermarkDep(w, c))
BY DEF ComponentDep, StoreWatermarkDep, Told

\* The members of an inverse are allocated.
LEMMA MembersAllocated ==
  ASSUME InitOK, NEW w, Ordered(w), NEW t \in Inverses, NEW e
  PROVE  Members(w, t, e) \subseteq Ids
<1>1. PICK c \in Edges : t = InverseOf[c]
  BY DEF Inverses
<1>2. Linked(w) /\ StoreOf(w, c) \subseteq Ids
  BY OrderedStores, WorldAssumption DEF Edges
<1>3. ASSUME NEW m \in Members(w, t, e) PROVE m \in Ids
  <2>1. Edge(w, c, m, e)
    BY <1>1, <1>2, <1>3 DEF Linked, Member
  <2> QED BY <1>2, <2>1 DEF Edge, StoreOf
<1> QED BY <1>3

\* The dependencies of a part of a row are of this form,
LEMMA PartDepsTold ==
  ASSUME InitOK, NEW w, Ordered(w), NEW r, r.kind \in PartKinds, NEW e \in Ids,
         r.kind = "related" => r.type \in Inverses
  PROVE  \A x \in PartAt(w, r, e).deps : Told(w, x)
<1>1. CASE r.kind \in {"read", "option", "mut"}
  <2>1. PartAt(w, r, e).deps = ComponentDep(w, r.type, e)
    BY <1>1 DEF PartAt, ReadPart, OptionalPart, MutPart
  <2> QED BY <2>1, DepTold
<1>2. CASE r.kind = "tracked"
  <2>1. PartAt(w, r, e).deps = UNION {ComponentDep(w, c, e) : c \in {f.type : f \in r.facet}}
    BY <1>2 DEF PartAt, TrackedPart
  <2>2. ASSUME NEW x \in PartAt(w, r, e).deps PROVE Told(w, x)
    <3>1. PICK c : x \in ComponentDep(w, c, e)
      BY <2>1
    <3> QED BY <3>1, DepTold
  <2> QED BY <2>2
<1>3. CASE r.kind = "related"
  <2> DEFINE members == Members(w, r.type, e)
  <2>1. PartAt(w, r, e).deps = ComponentDep(w, r.type, e) \cup UNION {MemberDeps(w, r, m) : m \in members}
    BY <1>3 DEF PartAt, RelatedPart
  <2>2. members \subseteq Ids
    BY <1>3, MembersAllocated
  <2> HIDE DEF members
  <2>3. ASSUME NEW m \in members, NEW x \in MemberDeps(w, r, m) PROVE Told(w, x)
    <3>1. PICK q \in r.of : x \in ComponentDep(w, q.type, m)
      BY <2>3 DEF MemberDeps, MemberPart
    <3> QED BY <2>2, <3>1, DepTold
  <2>4. \A x \in ComponentDep(w, r.type, e) : Told(w, x)
    BY DepTold
  <2> QED BY <2>1, <2>3, <2>4
<1> QED BY <1>1, <1>2, <1>3 DEF PartKinds

\* and so are those of a row.
LEMMA StateDepsTold ==
  ASSUME InitOK, NEW w, Ordered(w), NEW params, SystemOK(params),
         \A i \in DOMAIN params : ObservedOK(params[i]), NEW s, RowShape(params, s)
  PROVE  \A x \in StateDeps(w, params, s) : Told(w, x)
<1> SUFFICES ASSUME NEW x \in StateDeps(w, params, s) PROVE Told(w, x)
  OBVIOUS
<1>1. PICK i \in DOMAIN params : x \in ParamDeps(w, params[i], s[i])
  BY DEF StateDeps
<1> DEFINE p == params[i]
           e == s[i]
<1>2. /\ ParamOK(p) /\ ObservedOK(p)
      /\ p.kind = "query" => e \in Ids
      /\ p.kind = "outer" => e \in Ids \cup {None}
  BY DEF SystemOK, RowShape
<1>3. CASE p.kind \in {"query", "outer"} /\ e # None
  <2>1. x \in RowDeps(w, p, e) /\ e \in Ids
    BY <1>1, <1>2, <1>3 DEF ParamDeps
  <2>2. CASE x \in FilterDeps(w, p.filter, e)
    <3>1. PICK a \in Drivers(p.filter) : x \in ComponentDep(w, a.type, e)
      BY <2>2 DEF FilterDeps
    <3> QED BY <2>1, <3>1, DepTold
  <2>3. CASE x \notin FilterDeps(w, p.filter, e)
    <3>1. PICK r \in PartsOf(p) : x \in PartAt(w, r, e).deps
      BY <2>1, <2>3 DEF RowDeps
    <3>2. r.kind \in PartKinds /\ (r.kind = "related" => r.type \in Inverses)
      BY <1>2, <1>3, <3>1 DEF ParamOK, QueryOK, ObservedOK
    <3> QED BY <2>1, <3>1, <3>2, PartDepsTold
  <2> QED BY <2>2, <2>3
<1>4. CASE ~(p.kind \in {"query", "outer"} /\ e # None)
  <2>1. \E c : x = StoreWatermarkDep(w, c)
    <3>1. CASE p.kind = "query"
      <4>1. e \in Ids /\ e = None
        BY <1>2, <1>4, <3>1
      <4>2. ParamDeps(w, p, e) = {}
        BY <3>1, <4>1 DEF ParamDeps
      <4> QED BY <1>1, <4>2
    <3>2. CASE p.kind = "outer"
      <4>1. e = None
        BY <1>4, <3>2
      <4>2. ParamDeps(w, p, e)
              = {StoreWatermarkDep(w, c) : c \in {a[2] : a \in AccessAll(w, p)} \cup EqKeys(p.filter)}
        BY <3>2, <4>1 DEF ParamDeps
      <4> QED BY <1>1, <4>2
    <3>3. CASE p.kind = "trackedview"
      <4>1. ParamDeps(w, p, e) = {StoreWatermarkDep(w, c) : c \in TrackedViewTypes(w, p)}
        BY <3>3 DEF ParamDeps
      <4> QED BY <1>1, <4>1
    <3>4. CASE p.kind \notin {"query", "outer", "trackedview"}
      <4>1. ParamDeps(w, p, e) = {}
        BY <3>4 DEF ParamDeps
      <4> QED BY <1>1, <4>1
    <3> QED BY <3>1, <3>2, <3>3, <3>4
  <2> QED BY <2>1, DepTold
<1> QED BY <1>3, <1>4

\* An entry whose revision is what it was is what it was.
LEMMA SameRevision ==
  ASSUME InitOK, None \notin Nat, NEW v, Ordered(v), NEW w, Ordered(w), Grows(v, w),
         NEW c \in Tracked, NEW e, RevisionOf(v, c, e) = RevisionOf(w, c, e)
  PROVE  SameEntry(v, w, c, e)
<1>0. c \in Components
  BY WorldAssumption
<1>1. /\ \A f \in DOMAIN v.entries[c] : v.entries[c][f].revision \in Nat /\ v.entries[c][f].revision <= v.revision
      /\ \A f \in DOMAIN w.entries[c] : w.entries[c][f].revision \in Nat
      /\ v.revision \in Nat
  <2>1. IsWorld(v) /\ RevisionsBounded(v) /\ IsWorld(w)
    BY OrderedStores
  <2>2. v.watermark[c] <= v.revision /\ v.watermark[c] \in Nat /\ v.revision \in Nat
    BY <1>0, <2>1 DEF IsWorld, RevisionsBounded
  <2>3. ASSUME NEW f \in DOMAIN v.entries[c]
        PROVE  v.entries[c][f].revision \in Nat /\ v.entries[c][f].revision <= v.watermark[c]
    BY <1>0, <2>1 DEF IsWorld, RevisionsBounded, Entry
  <2>4. \A f \in DOMAIN w.entries[c] : w.entries[c][f].revision \in Nat
    BY <1>0, <2>1 DEF IsWorld
  <2>5. ASSUME NEW f \in DOMAIN v.entries[c] PROVE v.entries[c][f].revision <= v.revision
    BY <2>2, <2>3
  <2> QED BY <2>2, <2>3, <2>4, <2>5
<1>2. CASE e \in DOMAIN w.entries[c]
  <2>1. RevisionOf(w, c, e) = w.entries[c][e].revision
    BY <1>2 DEF RevisionOf, Has, Entry
  <2>2. e \in DOMAIN v.entries[c] /\ v.entries[c][e].revision = w.entries[c][e].revision
    BY <1>1, <1>2, <2>1 DEF RevisionOf, Has, Entry
  <2>3. ~(v.revision < w.entries[c][e].revision)
    BY <1>1, <2>2
  <2> QED BY <1>0, <1>2, <2>3 DEF Grows
<1>3. CASE e \notin DOMAIN w.entries[c]
  <2>1. e \notin DOMAIN v.entries[c]
    BY <1>1, <1>3 DEF RevisionOf, Has, Entry
  <2> QED BY <1>3, <2>1 DEF SameEntry
<1> QED BY <1>2, <1>3

\* A dependency on an entry that still tells the world: what the entry shows.
LEMMA SameShown ==
  ASSUME InitOK, None \notin Nat, NEW v, Ordered(v), NEW w, Ordered(w), Grows(v, w),
         NEW c, NEW e \in Ids, \A x \in ComponentDep(v, c, e) : Told(w, x)
  PROVE  /\ Shown(v, c, e) = Shown(w, c, e)
         /\ c \in Tracked => SameEntry(v, w, c, e)
<1>1. CASE c \in Tracked
  <2>1. Told(w, <<c, e, RevisionOf(v, c, e)>>)
    BY <1>1 DEF ComponentDep
  <2>2. e # 0
    BY DEF Ids, Allocated
  <2>3. RevisionOf(v, c, e) = RevisionOf(w, c, e)
    BY <2>1, <2>2 DEF Told
  <2>4. SameEntry(v, w, c, e)
    BY <1>1, <2>3, SameRevision
  <2> QED BY <1>1, <2>4 DEF SameEntry, Shown, Has, Entry
<1>2. CASE c \notin Tracked
  BY <1>2 DEF Shown
<1> QED BY <1>1, <1>2

\* A part of a row whose dependencies still tell the world shows the same.
LEMMA SamePart ==
  ASSUME InitOK, None \notin Nat, NEW v, Ordered(v), NEW w, Ordered(w), Grows(v, w),
         NEW r, r.kind \in PartKinds, NEW e \in Ids,
         r.kind = "related" => /\ r.type \in Inverses \cap Tracked
                               /\ \A q \in r.of : q.kind = "read" => q.type \in Tracked,
         \A x \in PartAt(v, r, e).deps : Told(w, x)
  PROVE  PartAt(v, r, e).shown = PartAt(w, r, e).shown
<1>1. CASE r.kind \in {"read", "option", "mut"}
  <2>1. PartAt(v, r, e).deps = ComponentDep(v, r.type, e)
    BY <1>1 DEF PartAt, ReadPart, OptionalPart, MutPart
  <2>2. PartAt(v, r, e).shown = Shown(v, r.type, e) /\ PartAt(w, r, e).shown = Shown(w, r.type, e)
    BY <1>1 DEF PartAt, ReadPart, OptionalPart, MutPart
  <2> QED BY <2>1, <2>2, SameShown
<1>2. CASE r.kind = "tracked"
  <2> DEFINE types == {f.type : f \in r.facet}
  <2>1. PartAt(v, r, e).deps = UNION {ComponentDep(v, c, e) : c \in types}
    BY <1>2 DEF PartAt, TrackedPart
  <2>2. /\ PartAt(v, r, e).shown = {<<c, Shown(v, c, e)>> : c \in types}
        /\ PartAt(w, r, e).shown = {<<c, Shown(w, c, e)>> : c \in types}
    BY <1>2 DEF PartAt, TrackedPart
  <2> HIDE DEF types
  <2>3. ASSUME NEW c \in types PROVE Shown(v, c, e) = Shown(w, c, e)
    <3>1. \A x \in ComponentDep(v, c, e) : Told(w, x)
      BY <2>1
    <3> QED BY <3>1, SameShown
  <2> QED BY <2>2, <2>3
<1>3. CASE r.kind = "related"
  <2> DEFINE members(u) == Members(u, r.type, e)
             projected(u) == {m \in members(u) : MemberMatches(u, r, m)}
             view(u) == {<<m, {<<q.type, MemberPart(u, q, m).shown>> : q \in r.of}>> : m \in projected(u)}
  <2>1. PartAt(v, r, e).deps = ComponentDep(v, r.type, e) \cup UNION {MemberDeps(v, r, m) : m \in members(v)}
    BY <1>3 DEF PartAt, RelatedPart
  <2>2. PartAt(v, r, e).shown = view(v) /\ PartAt(w, r, e).shown = view(w)
    BY <1>3 DEF PartAt, RelatedPart
  <2>3. SameEntry(v, w, r.type, e)
    BY <1>3, <2>1, SameShown
  <2>4. members(v) = members(w)
    BY <1>3, <2>3 DEF SameEntry, Members, Has, Entry
  <2>5. members(v) \subseteq Ids
    BY <1>3, MembersAllocated
  <2>6. ASSUME NEW m \in members(v), NEW q \in r.of
        PROVE  /\ MemberPart(v, q, m).shown = MemberPart(w, q, m).shown
               /\ MemberPart(v, q, m).matches = MemberPart(w, q, m).matches
    <3>1. MemberPart(v, q, m).deps = ComponentDep(v, q.type, m)
      BY DEF MemberPart
    <3>2. \A x \in ComponentDep(v, q.type, m) : Told(w, x)
      BY <2>1, <2>6, <3>1 DEF MemberDeps
    <3>3. /\ Shown(v, q.type, m) = Shown(w, q.type, m)
          /\ q.type \in Tracked => SameEntry(v, w, q.type, m)
      BY <2>5, <2>6, <3>2, SameShown
    <3>4. q.kind = "read" => (Has(v, q.type, m) <=> Has(w, q.type, m))
      BY <1>3, <3>3 DEF SameEntry, Has
    <3> QED BY <3>3, <3>4 DEF MemberPart
  <2> HIDE DEF members
  <2>7. ASSUME NEW m \in members(v)
        PROVE  /\ MemberMatches(v, r, m) <=> MemberMatches(w, r, m)
               /\ {<<q.type, MemberPart(v, q, m).shown>> : q \in r.of}
                    = {<<q.type, MemberPart(w, q, m).shown>> : q \in r.of}
    BY <2>6 DEF MemberMatches
  <2>8. projected(v) = projected(w)
    BY <2>4, <2>7
  <2>9. projected(v) \subseteq members(v)
    OBVIOUS
  <2> HIDE DEF projected
  <2>10. view(v) = view(w)
    BY <2>7, <2>8, <2>9
  <2> QED BY <2>2, <2>10
<1> QED BY <1>1, <1>2, <1>3 DEF PartKinds

\* The stores a view watches are the types its parts and its filter borrow.
LEMMA ViewWatches ==
  ASSUME NEW w, NEW p, ParamOK(p), ObservedOK(p), p.kind = "trackedview"
  PROVE  TrackedViewTypes(w, p) = ViewTypes(p)
<1>1. \A r \in PartsOf(p) : r.kind \in PartKinds \ {"related"}
  BY DEF ParamOK, QueryOK, ObservedOK
<1>2. ASSUME NEW r \in PartsOf(p)
      PROVE  {a[2] : a \in PartOf(w, r).accessAll} = IF r.kind = "tracked" THEN {} ELSE {r.type}
  <2>1. CASE r.kind \in {"read", "option", "mut"}
    <3>1. \E m : PartOf(w, r).accessAll = {<<m, r.type, None>>}
      BY <2>1 DEF PartOf, PartAt, ReadPart, OptionalPart, MutPart
    <3> QED BY <2>1, <3>1
  <2>2. CASE r.kind = "tracked"
    BY <2>2 DEF PartOf, PartAt, TrackedPart
  <2> QED BY <1>1, <2>1, <2>2 DEF PartKinds
<1>3. {a[2] : a \in FilterAccessAll(p.filter)}
        = {a.type : a \in Atoms(p.filter, {"with", "eq", "without"})}
  <2> DEFINE atoms == Atoms(p.filter, {"with", "eq", "without"})
  <2>1. FilterAccessAll(p.filter) = {<<"read", a.type, None>> : a \in atoms}
    BY DEF FilterAccessAll, FilterAccess
  <2> HIDE DEF atoms
  <2>2. ASSUME NEW x \in FilterAccessAll(p.filter) PROVE x[2] \in {a.type : a \in atoms}
    BY <2>1
  <2>3. ASSUME NEW a \in atoms PROVE a.type \in {x[2] : x \in FilterAccessAll(p.filter)}
    <3>1. <<"read", a.type, None>> \in FilterAccessAll(p.filter) /\ <<"read", a.type, None>>[2] = a.type
      BY <2>1
    <3> QED BY <3>1
  <2>4. {x[2] : x \in FilterAccessAll(p.filter)} = {a.type : a \in atoms}
    BY <2>2, <2>3
  <2> QED BY <2>4 DEF atoms
<1>4. {a[2] : a \in AccessAll(w, p)} = {r.type : r \in {x \in PartsOf(p) : x.kind # "tracked"}}
  <2>1. ASSUME NEW a \in AccessAll(w, p)
        PROVE  a[2] \in {r.type : r \in {x \in PartsOf(p) : x.kind # "tracked"}}
    <3>1. PICK r \in PartsOf(p) : a \in PartOf(w, r).accessAll
      BY DEF AccessAll
    <3>2. a[2] \in {b[2] : b \in PartOf(w, r).accessAll}
      BY <3>1
    <3> QED BY <1>2, <3>2
  <2>2. ASSUME NEW r \in PartsOf(p), r.kind # "tracked"
        PROVE  r.type \in {a[2] : a \in AccessAll(w, p)}
    <3>1. PICK a \in PartOf(w, r).accessAll : a[2] = r.type
      <4>1. r.type \in {b[2] : b \in PartOf(w, r).accessAll}
        BY <1>2, <2>2
      <4> QED BY <4>1
    <3>2. a \in AccessAll(w, p)
      BY <3>1 DEF AccessAll
    <3> QED BY <3>1, <3>2
  <2> QED BY <2>1, <2>2
<1>5. TrackedViewTypes(w, p)
        = {a[2] : a \in AccessAll(w, p)} \cup {a[2] : a \in FilterAccessAll(p.filter)}
  BY DEF TrackedViewTypes, ViewAccess
<1> QED BY <1>3, <1>4, <1>5 DEF ViewTypes

\* A watermark that is what it was: the store is what it was.
LEMMA SameStore ==
  ASSUME InitOK, NEW v, Ordered(v), NEW w, Ordered(w), Grows(v, w),
         NEW c \in Components, Told(w, StoreWatermarkDep(v, c))
  PROVE  \A e : SameEntry(v, w, c, e)
<1>1. IsWorld(v) /\ RevisionsBounded(v)
  BY OrderedStores
<1>2. v.watermark[c] <= v.revision /\ v.watermark[c] \in Nat /\ v.revision \in Nat
  BY <1>1 DEF IsWorld, RevisionsBounded
<1>3. w.watermark[c] = v.watermark[c]
  BY DEF Told, StoreWatermarkDep, Ids, Allocated
<1>4. ~(v.revision < w.watermark[c])
  BY <1>2, <1>3
<1> QED BY <1>4 DEF Grows

\* An entry that is what it was shows the same.
LEMMA ShownOf ==
  ASSUME NEW v, NEW w, NEW c, NEW e, c \in Components => SameEntry(v, w, c, e)
  PROVE  Shown(v, c, e) = Shown(w, c, e)
BY WorldAssumption DEF SameEntry, Shown, Has, Entry

\* What a view shows, while the stores it watches are what they were.
LEMMA SameView ==
  ASSUME InitOK, NEW v, Ordered(v), NEW w, Ordered(w), Grows(v, w),
         NEW p, ParamOK(p), ObservedOK(p), p.kind = "trackedview",
         \A c \in TrackedViewTypes(v, p) : Told(w, StoreWatermarkDep(v, c))
  PROVE  \A e : ParamShown(v, p, e) = ParamShown(w, p, e)
<1> TAKE e0
<1>1. ASSUME NEW c \in ViewTypes(p), NEW e, c \in Components PROVE SameEntry(v, w, c, e)
  BY <1>1, ViewWatches, SameStore
<1>2. FacetTypes(p) \subseteq ViewTypes(p) /\ \A r \in PartsOf(p) : r.kind \in PartKinds \ {"related"}
  BY DEF ParamOK, QueryOK, ObservedOK
<1>3. ASSUME NEW r \in PartsOf(p), NEW e
      PROVE  PartAt(v, r, e).shown = PartAt(w, r, e).shown
  <2>1. CASE r.kind \in {"read", "option", "mut"}
    <3>1. r.type \in ViewTypes(p)
      BY <2>1 DEF ViewTypes
    <3>2. PartAt(v, r, e).shown = Shown(v, r.type, e) /\ PartAt(w, r, e).shown = Shown(w, r.type, e)
      BY <2>1 DEF PartAt, ReadPart, OptionalPart, MutPart
    <3> QED BY <1>1, <3>1, <3>2, ShownOf
  <2>2. CASE r.kind = "tracked"
    <3> DEFINE types == {f.type : f \in r.facet}
    <3>1. types \subseteq ViewTypes(p)
      BY <1>2, <2>2 DEF FacetTypes
    <3>2. /\ PartAt(v, r, e).shown = {<<c, Shown(v, c, e)>> : c \in types}
          /\ PartAt(w, r, e).shown = {<<c, Shown(w, c, e)>> : c \in types}
      BY <2>2 DEF PartAt, TrackedPart
    <3> HIDE DEF types
    <3>3. ASSUME NEW c \in types PROVE Shown(v, c, e) = Shown(w, c, e)
      BY <1>1, <3>1, ShownOf
    <3> QED BY <3>2, <3>3
  <2> QED BY <1>2, <2>1, <2>2 DEF PartKinds
<1>4. ASSUME NEW e PROVE Belongs(v, p, e) <=> Belongs(w, p, e)
  <2>1. Allocated(v) = Allocated(w)
    BY OrderedStores
  <2>2. ASSUME NEW c \in Required(p.facet) \cup PartRequires(p)
        PROVE Has(v, c, e) <=> Has(w, c, e)
    <3>1. c \in ViewTypes(p)
      <4>1. CASE c \in Required(p.facet)
        BY <1>2, <4>1 DEF Required, FacetTypes
      <4>2. CASE c \in PartRequires(p)
        BY <4>2 DEF PartRequires, ViewTypes
      <4> QED BY <2>2, <4>1, <4>2
    <3>2. c \in Components
      BY <2>2 DEF ParamOK, QueryOK, PartRequires
    <3> QED BY <1>1, <3>1, <3>2 DEF SameEntry, Has
  <2>3. ASSUME NEW a \in p.filter PROVE AtomMatches(v, a, e) <=> AtomMatches(w, a, e)
    <3>1. a.kind \in AtomKinds /\ a.type \in Components
      BY DEF ParamOK
    <3>2. CASE a.kind = "in"
      BY <3>2 DEF AtomMatches
    <3>3. CASE a.kind \in {"with", "eq", "without"}
      <4>1. a.type \in ViewTypes(p)
        BY <3>3 DEF ViewTypes, Atoms
      <4>2. Has(v, a.type, e) <=> Has(w, a.type, e)
        BY <1>1, <3>1, <4>1 DEF SameEntry, Has
      <4> QED BY <3>3, <4>2 DEF AtomMatches
    <3> QED BY <3>1, <3>2, <3>3 DEF AtomKinds
  <2> QED BY <2>1, <2>2, <2>3 DEF Belongs, HasAll, FilterMatches
<1>5. FilteredRows(v, p) = FilteredRows(w, p)
  <2>1. FilteredRows(v, p) = {e \in Ids : Belongs(v, p, e)} /\ FilteredRows(w, p) = {e \in Ids : Belongs(w, p, e)}
    BY RowsBelong
  <2> QED BY <1>4, <2>1
<1> DEFINE row(u, x) == <<x, {<<r, PartAt(u, r, x).shown>> : r \in PartsOf(p)}>>
<1>6. /\ ParamShown(v, p, e0) = {row(v, x) : x \in FilteredRows(v, p)}
      /\ ParamShown(w, p, e0) = {row(w, x) : x \in FilteredRows(w, p)}
  BY DEF ParamShown
<1>7. \A x : row(v, x) = row(w, x)
  BY <1>3
<1> HIDE DEF row
<1> QED BY <1>5, <1>6, <1>7

\* What a row shows, while what it depends on is what it was.
LEMMA SameState ==
  ASSUME InitOK, None \notin Nat, NEW v, Ordered(v), NEW w, Ordered(w), Grows(v, w),
         NEW params, SystemOK(params), \A i \in DOMAIN params : ObservedOK(params[i]),
         NEW s, RowShape(params, s), StateDeps(v, params, s) = StateDeps(w, params, s)
  PROVE  StateShown(v, params, s) = StateShown(w, params, s)
<1>1. \A x \in StateDeps(v, params, s) : Told(w, x)
  BY StateDepsTold
<1>2. ASSUME NEW i \in DOMAIN params
      PROVE  ParamShown(v, params[i], s[i]) = ParamShown(w, params[i], s[i])
  <2> DEFINE p == params[i]
             e == s[i]
  <2>1. /\ ParamOK(p) /\ ObservedOK(p)
        /\ p.kind = "query" => e \in Ids
        /\ p.kind = "outer" => e \in Ids \cup {None}
    BY DEF SystemOK, RowShape
  <2>2. \A x \in ParamDeps(v, p, e) : Told(w, x)
    BY <1>1 DEF StateDeps
  <2>3. CASE p.kind \in {"query", "outer"} /\ e # None
    <3>1. e \in Ids /\ ParamDeps(v, p, e) = RowDeps(v, p, e)
      BY <2>1, <2>3 DEF ParamDeps
    <3>2. ASSUME NEW r \in PartsOf(p) PROVE PartAt(v, r, e).shown = PartAt(w, r, e).shown
      <4>1. PartAt(v, r, e).deps \subseteq RowDeps(v, p, e)
        BY DEF RowDeps
      <4>2. /\ r.kind \in PartKinds
            /\ r.kind = "related" => /\ r.type \in Inverses \cap Tracked
                                     /\ \A q \in r.of : q.kind = "read" => q.type \in Tracked
        BY <2>1, <2>3, <3>2 DEF ParamOK, QueryOK, ObservedOK
      <4>3. \A x \in PartAt(v, r, e).deps : Told(w, x)
        BY <2>2, <3>1, <4>1
      <4> QED BY <3>1, <4>2, <4>3, SamePart
    <3>3. /\ ParamShown(v, p, e) = {<<r, PartAt(v, r, e).shown>> : r \in PartsOf(p)}
          /\ ParamShown(w, p, e) = {<<r, PartAt(w, r, e).shown>> : r \in PartsOf(p)}
      BY <2>3 DEF ParamShown
    <3> QED BY <3>2, <3>3
  <2>4. CASE p.kind = "trackedview"
    <3>1. ParamDeps(v, p, e) = {StoreWatermarkDep(v, c) : c \in TrackedViewTypes(v, p)}
      BY <2>4 DEF ParamDeps
    <3>2. \A c \in TrackedViewTypes(v, p) : Told(w, StoreWatermarkDep(v, c))
      BY <2>2, <3>1
    <3> QED BY <2>1, <2>4, <3>2, SameView
  <2>5. CASE ~(p.kind \in {"query", "outer"} /\ e # None) /\ p.kind # "trackedview"
    BY <2>5 DEF ParamShown
  <2> QED BY <2>3, <2>4, <2>5
<1> QED BY <1>2 DEF StateShown

\* The plans whose rows their keys identify, and whose dependencies cover what
\* they read.  A row without a partner drops its key, and with two outer joins the
\* keys do not say which of them has it.
OneOuter(params) ==
    \A i, j \in DOMAIN params : params[i].kind = "outer" /\ params[j].kind = "outer" => i = j
MemosOK ==
    /\ None \notin Nat
    /\ \A s \in DOMAIN Plans : OneOuter(Plans[s]) /\ \A i \in DOMAIN Plans[s] : ObservedOK(Plans[s][i])

\* A memo describes a row of these keys in a world the bowl has passed.
Honest(w, params, k, m) ==
    \E v, s : /\ Ordered(v) /\ Grows(v, w) /\ RowShape(params, s) /\ Keys(s) = k
              /\ m.deps = StateDeps(v, params, s) /\ m.shown = StateShown(v, params, s)
MemosHonest == \A k \in DOMAIN memo : Honest(world, Params, k, memo[k])

\* The rows of a system have its shape.
LEMMA StatesShape ==
  ASSUME InitOK, None \notin Ids, NEW w, Ordered(w), NEW params, SystemOK(params), JoinOK(params),
         NEW s \in States(w, params)
  PROVE  RowShape(params, s)
<1>1. Tuple(s, Len(params)) /\ IsState(w, params, s)
  BY StatesAre
<1>2. \A i \in DOMAIN params : RowOf(w, params, s, i)
  BY <1>1, IsStateRows
<1> QED BY <1>1, <1>2 DEF RowShape, RowOf

\* A memo stays honest as the world grows, and a plan writes honest ones.
LEMMA HonestInvariant ==
  ASSUME InitOK, WritesOK, SystemsOK, JoinsOK
  PROVE  Spec => [](PlanState /\ MemosHonest)
<1>1. Init => MemosHonest
  BY DEF Init, MemosHonest
<1>2. PlanState /\ HintsOnlyNarrow /\ MemosHonest /\ [Next]_vars /\ PlanState' => MemosHonest'
  <2> SUFFICES ASSUME PlanState, HintsOnlyNarrow, MemosHonest, [Next]_vars, PlanState'
        PROVE  \A k \in DOMAIN memo' : Honest(world', Params', k, memo'[k])
    BY DEF MemosHonest
  <2>0. /\ Ordered(world) /\ Ordered(world') /\ SystemOK(Params) /\ JoinOK(Params) /\ None \notin Ids
        /\ Steady(world, Ids)
    BY DEF PlanState, Ordered, SystemsOK, JoinsOK, Params
  <2>1. ASSUME Grows(world, world'), NEW k \in DOMAIN memo
        PROVE  Honest(world', Params, k, memo[k])
    <3>1. PICK v, s : /\ Ordered(v) /\ Grows(v, world) /\ RowShape(Params, s) /\ Keys(s) = k
                      /\ memo[k].deps = StateDeps(v, Params, s)
                      /\ memo[k].shown = StateShown(v, Params, s)
      BY DEF MemosHonest, Honest
    <3>2. Grows(v, world')
      BY <2>0, <2>1, <3>1, GrowsOn DEF Ordered
    <3> QED BY <3>1, <3>2 DEF Honest
  <2>2. Grows(world, world)
    BY <2>0, GrowsSelf
  <2>3. CASE Write
    <3>1. PICK x \in Writes : /\ x.op = "update" => Has(world, x.type, x.at)
                              /\ world' \in {Perform(world, x)} \ {world}
                              /\ memo' = IF x.op = "despawn"
                                         THEN Restrict(memo, {k \in DOMAIN memo : x.at \notin Range(k)})
                                         ELSE memo
      BY <2>3 DEF Write
    <3>2. Grows(world, world')
      BY <2>0, <3>1, PerformGrows
    <3>3. Params' = Params
      BY <2>3 DEF Write, Params
    <3>4. \A k \in DOMAIN memo' : k \in DOMAIN memo /\ memo'[k] = memo[k]
      <4> DEFINE left == {k \in DOMAIN memo : x.at \notin Range(k)}
      <4> HIDE DEF left
      <4>1. Restrict(memo, left) = [k \in left |-> memo[k]]
        BY DEF Restrict
      <4>2. memo' = memo \/ memo' = Restrict(memo, left)
        BY <3>1 DEF left
      <4>3. left \subseteq DOMAIN memo
        BY DEF left
      <4> QED BY <4>1, <4>2, <4>3
    <3> QED BY <2>1, <3>2, <3>3, <3>4
  <2>4. CASE Plan
    <3>1. /\ memo' = Remembered(Admitted) /\ world' = world /\ Params' = Params
      BY <2>4 DEF Plan, Params
    <3>2. Admitted \subseteq States(world, Params)
      BY DEF Admitted, HintsOnlyNarrow
    <3> DEFINE keys == {Keys(s) : s \in Admitted}
               pick(k) == CHOOSE s \in Admitted : Keys(s) = k
    <3>3. Remembered(Admitted) =
             [k \in keys \cup DOMAIN memo |-> IF k \in keys THEN MemoEntry(pick(k)) ELSE memo[k]]
      BY DEF Remembered
    <3>4. \A k \in keys : pick(k) \in Admitted /\ Keys(pick(k)) = k
      OBVIOUS
    <3> HIDE DEF keys, pick
    <3>5. ASSUME NEW k \in DOMAIN memo'
          PROVE  \/ k \in keys /\ memo'[k] = MemoEntry(pick(k))
                 \/ k \in DOMAIN memo /\ memo'[k] = memo[k]
      BY <3>1, <3>3, Zenon
    <3>6. ASSUME NEW k \in keys PROVE Honest(world, Params, k, MemoEntry(pick(k)))
      <4>1. RowShape(Params, pick(k))
        BY <2>0, <3>2, <3>4, StatesShape
      <4>2. /\ MemoEntry(pick(k)).deps = StateDeps(world, Params, pick(k))
            /\ MemoEntry(pick(k)).shown = StateShown(world, Params, pick(k))
        BY DEF MemoEntry
      <4> QED BY <2>0, <2>2, <3>4, <4>1, <4>2 DEF Honest
    <3>7. \A k \in DOMAIN memo : Honest(world, Params, k, memo[k])
      BY DEF MemosHonest
    <3> QED BY <3>1, <3>5, <3>6, <3>7
  <2>5. CASE UNCHANGED vars
    BY <2>5 DEF MemosHonest, vars, Params
  <2> QED BY <2>3, <2>4, <2>5 DEF Next
<1> QED BY <1>1, <1>2, PlanInvariant, HintsNarrow, PTL DEF Spec

\* A memo that planning honours describes what the row would be shown now: the
\* value behind every tracked read, the members it projects and the rows of its
\* view are those of the run that left it.
THEOREM MemosSound ==
  ASSUME InitOK, WritesOK, SystemsOK, JoinsOK, MemosOK
  PROVE  Spec => []MemoSound
<1>1. PlanState /\ MemosHonest => MemoSound
  <2> SUFFICES ASSUME PlanState, MemosHonest, NEW s \in States(world, Params), ~Stale(s)
        PROVE  memo[Keys(s)].shown = StateShown(world, Params, s)
    BY DEF MemoSound
  <2>1. /\ Ordered(world) /\ SystemOK(Params) /\ JoinOK(Params) /\ None \notin Ids /\ None \notin Nat
        /\ OneOuter(Params) /\ \A i \in DOMAIN Params : ObservedOK(Params[i])
    BY DEF PlanState, SystemsOK, JoinsOK, MemosOK, Params
  <2>2. Keys(s) \in DOMAIN memo /\ memo[Keys(s)].deps = StateDeps(world, Params, s)
    BY DEF Stale
  <2>3. PICK v, t : /\ Ordered(v) /\ Grows(v, world) /\ RowShape(Params, t) /\ Keys(t) = Keys(s)
                    /\ memo[Keys(s)].deps = StateDeps(v, Params, t)
                    /\ memo[Keys(s)].shown = StateShown(v, Params, t)
    BY <2>2 DEF MemosHonest, Honest
  <2>4. RowShape(Params, s)
    BY <2>1, StatesShape
  <2>5. DOMAIN Params = 1 .. Len(Params) /\ Len(Params) \in Nat
    BY <2>1 DEF SystemOK, IsList
  <2>6. t = s
    BY <2>1, <2>3, <2>4, <2>5, KeysTell DEF OneOuter
  <2>7. StateDeps(v, Params, s) = StateDeps(world, Params, s)
    BY <2>2, <2>3, <2>6
  <2>8. StateShown(v, Params, s) = StateShown(world, Params, s)
    BY <2>1, <2>3, <2>4, <2>7, SameState
  <2> QED BY <2>3, <2>6, <2>8
<1> QED BY <1>1, HonestInvariant, PTL

-----------------------------------------------------------------------------
(* What a plan must find *)

\* The stores a row of a parameter is made from, and those a system watches.
PartTypes(r) ==
    CASE r.kind = "tracked" -> {f.type : f \in r.facet}
      [] r.kind = "related" -> {r.type} \cup {q.type : q \in r.of}
      [] r.kind \in {"read", "option", "mut"} -> {r.type}
RowTypes(p) ==
    {f.type : f \in p.facet} \cup (UNION {PartTypes(r) : r \in PartsOf(p)}) \cup {a.type : a \in p.filter}
Scanned(p) == p.parts # <<>> \/ p.facet # {} \/ Atoms(p.filter, {"with"}) # {}
InterestOf(p) ==
    CASE p.kind \in {"query", "outer"} -> IF Scanned(p) THEN RowTypes(p) ELSE None
      [] p.kind = "trackedview" -> ViewTypes(p)
      [] p.kind \in {"view", "commands"} -> {}
      [] p.kind = "meta" -> None
InterestIn(params) == AllInterest({InterestOf(params[i]) : i \in DOMAIN params})

\* Interest is a matter of types and no matter of the world.
LEMMA InterestIs ==
  ASSUME NEW w, NEW p, ParamOK(p), ObservedOK(p)
  PROVE  Interest(w, p) = InterestOf(p)
<1>1. ASSUME p.kind \notin {"commands", "meta"}, NEW r \in PartsOf(p)
      PROVE PartOf(w, r).interest = PartTypes(r)
  <2>1. r.kind \in PartKinds
    BY <1>1 DEF ParamOK, QueryOK
  <2>2. CASE r.kind = "read"
    BY <2>2 DEF PartOf, PartAt, ReadPart, PartTypes
  <2>3. CASE r.kind = "option"
    BY <2>3 DEF PartOf, PartAt, OptionalPart, ReadPart, PartTypes
  <2>4. CASE r.kind = "mut"
    BY <2>4 DEF PartOf, PartAt, MutPart, ReadPart, PartTypes
  <2>5. CASE r.kind = "tracked"
    BY <2>5 DEF PartOf, PartAt, TrackedPart, PartTypes
  <2>6. CASE r.kind = "related"
    BY <2>6 DEF PartOf, PartAt, RelatedPart, PartTypes
  <2> QED BY <2>1, <2>2, <2>3, <2>4, <2>5, <2>6 DEF PartKinds
<1>2. CASE p.kind \in {"query", "outer"}
  <2>1. {PartOf(w, r).interest : r \in PartsOf(p)} = {PartTypes(r) : r \in PartsOf(p)}
    BY <1>1, <1>2
  <2>2. QueryInterest(w, p) \cup {a.type : a \in p.filter} = RowTypes(p)
    BY <2>1 DEF QueryInterest, RowTypes
  <2>3. ASSUME p.parts = <<>>, p.facet = {} PROVE RowTypes(p) = {a.type : a \in p.filter}
    <3>1. PartsOf(p) = {}
      BY <2>3 DEF PartsOf, Range
    <3> QED BY <2>3, <3>1 DEF RowTypes
  <2> QED BY <1>2, <2>2, <2>3 DEF Interest, InterestOf, Scanned
<1>3. CASE p.kind = "trackedview"
  BY <1>3, ViewWatches DEF Interest, InterestOf
<1>4. CASE p.kind \in {"view", "commands", "meta"}
  BY <1>4 DEF Interest, InterestOf
<1> QED BY <1>2, <1>3, <1>4 DEF ParamOK, ParamKinds

\* A row of a parameter is told by the entries it is made of.
LEMMA RowSame ==
  ASSUME InitOK, NEW v, Ordered(v), NEW w, Ordered(w), NEW p, p.kind \in {"query", "outer"}, ParamOK(p),
         NEW e, \A c \in RowTypes(p) : SameEntry(v, w, c, e)
  PROVE  Belongs(v, p, e) <=> Belongs(w, p, e)
<1>1. \A c \in RowTypes(p) : Has(v, c, e) <=> Has(w, c, e)
  BY DEF SameEntry, Has
<1>2. Required(p.facet) \cup PartRequires(p) \subseteq RowTypes(p)
  <2>1. Required(p.facet) \subseteq RowTypes(p)
    BY DEF Required, RowTypes
  <2>2. ASSUME NEW r \in PartsOf(p), r.kind \in {"read", "mut"} PROVE r.type \in RowTypes(p)
    <3>1. r.type \in PartTypes(r)
      BY <2>2 DEF PartTypes
    <3> QED BY <3>1 DEF RowTypes
  <2> QED BY <2>1, <2>2 DEF PartRequires
<1>3. FilterMatches(v, p.filter, e) <=> FilterMatches(w, p.filter, e)
  <2>1. \A a \in p.filter : Has(v, a.type, e) <=> Has(w, a.type, e)
    BY <1>1 DEF RowTypes
  <2>2. ASSUME NEW a \in p.filter PROVE AtomMatches(v, a, e) <=> AtomMatches(w, a, e)
    <3>1. a.kind \in AtomKinds
      BY DEF ParamOK
    <3> QED BY <2>1, <3>1 DEF AtomMatches, AtomKinds
  <2> QED BY <2>2 DEF FilterMatches
<1>4. Allocated(v) = Allocated(w)
  BY OrderedStores
<1> QED BY <1>1, <1>2, <1>3, <1>4 DEF Belongs, HasAll

\* An entry that is what it was is depended on alike, and lists the same members.
LEMMA EntrySame ==
  ASSUME NEW v, NEW w, NEW c, NEW e, SameEntry(v, w, c, e)
  PROVE  /\ ComponentDep(v, c, e) = ComponentDep(w, c, e)
         /\ c \in Tracked => Members(v, c, e) = Members(w, c, e)
<1>1. Has(v, c, e) <=> Has(w, c, e)
  BY DEF SameEntry, Has
<1>2. c \in Tracked /\ Has(w, c, e) => /\ Entry(w, c, e).revision = Entry(v, c, e).revision
                                       /\ Entry(w, c, e).value = Entry(v, c, e).value
  BY DEF SameEntry, Has, Entry
<1> QED BY <1>1, <1>2 DEF ComponentDep, RevisionOf, Members

\* A part of a row whose entries, and whose members' entries, are what they were
\* depends on what it did.
LEMMA PartDepsSame ==
  ASSUME NEW v, NEW w, NEW r, r.kind \in PartKinds, NEW e,
         \A c \in PartTypes(r) : SameEntry(v, w, c, e),
         r.kind = "related" =>
            /\ r.type \in Tracked
            /\ \A m \in Members(v, r.type, e) : \A q \in r.of : SameEntry(v, w, q.type, m)
  PROVE  PartAt(v, r, e).deps = PartAt(w, r, e).deps
<1>1. CASE r.kind \in {"read", "option", "mut"}
  <2>1. PartAt(v, r, e).deps = ComponentDep(v, r.type, e)
    BY <1>1 DEF PartAt, ReadPart, OptionalPart, MutPart
  <2>2. PartAt(w, r, e).deps = ComponentDep(w, r.type, e)
    BY <1>1 DEF PartAt, ReadPart, OptionalPart, MutPart
  <2>3. SameEntry(v, w, r.type, e)
    BY <1>1 DEF PartTypes
  <2> QED BY <2>1, <2>2, <2>3, EntrySame
<1>2. CASE r.kind = "tracked"
  <2> DEFINE types == {f.type : f \in r.facet}
  <2>1. PartAt(v, r, e).deps = UNION {ComponentDep(v, c, e) : c \in types}
    BY <1>2 DEF PartAt, TrackedPart
  <2>2. PartAt(w, r, e).deps = UNION {ComponentDep(w, c, e) : c \in types}
    BY <1>2 DEF PartAt, TrackedPart
  <2>3. \A c \in types : ComponentDep(v, c, e) = ComponentDep(w, c, e)
    BY <1>2, EntrySame DEF PartTypes
  <2> HIDE DEF types
  <2>4. {ComponentDep(v, c, e) : c \in types} = {ComponentDep(w, c, e) : c \in types}
    BY <2>3
  <2> QED BY <2>1, <2>2, <2>4
<1>3. CASE r.kind = "related"
  <2> DEFINE members == Members(v, r.type, e)
             dep(u, q, m) == MemberPart(u, q, m).deps
  <2>0. SameEntry(v, w, r.type, e)
    BY <1>3 DEF PartTypes
  <2>1. Members(w, r.type, e) = members /\ ComponentDep(v, r.type, e) = ComponentDep(w, r.type, e)
    BY <1>3, <2>0, EntrySame
  <2>2. ASSUME NEW m \in members PROVE MemberDeps(v, r, m) = MemberDeps(w, r, m)
    <3>1. \A q \in r.of : dep(v, q, m) = ComponentDep(v, q.type, m) /\ dep(w, q, m) = ComponentDep(w, q.type, m)
      BY DEF MemberPart
    <3>2. \A q \in r.of : ComponentDep(v, q.type, m) = ComponentDep(w, q.type, m)
      BY <1>3, <2>2, EntrySame
    <3>3. MemberDeps(v, r, m) = UNION {dep(v, q, m) : q \in r.of}
      BY DEF MemberDeps
    <3>4. MemberDeps(w, r, m) = UNION {dep(w, q, m) : q \in r.of}
      BY DEF MemberDeps
    <3> HIDE DEF dep, members
    <3>5. {dep(v, q, m) : q \in r.of} = {dep(w, q, m) : q \in r.of}
      BY <3>1, <3>2
    <3> QED BY <3>3, <3>4, <3>5
  <2>3. PartAt(v, r, e).deps = ComponentDep(v, r.type, e) \cup UNION {MemberDeps(v, r, m) : m \in members}
    BY <1>3 DEF PartAt, RelatedPart
  <2>4. PartAt(w, r, e).deps
          = ComponentDep(w, r.type, e) \cup UNION {MemberDeps(w, r, m) : m \in Members(w, r.type, e)}
    BY <1>3 DEF PartAt, RelatedPart
  <2> HIDE DEF members
  <2>5. {MemberDeps(v, r, m) : m \in members} = {MemberDeps(w, r, m) : m \in members}
    BY <2>2
  <2> QED BY <2>1, <2>3, <2>4, <2>5
<1> QED BY <1>1, <1>2, <1>3 DEF PartKinds

\* A row does so when its parts do.
LEMMA RowDepsSame ==
  ASSUME NEW v, NEW w, NEW p, ParamOK(p), ObservedOK(p), p.kind \in {"query", "outer"}, NEW e,
         \A c \in RowTypes(p) : SameEntry(v, w, c, e),
         \A r \in PartsOf(p) : r.kind = "related" =>
            \A m \in Members(v, r.type, e) : \A q \in r.of : SameEntry(v, w, q.type, m)
  PROVE  RowDeps(v, p, e) = RowDeps(w, p, e)
<1>1. ASSUME NEW r \in PartsOf(p) PROVE PartAt(v, r, e).deps = PartAt(w, r, e).deps
  <2>1. r.kind \in PartKinds /\ (r.kind = "related" => r.type \in Tracked)
    BY DEF ParamOK, QueryOK, ObservedOK
  <2>2. PartTypes(r) \subseteq RowTypes(p)
    BY DEF RowTypes
  <2> QED BY <2>1, <2>2, PartDepsSame
<1>2. {PartAt(v, r, e).deps : r \in PartsOf(p)} = {PartAt(w, r, e).deps : r \in PartsOf(p)}
  BY <1>1
<1>3. FilterDeps(v, p.filter, e) = FilterDeps(w, p.filter, e)
  <2>1. ASSUME NEW a \in Drivers(p.filter)
        PROVE ComponentDep(v, a.type, e) = ComponentDep(w, a.type, e)
    <3>1. a.type \in RowTypes(p)
      BY DEF Drivers, Atoms, RowTypes
    <3> QED BY <3>1, EntrySame
  <2>2. {ComponentDep(v, a.type, e) : a \in Drivers(p.filter)}
          = {ComponentDep(w, a.type, e) : a \in Drivers(p.filter)}
    BY <2>1
  <2> QED BY <2>2 DEF FilterDeps
<1> QED BY <1>2, <1>3 DEF RowDeps

\* Keys that are what they were join what they did.
LEMMA JoinsSame ==
  ASSUME InitOK, NEW v, Ordered(v), NEW w, Ordered(w), NEW params, SystemOK(params), JoinOK(params),
         NEW i \in DOMAIN params, NEW s, NEW e \in Ids, Belongs(v, params[i], e),
         EqKeys(params[i].filter) \cup InKeys(params[i].filter) \subseteq Tracked,
         \A key \in EqKeys(params[i].filter) : SameEntry(v, w, key, e),
         \A key \in EqKeys(params[i].filter) \cup InKeys(params[i].filter) :
            \A j \in Siblings(params, i, key) : SameEntry(v, w, key, s[j])
  PROVE  Joins(v, params, i, s, e) <=> Joins(w, params, i, s, e)
<1> DEFINE f == params[i].filter
           eq(u, key, j) == Has(u, key, s[j]) /\ Entry(u, key, e).value = Entry(u, key, s[j]).value
           ed(u, key, j) == Targets(u, EdgeOf(key), e) = {s[j]}
<1>1. ASSUME NEW key \in EqKeys(f), NEW j \in Siblings(params, i, key)
      PROVE  eq(v, key, j) <=> eq(w, key, j)
  <2>1. Has(v, key, e)
    BY <1>1 DEF Belongs, FilterMatches, AtomMatches, EqKeys, Atoms
  <2>2. key \in Tracked /\ SameEntry(v, w, key, e) /\ SameEntry(v, w, key, s[j])
    BY <1>1
  <2>3. Has(w, key, e) /\ Entry(w, key, e).value = Entry(v, key, e).value
    BY <2>1, <2>2 DEF SameEntry, Has, Entry
  <2>4. /\ Has(v, key, s[j]) <=> Has(w, key, s[j])
        /\ Has(w, key, s[j]) => Entry(w, key, s[j]).value = Entry(v, key, s[j]).value
    BY <2>2 DEF SameEntry, Has, Entry
  <2> QED BY <2>3, <2>4
<1>2. ASSUME NEW key \in InKeys(f), NEW j \in Siblings(params, i, key)
      PROVE  ed(v, key, j) <=> ed(w, key, j)
  <2>1. key \in Inverses /\ key \in Tracked
    BY <1>2 DEF JoinOK
  <2>2. /\ Members(v, key, s[j]) = {x \in Ids : Targets(v, EdgeOf(key), x) = {s[j]}}
        /\ Members(w, key, s[j]) = {x \in Ids : Targets(w, EdgeOf(key), x) = {s[j]}}
    BY <2>1, MembersExact
  <2>3. Members(v, key, s[j]) = Members(w, key, s[j])
    BY <1>2, <2>1, EntrySame
  <2> QED BY <2>2, <2>3
<1>3. \A u : Joins(u, params, i, s, e) <=>
               /\ \A key \in EqKeys(f) : \A j \in Siblings(params, i, key) : eq(u, key, j)
               /\ \A key \in InKeys(f) : \A j \in Siblings(params, i, key) : ed(u, key, j)
  BY DEF Joins
<1> HIDE DEF f, eq, ed
<1> QED BY <1>1, <1>2, <1>3

\* The plans whose rows a search by watermarks and the log can find.  A join key
\* is tracked.  A row of optional parts alone has nothing that its removal could
\* be told by.  And a write is seen from the driver at most one pair away: the
\* hint of states_hinted is widened by one hop (queries_chain).
Identity(p) ==
    Required(p.facet) \cup PartRequires(p) \cup {a.type : a \in Drivers(p.filter)} \cup InKeys(p.filter)
SearchOK(params) ==
    /\ InterestIn(params) # None =>
          /\ InterestIn(params) \subseteq Components
          /\ \A i \in DOMAIN params : params[i].kind \in {"query", "outer"} =>
                /\ EqKeys(params[i].filter) \cup InKeys(params[i].filter) \subseteq Tracked
                /\ Identity(params[i]) # {}
    /\ DeltaShape(params) = "driver" =>
          \A i \in DOMAIN params : PairExpandable(params[i]) =>
             /\ \A r \in PartsOf(params[i]) : r.kind # "related"
             /\ \A key : \A j \in Siblings(params, i, key) : ~PairExpandable(params[j])

\* What a system is interested in, when it is bounded.
LEMMA InterestCovers ==
  ASSUME NEW params, SystemOK(params), InterestIn(params) # None, NEW i \in DOMAIN params
  PROVE  /\ params[i].kind # "meta"
         /\ params[i].kind \in {"query", "outer"} => RowTypes(params[i]) \subseteq InterestIn(params)
         /\ params[i].kind = "trackedview" => ViewTypes(params[i]) \subseteq InterestIn(params)
<1> DEFINE sets == {InterestOf(params[j]) : j \in DOMAIN params}
<1>1. None \notin sets /\ InterestIn(params) = UNION sets
  BY DEF InterestIn, AllInterest
<1>2. InterestOf(params[i]) \in sets
  OBVIOUS
<1>3. InterestOf(params[i]) # None /\ InterestOf(params[i]) \subseteq InterestIn(params)
  <2> HIDE DEF sets
  <2> QED BY <1>1, <1>2
<1> HIDE DEF sets
<1>4. CASE params[i].kind \in {"query", "outer"}
  BY <1>3, <1>4 DEF InterestOf
<1>5. CASE params[i].kind = "trackedview"
  BY <1>3, <1>5 DEF InterestOf
<1>6. CASE params[i].kind \in {"view", "commands"}
  BY <1>6
<1>7. params[i].kind # "meta"
  BY <1>3 DEF InterestOf
<1> QED BY <1>4, <1>5, <1>6, <1>7 DEF SystemOK, ParamOK, ParamKinds

\* The provider of a key and the entries it is told by.
LEMMA KeyTypes ==
  ASSUME NEW params, SystemOK(params), JoinOK(params), InterestIn(params) # None, NEW i \in DOMAIN params,
         NEW key \in EqKeys(params[i].filter) \cup InKeys(params[i].filter)
  PROVE  /\ key \in RowTypes(params[i])
         /\ \A j \in Siblings(params, i, key) :
               /\ j \in DOMAIN params /\ params[j].kind = "query" /\ key \in RowTypes(params[j])
               /\ key \in InterestIn(params)
<1>1. key \in RowTypes(params[i])
  BY DEF EqKeys, InKeys, Atoms, RowTypes
<1>2. ASSUME NEW j \in Siblings(params, i, key)
      PROVE  j \in DOMAIN params /\ params[j].kind = "query" /\ key \in RowTypes(params[j])
  <2>1. j \in DOMAIN params /\ Provides(params[j], key)
    BY DEF Siblings
  <2>2. PICK r \in PartsOf(params[j]) : r.kind = "read" /\ r.type = key
    BY <2>1 DEF Provides
  <2>3. key \in PartTypes(r)
    BY <2>2 DEF PartTypes
  <2> QED BY <2>1, <2>3 DEF Provides, RowTypes
<1>3. \A j \in Siblings(params, i, key) : key \in InterestIn(params)
  BY <1>2, InterestCovers
<1> QED BY <1>1, <1>2, <1>3

\* The stores of a tuple of parameters that are not rows.
LEMMA WatchDepsSame ==
  ASSUME NEW v, NEW w, NEW params, SystemOK(params), \A i \in DOMAIN params : ObservedOK(params[i]),
         InterestIn(params) # None,
         \A c \in InterestIn(params) : w.watermark[c] = v.watermark[c],
         NEW i \in DOMAIN params, NEW e, ~(params[i].kind \in {"query", "outer"} /\ e # None)
  PROVE  ParamDeps(v, params[i], e) = ParamDeps(w, params[i], e)
<1> DEFINE p == params[i]
<1>0. p.kind \in ParamKinds /\ ParamOK(p) /\ ObservedOK(p)
  BY DEF SystemOK, ParamOK
<1>1. CASE p.kind = "trackedview"
  <2>1. /\ ParamDeps(v, p, e) = {StoreWatermarkDep(v, c) : c \in TrackedViewTypes(v, p)}
        /\ ParamDeps(w, p, e) = {StoreWatermarkDep(w, c) : c \in TrackedViewTypes(w, p)}
    BY <1>1 DEF ParamDeps
  <2>2. TrackedViewTypes(v, p) = ViewTypes(p) /\ TrackedViewTypes(w, p) = ViewTypes(p)
    BY <1>0, <1>1, ViewWatches
  <2>3. \A c \in ViewTypes(p) : StoreWatermarkDep(v, c) = StoreWatermarkDep(w, c)
    BY <1>1, InterestCovers DEF StoreWatermarkDep
  <2> QED BY <2>1, <2>2, <2>3
<1>2. CASE p.kind = "outer" /\ e = None
  <2> DEFINE types(u) == {a[2] : a \in AccessAll(u, p)} \cup EqKeys(p.filter)
  <2>1. /\ ParamDeps(v, p, e) = {StoreWatermarkDep(v, c) : c \in types(v)}
        /\ ParamDeps(w, p, e) = {StoreWatermarkDep(w, c) : c \in types(w)}
    BY <1>2 DEF ParamDeps
  <2>2. \A r \in PartsOf(p) : /\ PartOf(v, r).accessAll = PartOf(w, r).accessAll
                              /\ \A a \in PartOf(v, r).accessAll : a[2] \in PartTypes(r)
    <3> TAKE r \in PartsOf(p)
    <3>1. r.kind \in PartKinds
      BY <1>0, <1>2 DEF ParamOK, QueryOK
    <3>2. CASE r.kind = "read"
      <4>1. PartOf(v, r).accessAll = {<<"read", r.type, None>>}
        BY <3>2 DEF PartOf, PartAt, ReadPart
      <4>2. PartOf(w, r).accessAll = {<<"read", r.type, None>>}
        BY <3>2 DEF PartOf, PartAt, ReadPart
      <4>3. r.type \in PartTypes(r)
        BY <3>2 DEF PartTypes
      <4> QED BY <4>1, <4>2, <4>3
    <3>3. CASE r.kind = "option"
      <4>1. PartOf(v, r).accessAll = {<<"read", r.type, None>>}
        BY <3>3 DEF PartOf, PartAt, OptionalPart, ReadPart
      <4>2. PartOf(w, r).accessAll = {<<"read", r.type, None>>}
        BY <3>3 DEF PartOf, PartAt, OptionalPart, ReadPart
      <4>3. r.type \in PartTypes(r)
        BY <3>3 DEF PartTypes
      <4> QED BY <4>1, <4>2, <4>3
    <3>4. CASE r.kind = "mut"
      <4>1. PartOf(v, r).accessAll = {<<"write", r.type, None>>}
        BY <3>4 DEF PartOf, PartAt, MutPart, ReadPart
      <4>2. PartOf(w, r).accessAll = {<<"write", r.type, None>>}
        BY <3>4 DEF PartOf, PartAt, MutPart, ReadPart
      <4>3. r.type \in PartTypes(r)
        BY <3>4 DEF PartTypes
      <4> QED BY <4>1, <4>2, <4>3
    <3>5. CASE r.kind = "tracked"
      BY <3>5 DEF PartOf, PartAt, TrackedPart, PartTypes
    <3>6. CASE r.kind = "related"
      <4>1. PartOf(v, r).accessAll = {<<"read", r.type, None>>}
        BY <3>6 DEF PartOf, PartAt, RelatedPart
      <4>2. PartOf(w, r).accessAll = {<<"read", r.type, None>>}
        BY <3>6 DEF PartOf, PartAt, RelatedPart
      <4>3. r.type \in PartTypes(r)
        BY <3>6 DEF PartTypes
      <4> QED BY <4>1, <4>2, <4>3
    <3> QED BY <3>1, <3>2, <3>3, <3>4, <3>5, <3>6 DEF PartKinds
  <2>3. AccessAll(v, p) = AccessAll(w, p)
    <3>1. {PartOf(v, r).accessAll : r \in PartsOf(p)} = {PartOf(w, r).accessAll : r \in PartsOf(p)}
      BY <2>2
    <3> QED BY <3>1 DEF AccessAll
  <2>4. ASSUME NEW a \in AccessAll(v, p) PROVE a[2] \in RowTypes(p)
    <3>1. PICK r \in PartsOf(p) : a \in PartOf(v, r).accessAll
      BY DEF AccessAll
    <3>2. a[2] \in PartTypes(r)
      BY <2>2, <3>1
    <3> QED BY <3>2 DEF RowTypes
  <2>5. EqKeys(p.filter) \subseteq RowTypes(p)
    BY DEF EqKeys, Atoms, RowTypes
  <2>6. RowTypes(p) \subseteq InterestIn(params)
    BY <1>2, InterestCovers
  <2>7. types(v) = types(w) /\ types(v) \subseteq InterestIn(params)
    BY <2>3, <2>4, <2>5, <2>6
  <2> HIDE DEF types
  <2>8. \A c \in types(v) : StoreWatermarkDep(v, c) = StoreWatermarkDep(w, c)
    BY <2>7 DEF StoreWatermarkDep
  <2> QED BY <2>1, <2>7, <2>8
<1>3. CASE p.kind \notin {"query", "outer", "trackedview"}
  BY <1>3 DEF ParamDeps
<1>4. CASE p.kind = "query" /\ e = None
  BY <1>4 DEF ParamDeps
<1> QED BY <1>1, <1>2, <1>3, <1>4

\* Dependencies of a tuple, row by row.
LEMMA DepsByRow ==
  ASSUME NEW v, NEW w, NEW params, NEW s,
         \A i \in DOMAIN params : ParamDeps(v, params[i], s[i]) = ParamDeps(w, params[i], s[i])
  PROVE  StateDeps(v, params, s) = StateDeps(w, params, s)
<1>1. {ParamDeps(v, params[i], s[i]) : i \in DOMAIN params}
        = {ParamDeps(w, params[i], s[i]) : i \in DOMAIN params}
  OBVIOUS
<1> QED BY <1>1 DEF StateDeps

\* Where no store of interest moved, the rows and what they depend on are those
\* that were.
LEMMA Unmoved ==
  ASSUME InitOK, None \notin Ids, NEW v, Ordered(v), NEW w, Ordered(w),
         NEW params, SystemOK(params), JoinOK(params), \A i \in DOMAIN params : ObservedOK(params[i]),
         SearchOK(params), InterestIn(params) # None,
         \A c \in InterestIn(params) : w.watermark[c] = v.watermark[c] /\ \A e : SameEntry(v, w, c, e),
         NEW s \in States(w, params)
  PROVE  s \in States(v, params) /\ StateDeps(v, params, s) = StateDeps(w, params, s)
<1>1. Tuple(s, Len(params)) /\ \A i \in DOMAIN params : RowOf(w, params, s, i)
  BY StatesAre, IsStateRows
<1>2. ASSUME NEW i \in DOMAIN params, params[i].kind \in {"query", "outer"}
      PROVE  /\ ParamOK(params[i]) /\ ObservedOK(params[i])
             /\ \A c \in RowTypes(params[i]) : \A e : SameEntry(v, w, c, e)
             /\ EqKeys(params[i].filter) \cup InKeys(params[i].filter) \subseteq Tracked
  BY <1>2, InterestCovers DEF SystemOK, SearchOK
<1>3. ASSUME NEW i \in DOMAIN params, params[i].kind \in {"query", "outer"}, NEW e \in Ids
      PROVE  Belongs(v, params[i], e) /\ Joins(v, params, i, s, e)
               <=> Belongs(w, params[i], e) /\ Joins(w, params, i, s, e)
  <2>1. Belongs(v, params[i], e) <=> Belongs(w, params[i], e)
    BY <1>2, <1>3, RowSame
  <2>2. ASSUME NEW key \in EqKeys(params[i].filter) \cup InKeys(params[i].filter)
        PROVE  /\ SameEntry(v, w, key, e)
               /\ \A j \in Siblings(params, i, key) : SameEntry(v, w, key, s[j])
    <3>1. key \in RowTypes(params[i])
      BY KeyTypes
    <3> QED BY <1>2, <1>3, <3>1
  <2>3. ASSUME Belongs(v, params[i], e)
        PROVE Joins(v, params, i, s, e) <=> Joins(w, params, i, s, e)
    BY <1>2, <1>3, <2>2, <2>3, JoinsSame
  <2> QED BY <2>1, <2>3
<1>4. ASSUME NEW i \in DOMAIN params PROVE RowOf(v, params, s, i)
  <2>1. CASE params[i].kind \in {"query", "outer"}
    <3>1. {e \in Ids : Belongs(v, params[i], e) /\ Joins(v, params, i, s, e)}
            = {e \in Ids : Belongs(w, params[i], e) /\ Joins(w, params, i, s, e)}
      BY <1>3, <2>1
    <3>2. RowOf(w, params, s, i)
      BY <1>1
    <3> QED BY <3>1, <3>2 DEF RowOf
  <2>2. CASE params[i].kind \notin {"query", "outer"}
    BY <1>1, <2>2 DEF RowOf
  <2> QED BY <2>1, <2>2
<1>5. s \in States(v, params)
  BY <1>1, <1>4, StatesAre, IsStateRows
<1>6. ASSUME NEW i \in DOMAIN params
      PROVE ParamDeps(v, params[i], s[i]) = ParamDeps(w, params[i], s[i])
  <2>1. CASE params[i].kind \in {"query", "outer"} /\ s[i] # None
    <3>1. /\ ParamDeps(v, params[i], s[i]) = RowDeps(v, params[i], s[i])
          /\ ParamDeps(w, params[i], s[i]) = RowDeps(w, params[i], s[i])
      BY <2>1 DEF ParamDeps
    <3>2. ASSUME NEW r \in PartsOf(params[i]), r.kind = "related"
          PROVE  \A q \in r.of : \A m : SameEntry(v, w, q.type, m)
      <4>1. \A q \in r.of : q.type \in RowTypes(params[i])
        BY <3>2 DEF PartTypes, RowTypes
      <4> QED BY <1>2, <2>1, <4>1
    <3> QED BY <1>2, <2>1, <3>1, <3>2, RowDepsSame
  <2>2. CASE ~(params[i].kind \in {"query", "outer"} /\ s[i] # None)
    BY <2>2, WatchDepsSame
  <2> QED BY <2>1, <2>2
<1> QED BY <1>5, <1>6, DepsByRow

\* A row whose driver is hinted is found: its driver is the one that is
\* narrowed, or the plan looks at every row.
LEMMA HintFinds ==
  ASSUME InitOK, NEW w, Ordered(w), NEW params, SystemOK(params), DeltaShape(params) = "driver",
         NEW H \in SUBSET Ids, NEW s \in States(w, params),
         NEW i \in DriversOf(params), s[i] \in H
  PROVE  s \in Hinted(w, params, H, LargeDrivers(w, params))
<1> DEFINE large == LargeDrivers(w, params)
           all == AllRows(w, params)
           few == [j \in DOMAIN params |->
                     IF j \in large THEN FilteredFrom(w, params[j], H) ELSE ParamStates(w, params[j])]
           dirty == \E j \in DriversOf(params) \ large : ParamStates(w, params[j]) \cap H # {}
<1>1. Hinted(w, params, H, large)
        = IF Cardinality(large) > 1 \/ dirty THEN States(w, params) ELSE Product(w, params, few)
  BY DEF Hinted
<1>2. s \in Product(w, params, all)
  BY DEF States, AllRows
<1>3. Chosen(w, params, all, s, Len(params))
  BY <1>2, ProductMembers DEF SystemOK
<1>4. i \in DOMAIN params /\ params[i].kind = "query" /\ ~PairExpandable(params[i]) /\ ParamOK(params[i])
  BY DriverShapes DEF DriversOf, SystemOK
<1>5. s[i] \in FilteredRows(w, params[i])
  <2>1. DOMAIN params = 1 .. Len(params) /\ Len(params) \in Nat
    BY DEF SystemOK, IsList
  <2>2. s[i] \in RowsFor(w, params, all, i, First(s, i - 1))
    BY <1>3, <1>4, <2>1 DEF Chosen
  <2>3. s[i] \in all[i]
    BY <1>4, <2>2 DEF RowsFor
  <2> QED BY <1>4, <2>3 DEF AllRows, ParamStates
<1>6. CASE Cardinality(large) > 1 \/ dirty
  BY <1>1, <1>6
<1>7. CASE ~(Cardinality(large) > 1 \/ dirty)
  <2>1. i \in large
    BY <1>4, <1>5, <1>7 DEF ParamStates
  <2>2. large = {i}
    <3>1. large \subseteq DOMAIN params
      BY DEF LargeDrivers, DriversOf
    <3>2. IsFiniteSet(large)
      <4>1. IsFiniteSet(DOMAIN params)
        BY Positions DEF SystemOK
      <4> QED BY <3>1, <4>1, FS_Subset
    <3> HIDE DEF large
    <3>3. ASSUME NEW j \in large, j # i PROVE FALSE
      <4>1. IsFiniteSet({i}) /\ Cardinality({i}) = 1
        BY FS_Singleton
      <4>2. {i} \cup {j} \subseteq large /\ j \notin {i}
        BY <2>1, <3>3
      <4>3. Cardinality({i} \cup {j}) = 1 + 1
        BY <4>1, <4>2, FS_AddElement
      <4>4. Cardinality({i} \cup {j}) <= Cardinality(large)
        BY <3>2, <4>2, FS_Subset
      <4>5. Cardinality(large) \in Nat
        BY <3>2, FS_CardinalityType
      <4> QED BY <1>7, <4>3, <4>4, <4>5
    <3> QED BY <2>1, <3>3
  <2>3. s[i] \in FilteredFrom(w, params[i], H)
    BY <1>4, <1>5, HintNarrows
  <2>4. Tuple(s, Len(params))
    BY <1>3 DEF Chosen
  <2>5. ASSUME NEW j \in 1 .. Len(params)
        PROVE s[j] \in RowsFor(w, params, few, j, First(s, j - 1))
    <3>1. j \in DOMAIN params
      BY DEF SystemOK, IsList
    <3>2. s[j] \in RowsFor(w, params, all, j, First(s, j - 1))
      BY <1>3 DEF Chosen
    <3>3. few[j] = (IF j = i THEN FilteredFrom(w, params[i], H) ELSE ParamStates(w, params[j]))
          /\ all[j] = ParamStates(w, params[j])
      BY <2>2, <3>1 DEF AllRows
    <3> HIDE DEF few, all
    <3> QED BY <1>4, <2>3, <3>2, <3>3 DEF RowsFor
  <2>6. s \in Product(w, params, few)
    <3> HIDE DEF few
    <3> QED BY <2>4, <2>5, ProductMembers DEF Chosen, SystemOK
  <2> QED BY <1>1, <1>7, <2>6
<1> QED BY <1>6, <1>7

\* Whoever was written, the providers it pairs with are hinted (hint_providers).
LEMMA ProvidersHinted ==
  ASSUME NEW w, NEW params, NEW D, NEW i \in DOMAIN params, params[i].kind = "query", NEW m \in D
  PROVE  /\ \A r \in PartsOf(params[i]) : PartAt(w, r, m).providers \subseteq Expanded(w, params, D)
         /\ FilterProviders(w, params[i].filter, m) \subseteq Expanded(w, params, D)
<1> DEFINE p == params[i]
           queries == {j \in DOMAIN params : params[j].kind = "query"}
           H == Expanded(w, params, D)
<1>1. ParamProviders(w, p, D) \subseteq H
  <2>1. ParamProviders(w, p, D) \in {ParamProviders(w, params[j], D) : j \in queries}
    OBVIOUS
  <2>2. H = D \cup UNION {ParamProviders(w, params[j], D) : j \in queries}
    BY DEF Expanded
  <2> QED BY <2>1, <2>2
<1> DEFINE of(e) == (UNION {PartAt(w, r, e).providers : r \in PartsOf(p)}) \cup FilterProviders(w, p.filter, e)
<1>2. of(m) \subseteq ParamProviders(w, p, D)
  <2>1. ParamProviders(w, p, D) = UNION {of(e) : e \in D}
    BY DEF ParamProviders
  <2> HIDE DEF of
  <2> QED BY <2>1
<1>3. of(m) \subseteq H
  BY <1>1, <1>2
<1>4. FilterProviders(w, p.filter, m) \subseteq of(m)
  OBVIOUS
<1>5. \A r \in PartsOf(p) : PartAt(w, r, m).providers \subseteq of(m)
  OBVIOUS
<1> QED BY <1>3, <1>4, <1>5

\* A row whose driver is not hinted was a row before, of the same dependencies.
LEMMA Unhinted ==
  ASSUME InitOK, None \notin Ids, NEW v, Ordered(v), NEW w, Ordered(w),
         NEW params, SystemOK(params), JoinOK(params), \A i \in DOMAIN params : ObservedOK(params[i]),
         SearchOK(params), InterestIn(params) # None, DeltaShape(params) = "driver",
         NEW D, \A c \in InterestIn(params) : \A e : e \notin D => SameEntry(v, w, c, e),
         NEW s \in States(w, params),
         \A i \in DriversOf(params) : s[i] \notin Expanded(w, params, D)
  PROVE  /\ s \in States(v, params) /\ StateDeps(v, params, s) = StateDeps(w, params, s)
         /\ \A i \in DOMAIN params : params[i].kind = "query" => s[i] \notin D
<1> DEFINE H == Expanded(w, params, D)
<1>1. Tuple(s, Len(params)) /\ \A i \in DOMAIN params : RowOf(w, params, s, i)
  BY StatesAre, IsStateRows
<1>2. D \subseteq H
  BY DEF Expanded
<1>3. ASSUME NEW i \in DOMAIN params
      PROVE  /\ ParamOK(params[i]) /\ ObservedOK(params[i])
             /\ params[i].kind \in {"query", "view", "commands"}
             /\ params[i].kind = "query" => /\ s[i] \in Ids /\ Belongs(w, params[i], s[i])
                                            /\ Joins(w, params, i, s, s[i])
             /\ params[i].kind # "query" => s[i] = Unit
             /\ params[i].kind = "query" /\ ~PairExpandable(params[i]) =>
                   /\ i \in DriversOf(params)
                   /\ EqKeys(params[i].filter) \cup InKeys(params[i].filter) = {}
  <2>1. /\ ParamShape(params[i]) \in {"inert", "pair", "driver"}
        /\ EqKeys(params[i].filter) \cup InKeys(params[i].filter) # {} => PairExpandable(params[i])
    BY <1>3, DriverShapes
  <2>2. params[i].kind \in ParamKinds /\ ParamOK(params[i]) /\ ObservedOK(params[i])
    BY <1>3 DEF SystemOK, ParamOK
  <2>3. params[i].kind \in {"query", "view", "commands"}
    BY <2>1, <2>2 DEF ParamShape, ParamKinds, PairExpandable
  <2>4. RowOf(w, params, s, i)
    BY <1>1, <1>3
  <2>5. params[i].kind = "query" /\ ~PairExpandable(params[i]) => i \in DriversOf(params)
    BY <2>1 DEF ParamShape, DriversOf
  <2> QED BY <2>1, <2>2, <2>3, <2>4, <2>5 DEF RowOf
<1>4. ASSUME NEW i \in DOMAIN params, params[i].kind = "query" PROVE s[i] \notin D
  <2>1. CASE ~PairExpandable(params[i])
    BY <1>2, <1>3, <1>4, <2>1
  <2>2. CASE PairExpandable(params[i])
    <3>1. PICK key : EqKeys(params[i].filter) \cup InKeys(params[i].filter) = {key}
      BY <1>3, <2>2, PairKey
    <3>2. PICK j \in DOMAIN params : Siblings(params, i, key) = {j}
      BY <3>1 DEF JoinOK
    <3>3. params[j].kind = "query" /\ ~PairExpandable(params[j])
      BY <2>2, <3>2, OneProvider DEF SearchOK, SystemOK
    <3>4. s[j] \notin H
      BY <1>3, <3>3
    <3>5. CASE key \in EqKeys(params[i].filter)
      <4>1. Has(w, key, s[j]) /\ Entry(w, key, s[i]).value = Entry(w, key, s[j]).value
        BY <1>3, <1>4, <3>2, <3>5 DEF Joins
      <4>2. Has(w, key, s[i])
        BY <1>3, <1>4, <3>5 DEF Belongs, FilterMatches, AtomMatches, EqKeys, Atoms
      <4>3. key \in Components \cap (Hashed \ Inverses)
        BY <3>5, WorldAssumption DEF JoinOK
      <4> DEFINE bucket == Bucket(w, key, Entry(w, key, s[i]).fingerprint)
      <4>4. s[j] \in bucket
        <5>1. s[j] \in Ids
          BY <1>3, <3>3
        <5>2. bucket = {e \in Ids : Has(w, key, e) /\ Entry(w, key, e).value = Entry(w, key, s[i]).value}
          BY <4>2, <4>3, BucketExact
        <5> QED BY <4>1, <5>1, <5>2
      <4>5. bucket \subseteq FilterProviders(w, params[i].filter, s[i])
        <5>1. PICK a \in Atoms(params[i].filter, {"eq"}) : a.type = key
          BY <3>5 DEF EqKeys
        <5> DEFINE carried == {b \in Atoms(params[i].filter, {"eq"}) : Has(w, b.type, s[i])}
                   of(b) == Bucket(w, b.type, Entry(w, b.type, s[i]).fingerprint)
        <5>2. a \in carried /\ bucket = of(a)
          BY <4>2, <5>1
        <5>3. (UNION {of(b) : b \in carried}) \subseteq FilterProviders(w, params[i].filter, s[i])
          BY DEF FilterProviders
        <5> HIDE DEF carried, of, bucket
        <5> QED BY <5>2, <5>3
      <4>6. s[i] \in D => bucket \subseteq H
        BY <1>4, <4>5, ProvidersHinted
      <4> QED BY <3>4, <4>4, <4>6
    <3>6. CASE key \in InKeys(params[i].filter)
      <4>1. Targets(w, EdgeOf(key), s[i]) = {s[j]}
        BY <1>3, <1>4, <3>2, <3>6 DEF Joins
      <4>2. Targets(w, EdgeOf(key), s[i]) \subseteq FilterProviders(w, params[i].filter, s[i])
        <5>1. PICK a \in Atoms(params[i].filter, {"in"}) : a.type = key
          BY <3>6 DEF InKeys
        <5> DEFINE of(b) == Targets(w, EdgeOf(b.type), s[i])
        <5>2. (UNION {of(b) : b \in Atoms(params[i].filter, {"in"})}) \subseteq FilterProviders(w, params[i].filter, s[i])
          BY DEF FilterProviders
        <5>3. Targets(w, EdgeOf(key), s[i]) = of(a)
          BY <5>1
        <5> HIDE DEF of
        <5> QED BY <5>2, <5>3
      <4>3. s[i] \in D => Targets(w, EdgeOf(key), s[i]) \subseteq H
        BY <1>4, <4>2, ProvidersHinted
      <4> QED BY <3>4, <4>1, <4>3
    <3> QED BY <3>1, <3>5, <3>6
  <2> QED BY <2>1, <2>2
<1>5. ASSUME NEW i \in DOMAIN params, params[i].kind = "query"
      PROVE  /\ \A c \in RowTypes(params[i]) : SameEntry(v, w, c, s[i])
             /\ EqKeys(params[i].filter) \cup InKeys(params[i].filter) \subseteq Tracked
             /\ Belongs(v, params[i], s[i])
  <2>1. \A c \in RowTypes(params[i]) : SameEntry(v, w, c, s[i])
    BY <1>4, <1>5, InterestCovers
  <2>2. EqKeys(params[i].filter) \cup InKeys(params[i].filter) \subseteq Tracked
    BY <1>5 DEF SearchOK
  <2> QED BY <1>3, <1>5, <2>1, <2>2, RowSame
<1>6. ASSUME NEW i \in DOMAIN params, params[i].kind = "query" PROVE RowOf(v, params, s, i)
  <2>1. ASSUME NEW key \in EqKeys(params[i].filter) \cup InKeys(params[i].filter)
        PROVE  /\ SameEntry(v, w, key, s[i])
               /\ \A j \in Siblings(params, i, key) : SameEntry(v, w, key, s[j])
    <3>1. key \in RowTypes(params[i])
      BY KeyTypes
    <3>2. \A j \in Siblings(params, i, key) :
             j \in DOMAIN params /\ params[j].kind = "query" /\ key \in RowTypes(params[j])
      BY KeyTypes
    <3> QED BY <1>5, <1>6, <3>1, <3>2
  <2>2. Joins(v, params, i, s, s[i]) <=> Joins(w, params, i, s, s[i])
    BY <1>3, <1>5, <1>6, <2>1, JoinsSame
  <2> QED BY <1>3, <1>5, <1>6, <2>2 DEF RowOf
<1>7. s \in States(v, params)
  <2>1. \A i \in DOMAIN params : params[i].kind # "query" => RowOf(v, params, s, i)
    BY <1>3 DEF RowOf
  <2> QED BY <1>1, <1>6, <2>1, StatesAre, IsStateRows
<1>8. ASSUME NEW i \in DOMAIN params, params[i].kind = "query"
      PROVE  RowDeps(v, params[i], s[i]) = RowDeps(w, params[i], s[i])
  <2>1. ASSUME NEW r \in PartsOf(params[i]), r.kind = "related",
               NEW m \in Members(v, r.type, s[i]), NEW q \in r.of
        PROVE  SameEntry(v, w, q.type, m)
    <3>1. r.type \in Inverses \cap Tracked /\ r.type \in RowTypes(params[i]) /\ q.type \in RowTypes(params[i])
      <4>1. {r.type, q.type} \subseteq PartTypes(r)
        BY <2>1 DEF PartTypes
      <4> QED BY <1>3, <1>8, <2>1, <4>1 DEF ObservedOK, RowTypes
    <3>2. m \in Members(w, r.type, s[i])
      BY <1>5, <1>8, <2>1, <3>1, EntrySame
    <3>3. Targets(w, EdgeOf(r.type), m) = {s[i]}
      BY <3>1, <3>2, MembersExact
    <3>4. PartAt(w, r, m).providers = Targets(w, EdgeOf(r.type), m)
      BY <2>1 DEF PartAt, RelatedPart
    <3>5. ~PairExpandable(params[i])
      BY <1>8, <2>1 DEF SearchOK
    <3>6. s[i] \notin H
      BY <1>3, <1>8, <3>5
    <3>7. m \notin D
      BY <1>8, <3>3, <3>4, <3>6, ProvidersHinted
    <3>8. q.type \in InterestIn(params)
      BY <1>8, <3>1, InterestCovers
    <3> QED BY <3>7, <3>8
  <2> QED BY <1>3, <1>5, <1>8, <2>1, RowDepsSame
<1>9. ASSUME NEW i \in DOMAIN params
      PROVE ParamDeps(v, params[i], s[i]) = ParamDeps(w, params[i], s[i])
  <2>1. CASE params[i].kind = "query"
    <3>1. s[i] # None
      BY <1>3, <2>1
    <3> QED BY <1>8, <2>1, <3>1 DEF ParamDeps
  <2>2. CASE params[i].kind # "query"
    BY <1>3, <2>2 DEF ParamDeps
  <2> QED BY <2>1, <2>2
<1> QED BY <1>4, <1>7, <1>9, DepsByRow

\* A row that names an entity which is despawned is told by it: the store that
\* made the entity a row of its query, or the inverse that listed it, has moved.
LEMMA Despawned ==
  ASSUME InitOK, None \notin Ids, NEW v, Ordered(v), NEW w, Ordered(w), Grows(v, w),
         NEW params, SystemOK(params), JoinOK(params), SearchOK(params), InterestIn(params) # None,
         NEW x, NEW n, n = RemoveEntity(w, x), Ordered(n), Grows(w, n),
         NEW s \in States(v, params), x \in Range(Keys(s))
  PROVE  \E j \in DOMAIN params, c \in InterestIn(params) : Since(v, n, c, s[j])
<1>0. /\ Steady(v, Ids) /\ Steady(w, Ids) /\ Steady(n, Ids) /\ Grows(v, n)
      /\ InterestIn(params) \subseteq Components
  BY GrowsOn DEF Ordered, SearchOK
<1>1. Tuple(s, Len(params)) /\ \A i \in DOMAIN params : RowOf(v, params, s, i)
  BY StatesAre, IsStateRows
<1>2. DOMAIN params = 1 .. Len(params) /\ Len(params) \in Nat
  BY DEF SystemOK, IsList
<1>3. RowShape(params, s)
  BY StatesShape
<1>4. PICK i \in DOMAIN params : x = s[i] /\ s[i] \notin {None, Unit}
  <2>1. \A j \in 1 .. Len(params) : s[j] \in Ids \cup {None, Unit}
    BY <1>2, <1>3 DEF RowShape
  <2>2. \E i \in Identified(s, Len(params)) : x = s[i]
    BY <1>1, <1>2, <2>1, KeysOfRow
  <2> QED BY <1>2, <2>2 DEF Identified
<1> DEFINE p == params[i]
<1>5. /\ p.kind \in {"query", "outer"} /\ s[i] \in Ids
      /\ Belongs(v, p, s[i]) /\ Joins(v, params, i, s, s[i])
  <2>1. RowOf(v, params, s, i)
    BY <1>1
  <2>2. p.kind \in {"query", "outer"} /\ s[i] \in Ids
    BY <1>3, <1>4 DEF RowShape
  <2> QED BY <1>4, <2>1, <2>2 DEF RowOf
<1>6. PICK c \in Identity(p) : TRUE
  BY <1>5 DEF SearchOK
<1>7. CASE c \in Required(p.facet) \cup PartRequires(p) \cup {a.type : a \in Drivers(p.filter)}
  <2>1. Has(v, c, x)
    <3>1. \A a \in Drivers(p.filter) : Has(v, a.type, x)
      BY <1>4, <1>5, MatchesDrive DEF Belongs
    <3> QED BY <1>4, <1>5, <1>7, <3>1 DEF Belongs, HasAll
  <2>2. c \in RowTypes(p)
    <3>1. Required(p.facet) \subseteq RowTypes(p)
      BY DEF Required, RowTypes
    <3>2. \A a \in Drivers(p.filter) : a.type \in RowTypes(p)
      BY DEF Drivers, Atoms, RowTypes
    <3>3. PartRequires(p) \subseteq RowTypes(p)
      <4> SUFFICES ASSUME NEW r \in PartsOf(p), r.kind \in {"read", "mut"} PROVE r.type \in RowTypes(p)
        BY DEF PartRequires
      <4>1. r.type \in PartTypes(r)
        BY DEF PartTypes
      <4> QED BY <4>1 DEF RowTypes
    <3> QED BY <1>7, <3>1, <3>2, <3>3
  <2>3. c \in InterestIn(params) /\ c \in Components
    BY <1>0, <1>5, <2>2, InterestCovers
  <2>4. CASE Has(w, c, x)
    <3>1. Since(w, n, c, x)
      BY <1>0, <2>3, <2>4, RemoveEntityGrows DEF InitOK, Ordered
    <3>2. Since(v, n, c, x)
      BY <1>0, <2>3, <3>1, SinceOn
    <3> QED BY <1>4, <2>3, <3>2
  <2>5. CASE ~Has(w, c, x)
    <3>1. ~SameEntry(v, w, c, x)
      BY <2>1, <2>5 DEF SameEntry, Has
    <3>2. Since(v, w, c, x)
      BY <2>3, <3>1, SinceGone
    <3>3. Since(v, n, c, x)
      BY <1>0, <2>3, <3>2, SinceOn
    <3> QED BY <1>4, <2>3, <3>3
  <2> QED BY <2>4, <2>5
<1>8. CASE c \in InKeys(p.filter)
  <2>1. PICK j \in DOMAIN params : Siblings(params, i, c) = {j}
    BY <1>8 DEF JoinOK
  <2>2. c \in Inverses /\ c \in Tracked /\ c \in InterestIn(params) /\ c \in Components
    <3>1. c \in InterestIn(params)
      BY <1>8, <2>1, KeyTypes
    <3> QED BY <1>0, <1>5, <1>8, <3>1 DEF JoinOK, SearchOK
  <2>3. x \in Members(v, c, s[j])
    <3>1. Targets(v, EdgeOf(c), s[i]) = {s[j]}
      BY <1>5, <1>8, <2>1 DEF Joins
    <3> QED BY <1>4, <1>5, <2>2, <3>1, MembersExact
  <2>4. x \notin Members(n, c, s[j])
    <3>1. EdgeOf(c) \in Edges /\ InverseOf[EdgeOf(c)] = c
      BY <2>2, MembersExact
    <3>2. ~Edge(n, EdgeOf(c), x, s[j])
      BY <1>0, <3>1, RemoveEntitySound DEF Ordered, InitOK
    <3>3. Linked(n)
      BY OrderedStores
    <3>4. ~Member(n, EdgeOf(c), x, s[j])
      BY <3>1, <3>2, <3>3 DEF Linked
    <3> QED BY <3>1, <3>4 DEF Member
  <2>5. ~SameEntry(v, n, c, s[j])
    BY <2>2, <2>3, <2>4, EntrySame
  <2>6. Since(v, n, c, s[j])
    BY <1>0, <2>2, <2>5, SinceGone
  <2> QED BY <2>1, <2>2, <2>6
<1> QED BY <1>7, <1>8 DEF Identity

\* A bounded set of naturals has a greatest element.
LEMMA GreatestExists ==
  ASSUME NEW S \in SUBSET Nat, S # {}, NEW n \in Nat, \A x \in S : x <= n
  PROVE  Max(S) \in S /\ \A y \in S : Max(S) >= y
<1> DEFINE back == {k \in Nat : \E x \in S : k = n - x}
<1>1. back \in SUBSET Nat /\ back # {}
  <2>1. PICK x \in S : TRUE
    OBVIOUS
  <2>2. n - x \in back
    BY <2>1
  <2> QED BY <2>2
<1>2. PICK k \in back : \A y \in back : k <= y
  <2> HIDE DEF back
  <2> QED BY <1>1, LeastExists
<1>3. PICK x \in S : k = n - x
  BY <1>2
<1>4. \A y \in S : x >= y
  <2> TAKE y \in S
  <2>1. n - y \in back
    OBVIOUS
  <2>2. n - x <= n - y
    BY <1>2, <1>3, <2>1
  <2> QED BY <2>2
<1> QED BY <1>3, <1>4 DEF Max

\* The highest watermark of some stores is above what it was, or none of the
\* stores moved.
LEMMA MarkMoves ==
  ASSUME InitOK, NEW v, Ordered(v), NEW w, Ordered(w), Grows(v, w),
         NEW T \in SUBSET Components, T # None
  PROVE  /\ MarkOf(v, T) \in Nat
         /\ \/ MarkOf(w, T) > MarkOf(v, T)
            \/ \A c \in T : w.watermark[c] = v.watermark[c] /\ \A e : SameEntry(v, w, c, e)
<1>1. ASSUME NEW u, Ordered(u)
      PROVE  /\ u.revision \in Nat
             /\ MarkOf(u, T) \in Nat /\ MarkOf(u, T) <= u.revision
             /\ \A c \in T : u.watermark[c] \in Nat /\ MarkOf(u, T) >= u.watermark[c]
  <2> DEFINE marks == {0} \cup {u.watermark[c] : c \in T}
  <2>1. MarkOf(u, T) = Max(marks)
    BY DEF MarkOf
  <2>2. u.revision \in Nat /\ \A c \in T : u.watermark[c] \in Nat
    BY <1>1 DEF Ordered, Steady, IsWorld
  <2>3. \A c \in T : u.watermark[c] <= u.revision
    BY <1>1 DEF Ordered, Steady, RevisionsBounded
  <2>4. marks \in SUBSET Nat /\ marks # {} /\ \A x \in marks : x <= u.revision
    BY <2>2, <2>3
  <2>5. \A c \in T : u.watermark[c] \in marks
    OBVIOUS
  <2> HIDE DEF marks
  <2>6. Max(marks) \in marks /\ \A y \in marks : Max(marks) >= y
    BY <2>2, <2>4, GreatestExists
  <2> QED BY <2>1, <2>2, <2>4, <2>5, <2>6
<1>2. \A c \in T : \/ v.revision < w.watermark[c]
                   \/ w.watermark[c] = v.watermark[c] /\ \A e : SameEntry(v, w, c, e)
  BY DEF Grows
<1>3. \A c \in T : v.revision < w.watermark[c] => MarkOf(w, T) > MarkOf(v, T)
  BY <1>1
<1>4. MarkOf(v, T) \in Nat
  BY <1>1
<1> QED BY <1>2, <1>3, <1>4

SearchesOK == InitWorld.epoch # None /\ \A s \in DOMAIN Plans : SearchOK(Plans[s])

\* The memos m and the cursor k that a plan over v left: every row of v has its
\* memo, or lost it to a despawn that moved a store since.
PlannedOver(v, w, params, m, k) ==
    /\ Ordered(v) /\ Grows(v, w)
    /\ k.mark = MarkOf(v, InterestIn(params))
    /\ DeltaShape(params) = "driver" => k.pos = Len(v.log)
    /\ \A s \in States(v, params) :
          \/ Keys(s) \in DOMAIN m /\ m[Keys(s)].deps = StateDeps(v, params, s)
          \/ \E j \in DOMAIN params, c \in InterestIn(params) : Since(v, w, c, s[j])
LooksBack(w, params, m, k) ==
    InterestIn(params) # None =>
        \/ k.mark = None /\ k.epoch = None
        \/ \E v : PlannedOver(v, w, params, m, k)

\* The system under plan is one of them.
LEMMA PlanHypotheses ==
  ASSUME SystemsOK, JoinsOK, MemosOK, SearchesOK, system \in DOMAIN Plans
  PROVE  /\ SystemOK(Params) /\ JoinOK(Params) /\ None \notin Ids /\ None \notin Nat /\ OneOuter(Params)
         /\ SearchOK(Params) /\ \A i \in DOMAIN Params : ObservedOK(Params[i])
         /\ \A w : SystemInterest(w) = InterestIn(Params)
<1>1. /\ SystemOK(Params) /\ JoinOK(Params) /\ None \notin Ids /\ None \notin Nat /\ OneOuter(Params)
      /\ SearchOK(Params) /\ \A i \in DOMAIN Params : ObservedOK(Params[i])
  BY DEF SystemsOK, JoinsOK, MemosOK, SearchesOK, Params
<1>2. ASSUME NEW w PROVE SystemInterest(w) = InterestIn(Params)
  <2>1. \A i \in DOMAIN Params : Interest(w, Params[i]) = InterestOf(Params[i])
    BY <1>1, InterestIs DEF SystemOK
  <2>2. {Interest(w, Params[i]) : i \in DOMAIN Params} = {InterestOf(Params[i]) : i \in DOMAIN Params}
    BY <2>1
  <2> QED BY <2>2 DEF SystemInterest, InterestIn
<1> QED BY <1>1, <1>2

\* A write that was logged behind the cursor is dirty.
LEMMA LoggedDirty ==
  ASSUME Ordered(world), cursor.pos \in Nat, NEW c \in SystemInterest(world), NEW e,
         NEW i \in cursor.pos + 1 .. Len(world.log), world.log[i] = <<c, e>>
  PROVE  e \in Dirty
<1> DEFINE new == SubSeq(world.log, cursor.pos + 1, Len(world.log))
<1>1. world.log \in Seq(Components \X Ids)
  BY DEF Ordered, Steady
<1>2. /\ Len(world.log) \in Nat /\ i \in Nat /\ cursor.pos + 1 <= i /\ i <= Len(world.log)
      /\ cursor.pos + 1 \in 1 .. Len(world.log)
  BY <1>1
<1>5. /\ new \in Seq(Components \X Ids) /\ Len(new) = Len(world.log) - cursor.pos
      /\ \A k \in 1 .. Len(world.log) - (cursor.pos + 1) + 1 : new[k] = world.log[cursor.pos + 1 + k - 1]
  <2> DEFINE log == world.log
             m == cursor.pos + 1
             n == Len(world.log)
             S == Components \X Ids
  <2>1. m \in Int /\ n \in Int /\ \A k \in m .. n : log[k] \in S
    BY <1>1
  <2>2. m <= n /\ n - m + 1 = Len(world.log) - cursor.pos
    BY <1>2
  <2>3. new = SubSeq(log, m, n)
    OBVIOUS
  <2> HIDE DEF new, log, m, n, S
  <2>4. /\ SubSeq(log, m, n) \in Seq(S)
        /\ Len(SubSeq(log, m, n)) = IF m <= n THEN n - m + 1 ELSE 0
        /\ \A k \in 1 .. n - m + 1 : SubSeq(log, m, n)[k] = log[m + k - 1]
    BY <2>1, SubSeqProperties
  <2>5. /\ new \in Seq(S) /\ Len(new) = Len(world.log) - cursor.pos
        /\ \A k \in 1 .. n - m + 1 : new[k] = log[m + k - 1]
    BY <2>2, <2>3, <2>4
  <2> QED BY <2>5, Zenon DEF log, m, n, S
<1> HIDE DEF new
<1>6. i - cursor.pos \in 1 .. Len(new) /\ DOMAIN new = 1 .. Len(new)
  BY <1>2, <1>5
<1>7. new[i - cursor.pos] = world.log[i]
  <2>1. i - cursor.pos \in 1 .. Len(world.log) - (cursor.pos + 1) + 1
    BY <1>2
  <2>2. cursor.pos + 1 + (i - cursor.pos) - 1 = i
    BY <1>2
  <2>3. new[i - cursor.pos] = world.log[cursor.pos + 1 + (i - cursor.pos) - 1]
    BY <1>5, <2>1, Zenon
  <2> QED BY <2>2, <2>3
<1>3. <<c, e>> \in Range(new)
  BY <1>6, <1>7 DEF Range
<1>4. <<c, e>>[1] = c /\ <<c, e>>[2] = e
  OBVIOUS
<1> QED BY <1>3, <1>4, Zenon DEF Dirty, new

\* What is due is found by the next plan.
LEMMA DueIsFound ==
  ASSUME InitOK, SystemsOK, JoinsOK, MemosOK, SearchesOK, PlanState,
         LooksBack(world, Params, memo, cursor)
  PROVE  NoRowMissed
<1> SUFFICES ASSUME NEW s \in States(world, Params), Stale(s)
    PROVE  NeedsPlanning /\ s \in Candidates
  BY DEF NoRowMissed
<1> DEFINE I == InterestIn(Params)
<1>1. /\ SystemOK(Params) /\ JoinOK(Params) /\ None \notin Ids /\ None \notin Nat /\ OneOuter(Params)
      /\ SearchOK(Params) /\ \A i \in DOMAIN Params : ObservedOK(Params[i])
      /\ SystemInterest(world) = I
  BY PlanHypotheses DEF PlanState
<1>2. Ordered(world) /\ cursor.pos \in Nat
  BY DEF PlanState
<1>3. Mark(world) = MarkOf(world, I)
  BY <1>1 DEF Mark
<1>4. CASE I = None
  <2>1. Mark(world) = None
    BY <1>3, <1>4 DEF MarkOf
  <2>2. ~DeltaEligible
    BY <1>1, <1>4 DEF DeltaEligible
  <2> QED BY <2>1, <2>2 DEF NeedsPlanning, MovedPast, Candidates
<1>5. CASE cursor.mark = None /\ cursor.epoch = None
  <2>1. world.epoch # None
    BY <1>2 DEF Ordered, Grows, SearchesOK
  <2> QED BY <1>5, <2>1 DEF NeedsPlanning, MovedPast, Candidates
<1>6. CASE I # None /\ \E v : PlannedOver(v, world, Params, memo, cursor)
  <2>1. PICK v : PlannedOver(v, world, Params, memo, cursor)
    BY <1>6
  <2>2. Ordered(v) /\ Grows(v, world) /\ cursor.mark = MarkOf(v, I)
    BY <2>1 DEF PlannedOver
  <2>3. I \subseteq Components
    BY <1>1, <1>6 DEF SearchOK
  <2>4. Keys(s) \notin DOMAIN memo \/ memo[Keys(s)].deps # StateDeps(world, Params, s)
    <3>1. ~AlwaysRun(Params)
      BY <1>1, <1>6, InterestCovers DEF AlwaysRun
    <3> QED BY <3>1 DEF Stale
  <2>5. ASSUME s \in States(v, Params), StateDeps(v, Params, s) = StateDeps(world, Params, s)
        PROVE  \E j \in DOMAIN Params, c \in I : Since(v, world, c, s[j])
    BY <2>1, <2>4, <2>5 DEF PlannedOver
  <2>6. NeedsPlanning
    <3>1. CASE MarkOf(world, I) > MarkOf(v, I)
      BY <1>3, <2>2, <3>1 DEF NeedsPlanning, MovedPast
    <3>2. CASE \A c \in I : world.watermark[c] = v.watermark[c] /\ \A e : SameEntry(v, world, c, e)
      <4>1. s \in States(v, Params) /\ StateDeps(v, Params, s) = StateDeps(world, Params, s)
        BY <1>1, <1>2, <1>6, <2>2, <3>2, Unmoved
      <4>2. PICK j \in DOMAIN Params, c \in I : Since(v, world, c, s[j])
        BY <2>5, <4>1
      <4>3. v.revision < world.watermark[c] /\ world.watermark[c] = v.watermark[c]
        BY <3>2, <4>2 DEF Since
      <4>4. v.watermark[c] \in Nat /\ v.revision \in Nat /\ v.watermark[c] <= v.revision
        <5>1. v.watermark[c] \in Nat /\ v.revision \in Nat
          BY <2>2, <2>3 DEF Ordered, Steady, IsWorld
        <5>2. v.watermark[c] <= v.revision
          BY <2>2, <2>3 DEF Ordered, Steady, RevisionsBounded
        <5> QED BY <5>1, <5>2
      <4> QED BY <4>3, <4>4
    <3> QED BY <1>2, <1>6, <2>2, <2>3, <3>1, <3>2, MarkMoves
  <2>7. CASE ~(DeltaEligible /\ cursor.epoch = world.epoch)
    BY <2>6, <2>7 DEF Candidates
  <2>8. CASE DeltaEligible /\ cursor.epoch = world.epoch
    <3>1. DeltaShape(Params) = "driver" /\ Candidates = StatesHinted(world, Params, Dirty)
      BY <2>8 DEF DeltaEligible, Candidates
    <3>2. Dirty \subseteq Ids /\ Expanded(world, Params, Dirty) \subseteq Ids
      BY <1>1, <1>2, DirtyAllocated, ExpandedAllocated
    <3>3. ASSUME NEW c \in I, NEW e,
                 \E i \in Len(v.log) + 1 .. Len(world.log) : world.log[i] = <<c, e>>
          PROVE  e \in Dirty
      <4>1. cursor.pos = Len(v.log)
        BY <2>1, <3>1 DEF PlannedOver
      <4>2. PICK i \in cursor.pos + 1 .. Len(world.log) : world.log[i] = <<c, e>>
        BY <3>3, <4>1
      <4>3. c \in SystemInterest(world)
        BY <1>1
      <4> QED BY <1>2, <4>2, <4>3, LoggedDirty
    <3>4. \A c \in I : \A e : e \notin Dirty => SameEntry(v, world, c, e)
      BY <2>2, <2>3, <3>3 DEF Grows
    <3>5. CASE \E i \in DriversOf(Params) : s[i] \in Expanded(world, Params, Dirty)
      BY <1>1, <1>2, <2>6, <3>1, <3>2, <3>5, HintFinds DEF StatesHinted
    <3>6. CASE \A i \in DriversOf(Params) : s[i] \notin Expanded(world, Params, Dirty)
      <4>1. /\ s \in States(v, Params) /\ StateDeps(v, Params, s) = StateDeps(world, Params, s)
            /\ \A i \in DOMAIN Params : Params[i].kind = "query" => s[i] \notin Dirty
        BY <1>1, <1>2, <1>6, <2>2, <3>1, <3>4, <3>6, Unhinted
      <4>2. PICK j \in DOMAIN Params : \E c \in I : Since(v, world, c, s[j])
        BY <2>5, <4>1
      <4>3. s[j] \in Dirty
        BY <3>3, <4>2 DEF Since
      <4>4. Params[j].kind \notin {"query", "outer"}
        <5>1. ParamShape(Params[j]) \in {"inert", "pair", "driver"}
          BY <1>1, <3>1, DriverShapes
        <5>2. Params[j].kind # "outer"
          BY <5>1 DEF ParamShape, PairExpandable
        <5> QED BY <4>1, <4>3, <5>2
      <4>5. s[j] = Unit
        BY <1>1, <1>2, <4>4, StatesShape DEF RowShape
      <4>6. Unit \notin Ids
        BY DEF Unit, Ids, Allocated
      <4> QED BY <3>2, <4>3, <4>5, <4>6
    <3> QED BY <3>5, <3>6
  <2> QED BY <2>7, <2>8
<1> QED BY <1>4, <1>5, <1>6 DEF LooksBack

\* A plan leaves a memo for every row of the world it planned over: for the rows
\* that were due since it found them all, for the others the one they had.
LEMMA PlanRemembers ==
  ASSUME InitOK, SystemsOK, JoinsOK, MemosOK, SearchesOK, PlanState,
         NoRowMissed, HintsOnlyNarrow, NEW s \in States(world, Params), ~AlwaysRun(Params)
  PROVE  LET m == Remembered(Admitted)
         IN  Keys(s) \in DOMAIN m /\ m[Keys(s)].deps = StateDeps(world, Params, s)
<1> DEFINE keys == {Keys(t) : t \in Admitted}
           pick(k) == CHOOSE t \in Admitted : Keys(t) = k
           m == Remembered(Admitted)
<1>1. m = [k \in keys \cup DOMAIN memo |-> IF k \in keys THEN MemoEntry(pick(k)) ELSE memo[k]]
  BY DEF Remembered
<1>2. \A k \in keys : pick(k) \in Admitted /\ Keys(pick(k)) = k
  OBVIOUS
<1>3. Admitted \subseteq States(world, Params)
  BY DEF Admitted, HintsOnlyNarrow
<1>4. ASSUME Stale(s) PROVE Keys(s) \in keys
  <2>1. s \in Admitted
    BY <1>4 DEF NoRowMissed, Admitted
  <2> QED BY <2>1
<1>5. ASSUME ~Stale(s)
      PROVE Keys(s) \in DOMAIN memo /\ memo[Keys(s)].deps = StateDeps(world, Params, s)
  BY <1>5 DEF Stale
<1> HIDE DEF keys, pick, m
<1>6. CASE Keys(s) \in keys
  <2>1. pick(Keys(s)) \in States(world, Params) /\ Keys(pick(Keys(s))) = Keys(s)
    BY <1>2, <1>3, <1>6
  <2>2. /\ SystemOK(Params) /\ JoinOK(Params) /\ None \notin Ids /\ OneOuter(Params)
        /\ Ordered(world) /\ DOMAIN Params = 1 .. Len(Params) /\ Len(Params) \in Nat
    BY PlanHypotheses DEF PlanState, SystemOK, IsList
  <2>3. RowShape(Params, s) /\ RowShape(Params, pick(Keys(s)))
    BY <2>1, <2>2, StatesShape
  <2>4. pick(Keys(s)) = s
    BY <2>1, <2>2, <2>3, KeysTell DEF OneOuter
  <2>5. m[Keys(s)] = MemoEntry(s) /\ Keys(s) \in DOMAIN m
    BY <1>1, <1>6, <2>4
  <2>6. MemoEntry(s).deps = StateDeps(world, Params, s)
    BY DEF MemoEntry
  <2> QED BY <2>5, <2>6 DEF m
<1>7. CASE Keys(s) \notin keys
  <2>1. Keys(s) \in DOMAIN memo /\ memo[Keys(s)].deps = StateDeps(world, Params, s)
    BY <1>4, <1>5, <1>7
  <2>2. Keys(s) \in DOMAIN m /\ m[Keys(s)] = memo[Keys(s)]
    BY <1>1, <1>7, <2>1
  <2> QED BY <2>1, <2>2 DEF m
<1> QED BY <1>6, <1>7

\* A write of another actor leaves every row its memo, or tells that it took it.
LEMMA WriteTells ==
  ASSUME InitOK, WritesOK, NEW params, SystemOK(params), JoinOK(params), None \notin Ids, SearchOK(params),
         NEW x \in Writes, NEW w, Ordered(w), x.op = "update" => Has(w, x.type, x.at),
         NEW n, n = Perform(w, x), NEW m, NEW k,
         NEW l, l = IF x.op = "despawn" THEN Restrict(m, {d \in DOMAIN m : x.at \notin Range(d)}) ELSE m,
         LooksBack(w, params, m, k)
  PROVE  LooksBack(n, params, l, k)
<1> DEFINE I == InterestIn(params)
<1> SUFFICES ASSUME I # None, ~(k.mark = None /\ k.epoch = None)
    PROVE  \E v : PlannedOver(v, n, params, l, k)
  BY DEF LooksBack
<1>1. PICK v : PlannedOver(v, w, params, m, k)
  BY DEF LooksBack
<1>2. Ordered(v) /\ Grows(v, w) /\ Ordered(n) /\ Grows(w, n)
  BY <1>1, PerformGrows DEF PlannedOver
<1>3. /\ Steady(v, Ids) /\ Steady(w, Ids) /\ Steady(n, Ids) /\ Grows(v, n)
      /\ I \subseteq Components
  BY <1>2, GrowsOn DEF Ordered, SearchOK
<1>4. ASSUME NEW s \in States(v, params)
      PROVE  \/ Keys(s) \in DOMAIN l /\ l[Keys(s)].deps = StateDeps(v, params, s)
             \/ \E j \in DOMAIN params, c \in I : Since(v, n, c, s[j])
  <2>1. CASE \E j \in DOMAIN params, c \in I : Since(v, w, c, s[j])
    <3>1. PICK j \in DOMAIN params, c \in I : Since(v, w, c, s[j])
      BY <2>1
    <3>2. Since(v, n, c, s[j])
      BY <1>2, <1>3, <3>1, SinceOn
    <3> QED BY <3>2
  <2>2. CASE Keys(s) \in DOMAIN m /\ m[Keys(s)].deps = StateDeps(v, params, s)
    <3>1. CASE x.op # "despawn"
      BY <2>2, <3>1
    <3>2. CASE x.op = "despawn" /\ x.at \notin Range(Keys(s))
      <4> DEFINE left == {d \in DOMAIN m : x.at \notin Range(d)}
      <4>1. l = Restrict(m, left) /\ Keys(s) \in left
        BY <2>2, <3>2
      <4> HIDE DEF left
      <4>2. l = [d \in left |-> m[d]]
        BY <4>1 DEF Restrict
      <4> QED BY <2>2, <4>1, <4>2
    <3>3. CASE x.op = "despawn" /\ x.at \in Range(Keys(s))
      <4>1. n = RemoveEntity(w, x.at)
        BY <3>3 DEF Perform
      <4> QED BY <1>2, <3>3, <4>1, Despawned
    <3> QED BY <3>1, <3>2, <3>3
  <2> QED BY <1>1, <2>1, <2>2 DEF PlannedOver
<1>5. /\ k.mark = MarkOf(v, I)
      /\ DeltaShape(params) = "driver" => k.pos = Len(v.log)
  BY <1>1 DEF PlannedOver
<1> QED BY <1>2, <1>3, <1>4, <1>5 DEF PlannedOver

\* Incremental planning loses no work: a row that a full plan would run now is run
\* by the next plan, although that plan looks at its mark first, and then only at
\* the rows written since its cursor and the providers they pair with
\* (run_phase_streaming, states_hinted, hint_providers).
THEOREM RowsFound ==
  ASSUME InitOK, WritesOK, SystemsOK, JoinsOK, MemosOK, SearchesOK
  PROVE  Spec => []NoRowMissed
<1> DEFINE Inv == PlanState /\ LooksBack(world, Params, memo, cursor)
<1>1. Init => LooksBack(world, Params, memo, cursor)
  BY DEF Init, LooksBack
<1>2. Inv => NoRowMissed
  BY DueIsFound
<1>3. Inv /\ HintsOnlyNarrow /\ [Next]_vars /\ PlanState' => LooksBack(world, Params, memo, cursor)'
  <2> SUFFICES ASSUME Inv, HintsOnlyNarrow, [Next]_vars, PlanState'
        PROVE  LooksBack(world', Params', memo', cursor')
    OBVIOUS
  <2>0. /\ PlanState /\ LooksBack(world, Params, memo, cursor) /\ NoRowMissed /\ Ordered(world)
        /\ system \in DOMAIN Plans
    BY <1>2 DEF PlanState
  <2> HIDE DEF Inv
  <2>1. /\ SystemOK(Params) /\ JoinOK(Params) /\ None \notin Ids /\ SearchOK(Params)
        /\ SystemInterest(world) = InterestIn(Params)
    BY <2>0, PlanHypotheses
  <2>2. CASE Write
    <3>1. PICK x \in Writes : /\ x.op = "update" => Has(world, x.type, x.at)
                              /\ world' \in {Perform(world, x)} \ {world}
                              /\ memo' = IF x.op = "despawn"
                                         THEN Restrict(memo, {k \in DOMAIN memo : x.at \notin Range(k)})
                                         ELSE memo
      BY <2>2 DEF Write
    <3>2. Params' = Params /\ cursor' = cursor /\ world' = Perform(world, x)
      BY <2>2, <3>1 DEF Write, Params
    <3>3. LooksBack(world', Params, memo', cursor)
      BY <2>0, <2>1, <3>1, <3>2, WriteTells
    <3> QED BY <3>2, <3>3
  <2>3. CASE Plan
    <3>1. /\ memo' = Remembered(Admitted) /\ world' = world /\ Params' = Params
          /\ cursor' = Advanced(Mark(world), DeltaEligible)
      BY <2>3 DEF Plan, Params
    <3> SUFFICES ASSUME InterestIn(Params) # None
          PROVE  PlannedOver(world, world, Params, Remembered(Admitted), cursor')
      BY <3>1 DEF LooksBack
    <3>2. Ordered(world) /\ Grows(world, world)
      BY <2>0, GrowsSelf DEF Ordered
    <3>3. cursor'.mark = MarkOf(world, InterestIn(Params))
      BY <2>1, <3>1 DEF Advanced, Mark
    <3>4. DeltaShape(Params) = "driver" => cursor'.pos = Len(world.log)
      BY <2>1, <3>1 DEF Advanced, DeltaEligible
    <3>5. ~AlwaysRun(Params)
      BY <2>1, InterestCovers DEF AlwaysRun
    <3>6. \A s \in States(world, Params) :
             LET m == Remembered(Admitted)
             IN  Keys(s) \in DOMAIN m /\ m[Keys(s)].deps = StateDeps(world, Params, s)
      BY <2>0, <3>5, PlanRemembers
    <3> QED BY <3>2, <3>3, <3>4, <3>6 DEF PlannedOver
  <2>4. CASE UNCHANGED vars
    BY <2>0, <2>4 DEF vars, Params
  <2> QED BY <2>2, <2>3, <2>4 DEF Next
<1> QED BY <1>1, <1>2, <1>3, PlanInvariant, HintsNarrow, PTL DEF Spec
=============================================================================
