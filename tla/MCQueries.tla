----------------------------- MODULE MCQueries -----------------------------
(* Small instances of modules Queries and Filters. *)
EXTENDS Filters

-----------------------------------------------------------------------------
(* Systems *)

Part(k, c) == [kind |-> k, type |-> c]
Atom(k, c) == [kind |-> k, type |-> c]
Field(c, o) == [type |-> c, optional |-> o]
Param(k, parts, filter) ==
    [kind |-> k, bare |-> FALSE, facet |-> {}, parts |-> parts, filter |-> filter]
Handle(facet, filter) ==
    [kind |-> "query", bare |-> TRUE, facet |-> facet, parts |-> <<>>, filter |-> filter]
Named == {Field("K", FALSE), Field("V", TRUE)}

MCPlans ==
    [equal |-> <<Param("query", <<Part("read", "K")>>, {}),
                 Param("query", <<Part("read", "V")>>, {Atom("eq", "K")})>>,
     member |-> <<Param("query", <<Part("read", "R")>>, {}),
                  Param("query", <<Part("option", "V")>>, {Atom("in", "R"), Atom("without", "M")})>>,
     related |-> <<Param("query", <<Part("read", "K"),
                                    [kind |-> "related", type |-> "R",
                                     of |-> {Part("read", "V"), Part("option", "K")}]>>, {})>>,
     gated |-> <<Handle({}, {Atom("with", "M")}), Param("query", <<Part("mut", "V")>>, {}),
                 Param("view", <<Part("read", "K")>>, {}), Param("commands", <<>>, {})>>,
     outer |-> <<Param("query", <<Part("read", "K")>>, {}),
                 Param("outer", <<Part("read", "V")>>, {Atom("eq", "K")})>>,
     compound |-> <<Param("query", <<Part("read", "K"), Part("read", "L")>>, {}),
                    Param("query", <<Part("read", "V")>>, {Atom("eq", "K"), Atom("eq", "L")})>>,
     aggregate |-> <<Param("trackedview", <<Part("read", "V")>>, {Atom("without", "M")})>>,
     facet |-> <<[kind |-> "query", bare |-> FALSE, facet |-> Named,
                  parts |-> <<Part("option", "V"), [kind |-> "tracked", facet |-> Named]>>,
                  filter |-> {Atom("without", "M")}]>>,
     sweep |-> <<Param("view", <<Part("read", "V")>>, {}), Param("meta", <<>>, {})>>]

\* namespaces -> types in a namespace -> methods on a type
ChainPlans ==
    [chain |-> <<Param("query", <<Part("read", "K")>>, {}),
                 Param("query", <<Part("read", "L")>>, {Atom("eq", "K")}),
                 Param("query", <<Part("read", "V")>>, {Atom("eq", "L")})>>]

OuterCompoundPlans ==
    [outer |-> <<Param("query", <<Part("read", "K"), Part("read", "L")>>, {}),
                 Param("outer", <<Part("read", "V")>>, {Atom("eq", "K"), Atom("eq", "L")})>>]

\* A bare handle whose facet requires K.
BareFacetPlans == [bare |-> <<Handle(Named, {}), Param("commands", <<>>, {})>>]

FacetViewPlans ==
    [view |-> <<[kind |-> "trackedview", bare |-> FALSE, facet |-> Named,
                 parts |-> <<Part("read", "V")>>, filter |-> {}]>>]

-----------------------------------------------------------------------------
(* Worlds and writes *)

Filled(facts) ==
    FoldLeft(LAMBDA w, f : Insert(w, f[1], f[2], f[3], None),
             [NewWorld EXCEPT !.next = Cardinality(Entities) + 1], facts)

MCInit == Filled(<< <<1, "K", 1>>, <<1, "L", 1>>, <<1, "V", 1>>, <<2, "K", 1>>, <<2, "L", 2>>,
                    <<2, "V", 2>>, <<2, "E", 1>>, <<3, "V", 1>>, <<3, "M", 1>> >>)
MCInverseOf == [E |-> "R"]

Puts(at, c, values) == [op : {"insert"}, at : at, type : {c}, value : values]
Updates(at, c) == [op : {"update"}, at : at, type : {c}, value : {2}]
Cuts(at, c) == [op : {"remove"}, at : at, type : {c}]
MCWrites ==
    UNION {Puts({1, 3}, "K", {1, 2}), Puts(Entities, "V", {1}), Puts({1, 2}, "M", {1}),
           Puts({1, 3}, "L", {1}), Puts({2, 3}, "E", {1, 3}),
           Updates({1, 2}, "V"), Updates({1, 2}, "K"),
           Cuts({1, 2}, "K"), Cuts(Entities, "V"), Cuts({3}, "M"), Cuts({2}, "E"),
           [op : {"despawn"}, at : Entities]}

\* Leaves, their negations, and conjunctions and disjunctions of two.
Leaves == {[op |-> o, type |-> "K"] : o \in {"eq", "gte", "without"}}
              \cup {[op |-> o, type |-> "V"] : o \in {"eq", "with"}}
Compounds == [op : {"and", "or"}, left : Leaves, right : Leaves]
Exprs == Leaves \cup Compounds \cup {[op |-> "not", left |-> x] : x \in Leaves}
MCArgs == <<None, "K">> :> 1 @@ <<None, "V">> :> 1 @@ <<"tag", "K">> :> 2

-----------------------------------------------------------------------------
(* External queries *)

\* The index only narrows: an external query returns exactly the rows of a full
\* scan that satisfy its expression, for read, Cow and Mut queries, with scoped
\* and with shared arguments (query.rs FilterExpr::candidates: "Candidates are
\* a superset of matches").  It speaks of the world alone, so the states of one
\* system that has not planned yet are enough.
FiltersExact ==
    system = "sweep" /\ DOMAIN memo = {} => \A x \in Exprs : \A scope \in {None, "tag"} :
        LET hit(e) == ExprMatches(world, MCArgs, scope, x, e)
        IN  /\ \A q \in {Param("query", <<Part("read", "K"), Part("option", "V")>>, {}),
                         Param("query", <<Part("read", "V")>>, {})} :
                   ExternalRows(world, MCArgs, scope, q, x) = {e \in Rows(world, q) : hit(e)}
            /\ ExternalMutRows(world, MCArgs, scope, "V", x)
                   = {<<e, RevisionOf(world, "V", e)>> : e \in {r \in StoreOf(world, "V") : hit(r)}}
=============================================================================
