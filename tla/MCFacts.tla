------------------------------ MODULE MCFacts ------------------------------
(***************************************************************************)
(* An instance of Facts: two documents joined by a reference.  `lint`      *)
(* derives a diagnostic from a document, `link` an output per joined pair, *)
(* `prune` removes outputs with the marker, or an entity, `reap` is        *)
(* cleanup_stale_derived, and `mark` is a settle system whose insert is    *)
(* deferred.                                                               *)
(***************************************************************************)
EXTENDS Facts

CONSTANTS data, out, ref, refs, anchors, single, lint, link, prune, reap, mark

MCInverseOf == ref :> refs
MCReads == lint :> <<{ref}>> @@ link :> <<{ref}, {data}>> @@ prune :> <<{out}>>
             @@ reap :> <<>> @@ mark :> <<{single}>>

Put(at, type, value) == [op |-> "insert", at |-> at, type |-> type, value |-> value]
New(bundle) == [op |-> "spawn", at |-> None, bundle |-> bundle]
Cut(at, type) == [op |-> "remove", at |-> at, type |-> type]
Kill(at) == [op |-> "despawn", at |-> at]

MCInitWorld ==
    LET base == <<<<1, data, 1>>, <<2, data, 1>>, <<1, ref, 2>>, <<3, single, 0>>>>
        w == FoldLeft(LAMBDA v, x : Insert(v, x[1], x[2], x[3], None), NewWorld, base)
    IN  [w EXCEPT !.next = 4, !.log = <<>>]

Buffers(bufs) == {[commands |-> b, writes |-> {}] : b \in bufs}

\* cleanup_stale_derived
Reap(w) ==
    LET stale == {e \in DOMAIN w.entries[anchors] :
                    ~IsCurrentAnchor(w, Entry(w, anchors, e).value)}
    IN  [i \in 1 .. Cardinality(stale) |-> Kill(SetToSeq(stale)[i])]

\* The marker is withdrawn from its entity.
Unmark(w) == [i \in 1 .. Cardinality(DOMAIN w.entries[single]) |->
                Cut(CHOOSE e \in DOMAIN w.entries[single] : TRUE, single)]

MCBodies(s, k, w) ==
    CASE s = lint -> Buffers({<<>>, <<New(<<<<anchors, {k[1]}>>>>), Put(k[1], out, 1)>>,
                              <<New(<<<<single, 0>>>>)>>})
      [] s = link -> Buffers({<<New(<<<<out, 1>>>>), New(<<<<single, 0>>>>)>>})
                       \cup {[commands |-> <<Put(k[1], out, 1)>>, writes |-> {<<data, k[2], 2>>}]}
      [] s = prune -> Buffers({<<Cut(k[1], out)>> \o Unmark(w), <<Kill(k[1])>>})
      [] s = reap -> Buffers({Reap(w)})
      [] s = mark -> Buffers({<<Put(k[1], out, 2)>>})

MCInputs == {Put(1, data, 2), Put(1, ref, 1), Cut(1, ref), Kill(2), New(<<<<single, 0>>>>)}

\* The reference is derived as well, and pruning removes the document it names.
DerivedEdgeWorld == [Insert(Insert(NewWorld, 1, data, 1, None), 2, data, 1, None) EXCEPT !.next = 3]
DerivedEdgeReads == lint :> <<{data}>> @@ link :> <<{ref}, {data}>> @@ prune :> <<{out}>>
DerivedEdgeBodies(s, k, w) ==
    CASE s = lint -> Buffers({IF k[1] = 1 THEN <<Put(1, ref, 2)>> ELSE <<>>})
      [] s = link -> Buffers({<<New(<<<<out, 1>>>>)>>})
      [] s = prune -> Buffers({<<Kill(2)>>})
=============================================================================
