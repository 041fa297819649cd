---------------------------- MODULE WorldProofs -----------------------------
(***************************************************************************)
(* Proofs about World, for every set of entities and types and every       *)
(* relation: each method of the store keeps its indexes exact.             *)
(*                                                                         *)
(* Sound(w, taken) says that the indexes of w agree with its stores,       *)
(* except that the outputs in "taken" have been taken out of the ownership *)
(* table by take_derived_outputs and are still stored: the rerun will      *)
(* write them again or the stale sweep remove them. Core is Sound without  *)
(* the agreement of the edges with the inverses, which is what is left of  *)
(* it in the middle of remove_entity. Each operator of World keeps Sound;  *)
(* so do the loops of the engine, by induction (FoldFacts).                *)
(***************************************************************************)
EXTENDS World, FiniteSetTheorems, WellFoundedInduction, TLAPS

\* The fields of the record that models a world.
Fields ==
    {"entries", "index", "presence", "owned", "watermark", "revision", "mutations", "spawns",
     "cursors", "singletons", "next", "removedEntities", "removedOwners",
     "removedComponentOwners", "pending", "log", "epoch"}

\* A world is a record, its stores are a function on the types, and each store
\* is a table of entries.
Columns == {"value", "revision", "fingerprint", "owner"}
Total(f, D) == f = [x \in D |-> f[x]]
IsWorld(w) ==
    /\ Total(w, Fields)
    /\ Total(w.entries, Components)
    /\ \A c \in Components : Total(w.entries[c], DOMAIN w.entries[c])
    /\ \A c \in Components : \A e \in DOMAIN w.entries[c] : w.entries[c][e].revision \in Nat
    /\ \A c \in Components : \A e \in DOMAIN w.entries[c] : DOMAIN w.entries[c][e] = Columns
    /\ w.watermark \in [Components -> Nat] /\ w.revision \in Nat

-----------------------------------------------------------------------------
(* The fields of the worlds the operators return *)

\* The greater of two numbers.
LEMMA MaxOfTwo ==
  ASSUME NEW a \in Nat, NEW b \in Nat
  PROVE  /\ Max({a, b}) \in Nat
         /\ a <= Max({a, b}) /\ b <= Max({a, b})
         /\ Max({a, b}) \in {a, b}
<1>1. \E m \in {a, b} : \A y \in {a, b} : m >= y
  BY a <= b \/ b <= a
<1> QED BY <1>1 DEF Max

\* The marker c is registered on e.  Keeps: no registration is lost.  Settles: and
\* a marker that may be put on e is registered there.  Releases: no registration
\* is lost but that of c on e.
At(w, c, e) == c \in DOMAIN w.singletons /\ w.singletons[c] = e
Keeps(w, n) == \A d \in Singletons : \A f : At(w, d, f) => At(n, d, f)
Settles(w, n, c, e) == Keeps(w, n) /\ (c \in Singletons /\ ~Misplaced(w, c, e) => At(n, c, e))
Releases(w, n, c, e) ==
    \A d \in Singletons : \A f : ~(d = c /\ f = e) /\ At(w, d, f) => At(n, d, f)

\* n is the world w with the entry new of type c on e.
Put(w, n, c, e, new) ==
    /\ Total(n, Fields)
    /\ n.entries = [w.entries EXCEPT ![c] = Stored(w.entries[c], e, new)]
    /\ n.presence = PresenceSet(w, c, e)
    /\ n.index = (w.index \ UNION {Keyed(c, p.fingerprint, e) : p \in Old(w, c, e)})
                   \cup Keyed(c, new.fingerprint, e)
    /\ n.owned = (w.owned \ {<<p.owner, c, e>> : p \in {q \in Old(w, c, e) : q.owner # new.owner}})
                   \cup (IF new.owner = None THEN {} ELSE {<<new.owner, c, e>>})
    /\ n.watermark = [w.watermark EXCEPT ![c] = Max({w.watermark[c], new.revision})]
    /\ \/ Has(w, c, e) /\ new.revision = Entry(w, c, e).revision /\ n.revision = w.revision
       \/ new.revision = w.revision + 1 /\ n.revision = w.revision + 1
    /\ n.pending = w.pending /\ DOMAIN new = Columns
    /\ Settles(w, n, c, e)

\* InsertEntry puts one entry, with the value and the owner it was given.
LEMMA InsertEntryPuts ==
  ASSUME NEW w, NEW e, NEW c \in Components, NEW v, NEW o, IsWorld(w)
  PROVE  \E new : /\ Put(w, InsertEntry(w, e, c, v, o), c, e, new)
                  /\ new.value = v /\ new.owner = o
<1> DEFINE old == Old(w, c, e)
           fp == Fingerprint(c, v)
           same == \E p \in old : p.fingerprint # None /\ p.fingerprint = fp
           kept == same /\ c \in Tracked
           rev == IF kept THEN Entry(w, c, e).revision ELSE w.revision + 1
           new == [value |-> v, revision |-> rev, fingerprint |-> fp, owner |-> o]
           n == InsertEntry(w, e, c, v, o)
           lg == Append(w.log, <<c, e>>)
           rv == IF kept THEN w.revision ELSE rev
           mu == IF same THEN w.mutations ELSE w.mutations + 1
           wm == [w.watermark EXCEPT ![c] = Max({w.watermark[c], rev})]
           pr == PresenceSet(w, c, e)
           en == [w.entries EXCEPT ![c] = Stored(w.entries[c], e, new)]
           ix == (w.index \ UNION {Keyed(c, p.fingerprint, e) : p \in old}) \cup Keyed(c, fp, e)
           ow == (w.owned \ {<<p.owner, c, e>> : p \in {q \in old : q.owner # o}})
                   \cup (IF o = None THEN {} ELSE {<<o, c, e>>})
           sg == IF c \in Singletons \ DOMAIN w.singletons
                 THEN Stored(w.singletons, c, e) ELSE w.singletons
<1>1. n = [w EXCEPT !.log = lg, !.revision = rv, !.mutations = mu, !.watermark = wm,
                    !.presence = pr, !.entries = en, !.index = ix, !.owned = ow,
                    !.singletons = sg]
  BY Zenon DEF InsertEntry
<1>2. w = [f \in Fields |-> w[f]]
  BY DEF IsWorld, Total
<1>3. \/ Has(w, c, e) /\ rev = Entry(w, c, e).revision /\ rv = w.revision
      \/ rev = w.revision + 1 /\ rv = w.revision + 1
  BY DEF Old
<1>4. /\ new.value = v /\ new.revision = rev /\ new.fingerprint = fp /\ new.owner = o
      /\ DOMAIN new = Columns
  BY DEF Columns
<1> HIDE DEF n, lg, rv, mu, wm, pr, en, ix, ow, sg, new, rev, fp, old
<1>5. /\ n = [f \in Fields |-> n[f]]
      /\ n.entries = en /\ n.revision = rv /\ n.watermark = wm /\ n.presence = pr
      /\ n.index = ix /\ n.owned = ow /\ n.pending = w.pending /\ n.singletons = sg
  BY <1>1, <1>2 DEF Fields
<1>6. Settles(w, n, c, e)
  BY <1>5 DEF Settles, Keeps, At, Misplaced, Stored, sg
<1>7. Put(w, n, c, e, new)
  BY <1>3, <1>4, <1>5, <1>6, Zenon DEF Put, Total, wm, pr, en, ix, ow, old
<1> QED BY <1>4, <1>7 DEF n

\* The outputs that live entries name, each with its owner.
Live(w) ==
    {out \in UNION {{<<Entry(w, c, e).owner, c, e>> : e \in DOMAIN w.entries[c]} :
                       c \in Components} : out[1] # None}

\* An owner whose outputs were taken off the index is owed them: the index names
\* live outputs only, and misses none but those in taken.
OwnersOwed(w, taken) == w.owned \subseteq Live(w) /\ Live(w) \ taken \subseteq w.owned

\* What Facts checks as one invariant, without the inverses of relationships.
Indexed(w) == FingerprintsExact(w) /\ PresenceExact(w) /\ RevisionsBounded(w)
Exact(w, taken) == OwnersOwed(w, taken) /\ Indexed(w)

\* The derived outputs of a world are the owned entries of its stores.
LEMMA LiveMembers ==
  ASSUME NEW w, NEW x
  PROVE  x \in Live(w) <=>
           \E d \in Components : \E f \in DOMAIN w.entries[d] :
              x = <<w.entries[d][f].owner, d, f>> /\ w.entries[d][f].owner # None
  BY DEF Live, Entry

\* The fingerprint index is exact when each record stands for an entry and
\* each entry has its records.
LEMMA KeyMembers ==
  ASSUME NEW w
  PROVE  FingerprintsExact(w) <=>
           /\ \A x \in w.index : \E d \in Components : \E f \in DOMAIN w.entries[d] :
                 x \in Keyed(d, w.entries[d][f].fingerprint, f)
           /\ \A d \in Components : \A f \in DOMAIN w.entries[d] :
                 Keyed(d, w.entries[d][f].fingerprint, f) \subseteq w.index
<1> DEFINE all == UNION {UNION {Keyed(c, Entry(w, c, e).fingerprint, e) : e \in DOMAIN w.entries[c]} :
                        c \in Components}
<1>1. \A x : x \in all <=> \E d \in Components : \E f \in DOMAIN w.entries[d] :
                 x \in Keyed(d, w.entries[d][f].fingerprint, f)
  BY DEF Entry
<1>2. FingerprintsExact(w) <=> \A x : x \in w.index <=> x \in all
  BY DEF FingerprintsExact
<1> HIDE DEF all
<1> QED BY <1>1, <1>2

\* The presence index is exact when each record stands for an entry and each
\* entry has its record.
LEMMA PresenceMembers ==
  ASSUME NEW w
  PROVE  PresenceExact(w) <=>
           /\ \A x \in w.presence : \E d \in Universe : \E f \in DOMAIN w.entries[d] : x = <<d, f>>
           /\ \A d \in Universe : \A f \in DOMAIN w.entries[d] : <<d, f>> \in w.presence
<1> DEFINE all == UNION {{<<c, e>> : e \in DOMAIN w.entries[c]} : c \in Universe}
<1>1. \A x : x \in all <=> \E d \in Universe : \E f \in DOMAIN w.entries[d] : x = <<d, f>>
  OBVIOUS
<1>2. PresenceExact(w) <=> \A x : x \in w.presence <=> x \in all
  BY DEF PresenceExact
<1> HIDE DEF all
<1> QED BY <1>1, <1>2

\* The stores of n are tables, and every entry but the one of type c on e is
\* where w has it.
Elsewhere(w, n, c, e) ==
    /\ Total(n.entries, Components)
    /\ \A d \in Components : Total(n.entries[d], DOMAIN n.entries[d])
    /\ \A d \in Components : \A f : ~(d = c /\ f = e) =>
         /\ f \in DOMAIN n.entries[d] <=> f \in DOMAIN w.entries[d]
         /\ f \in DOMAIN n.entries[d] => n.entries[d][f] = w.entries[d][f]

\* The stores after an entry was written.
LEMMA StoresAfterPut ==
  ASSUME NEW w, NEW n, NEW c \in Components, NEW e, NEW new, IsWorld(w), Put(w, n, c, e, new)
  PROVE  /\ Elsewhere(w, n, c, e)
         /\ e \in DOMAIN n.entries[c] /\ n.entries[c][e] = new
<1> DEFINE st == Stored(w.entries[c], e, new)
<1>1. st = [x \in DOMAIN w.entries[c] \cup {e} |-> IF x = e THEN new ELSE w.entries[c][x]]
  BY DEF Stored
<1>2. DOMAIN w.entries = Components
  BY DEF IsWorld, Total
<1> HIDE DEF st
<1>3. /\ DOMAIN st = DOMAIN w.entries[c] \cup {e} /\ Total(st, DOMAIN st)
      /\ \A f \in DOMAIN st : st[f] = IF f = e THEN new ELSE w.entries[c][f]
  BY <1>1 DEF Total
<1>4. /\ DOMAIN n.entries = Components /\ n.entries[c] = st
      /\ \A d \in Components : d # c => n.entries[d] = w.entries[d]
  BY <1>2 DEF st, Put
<1>5. Total(n.entries, Components)
  BY <1>2 DEF Total, Put
<1> QED BY <1>3, <1>4, <1>5 DEF IsWorld, Elsewhere

-----------------------------------------------------------------------------
(* Writing an entry *)

\* A put keeps the indexes: the entry's old owner and fingerprint leave them with
\* the entry, the new ones arrive.  Outputs that were taken off the ownership
\* index before may still be missing from it, no others.
LEMMA PutExact ==
  ASSUME NEW w, NEW n, NEW c \in Components, NEW e, NEW new, NEW taken,
         IsWorld(w), Exact(w, taken), Put(w, n, c, e, new)
  PROVE  IsWorld(n) /\ Exact(n, taken)
<1> DEFINE old == Old(w, c, e)
           rev == new.revision
           o == new.owner
           disowned == {<<p.owner, c, e>> : p \in {q \in old : q.owner # o}}
<1>f. /\ Total(n, Fields)
      /\ n.watermark = [w.watermark EXCEPT ![c] = Max({w.watermark[c], rev})]
      /\ n.presence = PresenceSet(w, c, e)
      /\ n.index = (w.index \ UNION {Keyed(c, p.fingerprint, e) : p \in old})
                     \cup Keyed(c, new.fingerprint, e)
      /\ n.owned = (w.owned \ disowned) \cup (IF o = None THEN {} ELSE {<<o, c, e>>})
  BY Zenon DEF Put
<1>o. old = IF e \in DOMAIN w.entries[c] THEN {w.entries[c][e]} ELSE {}
  BY DEF Old, Has, Entry
<1>r. /\ rev \in Nat /\ n.revision \in Nat
      /\ \/ e \in DOMAIN w.entries[c] /\ rev = w.entries[c][e].revision /\ n.revision = w.revision
         \/ rev = w.revision + 1 /\ n.revision = w.revision + 1
  BY DEF Put, IsWorld, Entry, Has
<1> HIDE DEF old, rev, o
<1>s. /\ Total(n.entries, Components)
      /\ \A d \in Components : Total(n.entries[d], DOMAIN n.entries[d])
      /\ \A d \in Components : \A f : ~(d = c /\ f = e) =>
           /\ f \in DOMAIN n.entries[d] <=> f \in DOMAIN w.entries[d]
           /\ f \in DOMAIN n.entries[d] => n.entries[d][f] = w.entries[d][f]
      /\ e \in DOMAIN n.entries[c] /\ n.entries[c][e] = new
  BY StoresAfterPut DEF Elsewhere
<1>m. Max({w.watermark[c], rev}) \in Nat /\ w.watermark[c] <= Max({w.watermark[c], rev})
      /\ rev <= Max({w.watermark[c], rev}) /\ Max({w.watermark[c], rev}) \in {w.watermark[c], rev}
  BY <1>r, MaxOfTwo DEF IsWorld
<1>t. /\ \A d \in Components : n.watermark[d] =
           IF d = c THEN Max({w.watermark[c], rev}) ELSE w.watermark[d]
      /\ n.watermark \in [Components -> Nat]
  BY <1>f, <1>m DEF IsWorld
<1>1. IsWorld(n)
  <2>1. \A d \in Components : \A f \in DOMAIN n.entries[d] : n.entries[d][f].revision \in Nat
    <3>1. \A d \in Components : \A f \in DOMAIN w.entries[d] : w.entries[d][f].revision \in Nat
      BY DEF IsWorld
    <3> QED BY <1>s, <1>r, <3>1 DEF rev
  <2>2. \A d \in Components : \A f \in DOMAIN n.entries[d] : DOMAIN n.entries[d][f] = Columns
    BY <1>s DEF IsWorld, Put
  <2> QED BY <1>f, <1>s, <1>t, <1>r, <2>1, <2>2 DEF IsWorld
<1>2. OwnersOwed(n, taken)
  <2>1. ASSUME NEW x PROVE x \in Live(n) <=>
           \/ x \in Live(w) /\ ~(x[2] = c /\ x[3] = e)
           \/ o # None /\ x = <<o, c, e>>
    <3>1. x \in Live(n) <=> \E d \in Components : \E f \in DOMAIN n.entries[d] :
             x = <<n.entries[d][f].owner, d, f>> /\ n.entries[d][f].owner # None
      BY LiveMembers
    <3>2. x \in Live(w) <=> \E d \in Components : \E f \in DOMAIN w.entries[d] :
             x = <<w.entries[d][f].owner, d, f>> /\ w.entries[d][f].owner # None
      BY LiveMembers
    <3> QED BY <3>1, <3>2, <1>s DEF o
  <2>2. ASSUME NEW x \in Live(w), x[2] = c, x[3] = e
        PROVE  /\ e \in DOMAIN w.entries[c] /\ x = <<w.entries[c][e].owner, c, e>>
               /\ w.entries[c][e].owner # None
    <3>1. x \in Live(w) <=> \E d \in Components : \E f \in DOMAIN w.entries[d] :
             x = <<w.entries[d][f].owner, d, f>> /\ w.entries[d][f].owner # None
      BY LiveMembers
    <3> QED BY <2>2, <3>1
  <2>3. disowned = IF e \in DOMAIN w.entries[c] /\ w.entries[c][e].owner # o
                   THEN {<<w.entries[c][e].owner, c, e>>} ELSE {}
    BY <1>o
  <2> HIDE DEF disowned
  <2>4. w.owned \subseteq Live(w) /\ Live(w) \ taken \subseteq w.owned
    BY DEF Exact, Indexed, OwnersOwed
  <2>5. n.owned \subseteq Live(n)
    BY <1>f, <2>1, <2>2, <2>3, <2>4
  <2>6. ASSUME NEW x \in Live(n), x \notin taken PROVE x \in n.owned
    <3>1. CASE o # None /\ x = <<o, c, e>>
      BY <3>1, <1>f
    <3>2. CASE x \in Live(w) /\ ~(x[2] = c /\ x[3] = e)
      BY <3>2, <1>f, <2>3, <2>4, <2>6
    <3> QED BY <3>1, <3>2, <2>1
  <2> QED BY <2>5, <2>6 DEF OwnersOwed
<1>3. FingerprintsExact(n)
  <2>1. /\ \A x \in w.index : \E d \in Components : \E f \in DOMAIN w.entries[d] :
              x \in Keyed(d, w.entries[d][f].fingerprint, f)
        /\ \A d \in Components : \A f \in DOMAIN w.entries[d] :
              Keyed(d, w.entries[d][f].fingerprint, f) \subseteq w.index
    BY KeyMembers DEF Exact, Indexed
  <2>2. \A x : x \in UNION {Keyed(c, p.fingerprint, e) : p \in old} <=>
           e \in DOMAIN w.entries[c] /\ x \in Keyed(c, w.entries[c][e].fingerprint, e)
    BY <1>o
  <2>3. ASSUME NEW x \in n.index
        PROVE  \E d \in Components : \E f \in DOMAIN n.entries[d] :
                  x \in Keyed(d, n.entries[d][f].fingerprint, f)
    <3>1. CASE x \in Keyed(c, new.fingerprint, e)
      BY <3>1, <1>s
    <3>2. CASE x \in w.index /\ x \notin UNION {Keyed(c, p.fingerprint, e) : p \in old}
      BY <3>2, <2>1, <2>2, <1>s
    <3> QED BY <3>1, <3>2, <1>f
  <2>4. ASSUME NEW d \in Components, NEW f \in DOMAIN n.entries[d],
               NEW x \in Keyed(d, n.entries[d][f].fingerprint, f)
        PROVE  x \in n.index
    <3>1. CASE d = c /\ f = e
      BY <3>1, <1>s, <1>f
    <3>2. CASE ~(d = c /\ f = e)
      <4>1. x \in w.index
        BY <3>2, <1>s, <2>1
      <4>2. ASSUME NEW y, x \in Keyed(c, y, e) PROVE FALSE
        BY <4>2, <3>2 DEF Keyed
      <4> QED BY <4>1, <4>2, <2>2, <1>f
    <3> QED BY <3>1, <3>2
  <2> QED BY <2>3, <2>4, KeyMembers
<1>4. PresenceExact(n)
  <2>1. Universe \subseteq Components
    BY WorldAssumption
  <2> QED BY <1>f, <1>s, <2>1, PresenceMembers DEF Exact, Indexed, PresenceSet
<1>5. RevisionsBounded(n)
  <2>1. /\ \A d \in Components : w.watermark[d] <= w.revision /\ w.watermark[d] \in Nat
        /\ \A d \in Components : \A f \in DOMAIN w.entries[d] :
              w.entries[d][f].revision <= w.watermark[d] /\ w.entries[d][f].revision \in Nat
        /\ w.revision \in Nat
    BY DEF Exact, Indexed, RevisionsBounded, Entry, IsWorld
  <2>2. ASSUME NEW d \in Components PROVE n.watermark[d] <= n.revision
    BY <1>t, <1>m, <1>r, <2>1
  <2>3. ASSUME NEW d \in Components, NEW f \in DOMAIN n.entries[d]
        PROVE  n.entries[d][f].revision <= n.watermark[d]
    BY <1>t, <1>m, <1>r, <1>s, <2>1 DEF rev
  <2> QED BY <2>2, <2>3 DEF RevisionsBounded, Entry
<1> QED BY <1>1, <1>2, <1>3, <1>4, <1>5 DEF Exact, Indexed

\* InsertEntry keeps every index exact, whoever owned the entry before.
THEOREM InsertKeepsIndexes ==
  ASSUME NEW w, NEW e, NEW c \in Components, NEW v, NEW o, NEW taken,
         IsWorld(w), Exact(w, taken)
  PROVE  LET n == InsertEntry(w, e, c, v, o) IN IsWorld(n) /\ Exact(n, taken)
  BY InsertEntryPuts, PutExact

-----------------------------------------------------------------------------
(* Removing an entry *)

\* n is the world w without its entry of type c on e, and kept is what is left of
\* the ownership index.
Drop(w, n, c, e, kept) ==
    /\ Total(n, Fields)
    /\ n.entries = [w.entries EXCEPT ![c] = Dropped(w.entries[c], e)]
    /\ n.presence = w.presence \ {<<c, e>>}
    /\ n.index = w.index \ Keyed(c, Entry(w, c, e).fingerprint, e)
    /\ n.owned = kept
    /\ n.watermark = [w.watermark EXCEPT ![c] = w.revision + 1]
    /\ n.revision = w.revision + 1
    /\ n.pending = w.pending /\ Releases(w, n, c, e)

\* Moved and Without drop an entry and leave the ownership index alone.
LEMMA SweepDrops ==
  ASSUME NEW w, NEW e, NEW c \in Components, IsWorld(w)
  PROVE  LET n == Moved(Without(w, c, e), c, e)
         IN  Drop(w, n, c, e, w.owned) /\ n.singletons = w.singletons
<1> DEFINE m == Without(w, c, e)
           n == Moved(m, c, e)
           dr == Dropped(w.entries[c], e)
           ky == Keyed(c, Entry(w, c, e).fingerprint, e)
<1>1. w = [f \in Fields |-> w[f]]
  BY DEF IsWorld, Total
<1>2. m = [w EXCEPT !.entries[c] = dr, !.index = @ \ ky, !.presence = @ \ {<<c, e>>}]
  BY Zenon DEF Without
<1> HIDE DEF m, dr, ky
<1>3. /\ m = [f \in Fields |-> m[f]]
      /\ m.entries = [w.entries EXCEPT ![c] = dr] /\ m.presence = w.presence \ {<<c, e>>}
      /\ m.index = w.index \ ky /\ m.owned = w.owned
      /\ m.watermark = w.watermark /\ m.revision = w.revision /\ m.pending = w.pending
      /\ m.singletons = w.singletons
  BY <1>1, <1>2 DEF Fields
<1>4. /\ n = [f \in Fields |-> n[f]]
      /\ n.entries = m.entries /\ n.presence = m.presence
      /\ n.index = m.index /\ n.owned = m.owned
      /\ n.watermark = [m.watermark EXCEPT ![c] = m.revision + 1]
      /\ n.revision = m.revision + 1 /\ n.pending = m.pending /\ n.singletons = m.singletons
  BY <1>3 DEF Moved, Logged, Fields
<1> HIDE DEF n
<1>5. Releases(w, n, c, e)
  BY <1>3, <1>4 DEF Releases, At
<1>6. Drop(w, n, c, e, w.owned)
  BY <1>3, <1>4, <1>5, Zenon DEF Drop, Total, dr, ky
<1> QED BY <1>3, <1>4, <1>6 DEF n, m

\* The stores after an entry left.
LEMMA StoresAfterDrop ==
  ASSUME NEW w, NEW n, NEW c \in Components, NEW e, NEW kept, IsWorld(w),
         Drop(w, n, c, e, kept)
  PROVE  /\ Elsewhere(w, n, c, e)
         /\ e \notin DOMAIN n.entries[c]
<1> DEFINE st == Dropped(w.entries[c], e)
<1>1. st = [x \in DOMAIN w.entries[c] \ {e} |-> w.entries[c][x]]
  BY DEF Dropped, Restrict
<1>2. DOMAIN w.entries = Components
  BY DEF IsWorld, Total
<1> HIDE DEF st
<1>3. /\ DOMAIN st = DOMAIN w.entries[c] \ {e} /\ Total(st, DOMAIN st)
      /\ \A f \in DOMAIN st : st[f] = w.entries[c][f]
  BY <1>1 DEF Total
<1>4. /\ DOMAIN n.entries = Components /\ n.entries[c] = st
      /\ \A d \in Components : d # c => n.entries[d] = w.entries[d]
  BY <1>2 DEF st, Drop
<1>5. Total(n.entries, Components)
  BY <1>2 DEF Total, Drop
<1> QED BY <1>3, <1>4, <1>5 DEF IsWorld, Elsewhere

\* A drop keeps the indexes of the stores and takes one output out of the world.
LEMMA DropIndexed ==
  ASSUME NEW w, NEW n, NEW c \in Components, NEW e, NEW kept,
         IsWorld(w), Indexed(w), Has(w, c, e), Drop(w, n, c, e, kept)
  PROVE  /\ IsWorld(n) /\ Indexed(n)
         /\ \A x : x \in Live(n) <=> x \in Live(w) /\ x # <<Entry(w, c, e).owner, c, e>>
<1> DEFINE out == <<Entry(w, c, e).owner, c, e>>
           ky == Keyed(c, Entry(w, c, e).fingerprint, e)
<1>f. /\ Total(n, Fields)
      /\ n.watermark = [w.watermark EXCEPT ![c] = w.revision + 1]
      /\ n.revision = w.revision + 1
      /\ n.presence = w.presence \ {<<c, e>>}
      /\ n.index = w.index \ ky
  BY Zenon DEF Drop
<1>h. /\ e \in DOMAIN w.entries[c] /\ out = <<w.entries[c][e].owner, c, e>>
      /\ ky = Keyed(c, w.entries[c][e].fingerprint, e)
  BY DEF Has, Entry
<1> HIDE DEF out, ky
<1>s. /\ Total(n.entries, Components)
      /\ \A d \in Components : Total(n.entries[d], DOMAIN n.entries[d])
      /\ \A d \in Components : \A f : ~(d = c /\ f = e) =>
           /\ f \in DOMAIN n.entries[d] <=> f \in DOMAIN w.entries[d]
           /\ f \in DOMAIN n.entries[d] => n.entries[d][f] = w.entries[d][f]
      /\ e \notin DOMAIN n.entries[c]
  BY StoresAfterDrop DEF Elsewhere
<1>t. /\ \A d \in Components : n.watermark[d] =
           IF d = c THEN w.revision + 1 ELSE w.watermark[d]
      /\ n.watermark \in [Components -> Nat] /\ n.revision \in Nat
  BY <1>f DEF IsWorld
<1>w. /\ \A d \in Components : w.watermark[d] <= w.revision /\ w.watermark[d] \in Nat
      /\ \A d \in Components : \A f \in DOMAIN w.entries[d] :
            w.entries[d][f].revision <= w.watermark[d] /\ w.entries[d][f].revision \in Nat
      /\ w.revision \in Nat
  BY DEF Indexed, RevisionsBounded, Entry, IsWorld
<1>1. IsWorld(n)
  <2>1. \A d \in Components : \A f \in DOMAIN n.entries[d] : n.entries[d][f].revision \in Nat
    BY <1>s, <1>w
  <2>2. \A d \in Components : \A f \in DOMAIN n.entries[d] : DOMAIN n.entries[d][f] = Columns
    BY <1>s DEF IsWorld
  <2> QED BY <1>f, <1>s, <1>t, <2>1, <2>2 DEF IsWorld
<1>2. ASSUME NEW x PROVE x \in Live(n) <=> x \in Live(w) /\ x # out
  <2>1. x \in Live(n) <=> \E d \in Components : \E f \in DOMAIN n.entries[d] :
           x = <<n.entries[d][f].owner, d, f>> /\ n.entries[d][f].owner # None
    BY LiveMembers
  <2>2. x \in Live(w) <=> \E d \in Components : \E f \in DOMAIN w.entries[d] :
           x = <<w.entries[d][f].owner, d, f>> /\ w.entries[d][f].owner # None
    BY LiveMembers
  <2> QED BY <2>1, <2>2, <1>s, <1>h
<1>3. FingerprintsExact(n)
  <2>1. /\ \A x \in w.index : \E d \in Components : \E f \in DOMAIN w.entries[d] :
              x \in Keyed(d, w.entries[d][f].fingerprint, f)
        /\ \A d \in Components : \A f \in DOMAIN w.entries[d] :
              Keyed(d, w.entries[d][f].fingerprint, f) \subseteq w.index
    BY KeyMembers DEF Indexed
  <2>2. ASSUME NEW x \in n.index
        PROVE  \E d \in Components : \E f \in DOMAIN n.entries[d] :
                  x \in Keyed(d, n.entries[d][f].fingerprint, f)
    BY <2>1, <1>f, <1>s, <1>h
  <2>3. ASSUME NEW d \in Components, NEW f \in DOMAIN n.entries[d],
               NEW x \in Keyed(d, n.entries[d][f].fingerprint, f)
        PROVE  x \in n.index
    <3>1. ~(d = c /\ f = e) /\ x \in w.index
      BY <1>s, <2>1
    <3>2. ASSUME NEW y, x \in Keyed(c, y, e) PROVE FALSE
      BY <3>1, <3>2 DEF Keyed
    <3> QED BY <3>1, <3>2, <1>f, <1>h
  <2> QED BY <2>2, <2>3, KeyMembers
<1>4. PresenceExact(n)
  <2>1. Universe \subseteq Components
    BY WorldAssumption
  <2> QED BY <1>f, <1>s, <2>1, PresenceMembers DEF Indexed
<1>5. RevisionsBounded(n)
  BY <1>f, <1>s, <1>t, <1>w DEF RevisionsBounded, Entry
<1> QED BY <1>1, <1>2, <1>3, <1>4, <1>5 DEF Indexed, out

\* A drop that releases the owner keeps the ownership index, and so does one that
\* does not when the output is off the index: nobody is owed it any more.
LEMMA DropExact ==
  ASSUME NEW w, NEW n, NEW c \in Components, NEW e, NEW taken,
         IsWorld(w), Exact(w, taken), Has(w, c, e),
         Drop(w, n, c, e, w.owned \ {<<Entry(w, c, e).owner, c, e>>})
  PROVE  IsWorld(n) /\ Exact(n, taken \ {<<Entry(w, c, e).owner, c, e>>})
<1> DEFINE out == <<Entry(w, c, e).owner, c, e>>
<1>1. n.owned = w.owned \ {out}
  BY DEF Drop
<1>2. /\ IsWorld(n) /\ Indexed(n)
      /\ \A x : x \in Live(n) <=> x \in Live(w) /\ x # out
  BY DropIndexed DEF Exact
<1> HIDE DEF out
<1>3. OwnersOwed(n, taken \ {out})
  BY <1>1, <1>2 DEF Exact, OwnersOwed
<1> QED BY <1>2, <1>3 DEF Exact, out

\* RemoveEntry drops the entry and releases its owner.
LEMMA RemoveEntryDrops ==
  ASSUME NEW w, NEW e, NEW c \in Components, NEW remover, IsWorld(w), Has(w, c, e)
  PROVE  Drop(w, RemoveEntry(w, c, e, remover), c, e, w.owned \ {<<Entry(w, c, e).owner, c, e>>})
<1> DEFINE o == Entry(w, c, e).owner
           m == Moved(Without(w, c, e), c, e)
           n == RemoveEntry(w, c, e, remover)
           ow == UnindexDerived(w, o, c, e)
           si == IF c \in DOMAIN m.singletons /\ m.singletons[c] = e
                 THEN Dropped(m.singletons, c) ELSE m.singletons
<1>1. Drop(w, m, c, e, w.owned) /\ m.singletons = w.singletons
  BY SweepDrops
<1>2. \E r : n = [m EXCEPT !.owned = ow, !.removedComponentOwners = r, !.singletons = si]
  BY Zenon DEF RemoveEntry
<1>3. ow = w.owned \ {<<o, c, e>>}
  BY DEF UnindexDerived
<1>s. \A d, f : ~(d = c /\ f = e) /\ d \in DOMAIN m.singletons /\ m.singletons[d] = f
               => d \in DOMAIN si /\ si[d] = f
  BY DEF Dropped, Restrict
<1> HIDE DEF m, n, ow, o, si
<1>4. /\ n = [f \in Fields |-> n[f]]
      /\ n.entries = m.entries /\ n.presence = m.presence /\ n.index = m.index
      /\ n.owned = ow /\ n.watermark = m.watermark /\ n.revision = m.revision
      /\ n.pending = m.pending /\ n.singletons = si
  <2>1. m = [f \in Fields |-> m[f]]
    BY <1>1 DEF Drop, Total
  <2> QED BY <1>2, <2>1 DEF Fields
<1>5. Releases(w, n, c, e)
  BY <1>1, <1>4, <1>s DEF Releases, At
<1>6. Drop(w, n, c, e, ow)
  BY <1>1, <1>4, <1>5, Zenon DEF Drop, Total
<1> QED BY <1>3, <1>6 DEF n, o

\* Component removal keeps every index exact, and does so whoever removes.
THEOREM RemoveKeepsIndexes ==
  ASSUME NEW w, NEW e, NEW c \in Components, NEW remover, NEW taken,
         IsWorld(w), Exact(w, taken)
  PROVE  LET n == RemoveEntry(w, c, e, remover) IN IsWorld(n) /\ Exact(n, taken)
<1>1. CASE ~Has(w, c, e)
  BY <1>1 DEF RemoveEntry
<1>2. CASE Has(w, c, e)
  <2> DEFINE n == RemoveEntry(w, c, e, remover)
  <2>1. IsWorld(n) /\ Exact(n, taken \ {<<Entry(w, c, e).owner, c, e>>})
    BY <1>2, RemoveEntryDrops, DropExact
  <2> HIDE DEF n
  <2>2. Exact(n, taken)
    BY <2>1 DEF Exact, Indexed, OwnersOwed
  <2> QED BY <2>1, <2>2 DEF n
<1> QED BY <1>1, <1>2

-----------------------------------------------------------------------------
(* Relationships *)

Edges == DOMAIN InverseOf
Inverses == {InverseOf[c] : c \in Edges}

\* s names t through an edge of type c, and t lists s in its inverse.
Edge(w, c, s, t) == s \in DOMAIN w.entries[c] /\ w.entries[c][s].value = t
Member(w, c, s, t) == s \in Members(w, InverseOf[c], t)
Linked(w) == \A c \in Edges : \A s, t : Edge(w, c, s, t) <=> Member(w, c, s, t)

IsList(s) == \E S : s \in Seq(S)
Finite(w) ==
    /\ IsFiniteSet(w.owned) /\ IsList(w.pending)
    /\ \A c \in Components : IsFiniteSet(DOMAIN w.entries[c])

\* The engine writes the inverses: they have no owner.
Unowned(w) == \A c \in Inverses : \A e \in DOMAIN w.entries[c] : w.entries[c][e].owner = None

\* A singleton marker is only on the entity it is registered on.
Homed(w) == \A c \in Singletons : \A e \in DOMAIN w.entries[c] : At(w, c, e)

\* What every method keeps; Linked is kept by the methods as a whole.
Core(w, taken) == IsWorld(w) /\ Exact(w, taken) /\ Finite(w) /\ Unowned(w) /\ Homed(w)

\* Edge types and inverse types are different types, neither is the anchor type
\* or a singleton marker, and an inverse belongs to one edge type.
LEMMA RelationTypes ==
  /\ Edges \subseteq Components \ {Anchored} /\ Inverses \subseteq Components \ {Anchored}
  /\ Edges \cap Inverses = {}
  /\ \A c, d \in Edges : InverseOf[c] = InverseOf[d] => c = d
  /\ Singletons \subseteq Components \ (Edges \cup Inverses \cup {Anchored})
<1>1. Singletons \cap (Edges \cup Inverses \cup {Anchored}) = {}
  BY WorldAssumption DEF Edges, Inverses, Range
<1> QED BY <1>1, WorldAssumption DEF Edges, Inverses, IsInjective

\* Only a marker can be misplaced.
LEMMA PlainIsPlaced ==
  ASSUME NEW w, NEW c \in Edges \cup Inverses \cup {Anchored}, NEW e
  PROVE  ~Misplaced(w, c, e)
  BY RelationTypes DEF Misplaced

\* Storing one entry keeps the indexes exact; an entry of an inverse type has
\* no owner.
LEMMA PutCore ==
  ASSUME NEW w, NEW n, NEW c \in Components, NEW e, NEW new, NEW taken,
         Core(w, taken), Put(w, n, c, e, new), c \in Inverses => new.owner = None,
         ~Misplaced(w, c, e)
  PROVE  Core(n, taken)
<1>1. IsWorld(n) /\ Exact(n, taken)
  BY PutExact DEF Core
<1>2. Elsewhere(w, n, c, e) /\ e \in DOMAIN n.entries[c] /\ n.entries[c][e] = new
  BY StoresAfterPut DEF Core
<1>3. Unowned(n)
  BY <1>2, RelationTypes DEF Elsewhere, Core, Unowned
<1>4. IsFiniteSet(n.owned)
  <2>1. n.owned \subseteq w.owned \cup {<<new.owner, c, e>>}
    BY DEF Put
  <2>2. IsFiniteSet(w.owned \cup {<<new.owner, c, e>>})
    BY FS_AddElement DEF Core, Finite
  <2> QED BY <2>1, <2>2, FS_Subset
<1>5. ASSUME NEW d \in Components PROVE IsFiniteSet(DOMAIN n.entries[d])
  <2>1. DOMAIN n.entries[d] \subseteq DOMAIN w.entries[d] \cup {e}
    BY <1>2 DEF Elsewhere
  <2>2. IsFiniteSet(DOMAIN w.entries[d] \cup {e})
    BY FS_AddElement DEF Core, Finite
  <2> QED BY <2>1, <2>2, FS_Subset
<1>6. n.pending = w.pending
  BY DEF Put
<1>7. Homed(n)
  <2> SUFFICES ASSUME NEW d \in Singletons, NEW f \in DOMAIN n.entries[d] PROVE At(n, d, f)
    BY DEF Homed
  <2>1. Settles(w, n, c, e) /\ d \in Components
    BY RelationTypes DEF Put
  <2>2. CASE d = c /\ f = e
    BY <2>1, <2>2 DEF Settles
  <2>3. CASE ~(d = c /\ f = e)
    BY <2>1, <2>3, <1>2 DEF Elsewhere, Settles, Keeps, Core, Homed
  <2> QED BY <2>2, <2>3
<1> QED BY <1>1, <1>3, <1>4, <1>5, <1>6, <1>7 DEF Core, Finite

\* Dropping one entry keeps the lists finite and the inverses unowned.
LEMMA DropFinite ==
  ASSUME NEW w, NEW n, NEW c \in Components, NEW e, NEW kept, kept \subseteq w.owned,
         IsWorld(w), Finite(w), Unowned(w), Drop(w, n, c, e, kept)
  PROVE  Finite(n) /\ Unowned(n)
<1>2. Elsewhere(w, n, c, e) /\ e \notin DOMAIN n.entries[c]
  BY StoresAfterDrop
<1>3. Unowned(n)
  BY <1>2, RelationTypes DEF Elsewhere, Unowned
<1>4. IsFiniteSet(n.owned)
  BY FS_Subset DEF Drop, Finite
<1>5. ASSUME NEW d \in Components PROVE IsFiniteSet(DOMAIN n.entries[d])
  <2>1. DOMAIN n.entries[d] \subseteq DOMAIN w.entries[d]
    BY <1>2 DEF Elsewhere
  <2> QED BY <2>1, FS_Subset DEF Finite
<1>6. n.pending = w.pending
  BY DEF Drop
<1> QED BY <1>3, <1>4, <1>5, <1>6 DEF Finite

\* Dropping one entry, with its ownership record, keeps the indexes exact and
\* settles that output if it was owed.
LEMMA DropCore ==
  ASSUME NEW w, NEW n, NEW c \in Components, NEW e, NEW taken,
         Core(w, taken), Has(w, c, e),
         Drop(w, n, c, e, w.owned \ {<<Entry(w, c, e).owner, c, e>>})
  PROVE  Core(n, taken \ {<<Entry(w, c, e).owner, c, e>>})
<1> DEFINE kept == w.owned \ {<<Entry(w, c, e).owner, c, e>>}
<1>1. IsWorld(n) /\ Exact(n, taken \ {<<Entry(w, c, e).owner, c, e>>})
  BY DropExact DEF Core
<1>2. Drop(w, n, c, e, kept) /\ kept \subseteq w.owned
  OBVIOUS
<1> HIDE DEF kept
<1>3. Finite(n) /\ Unowned(n)
  BY <1>2, DropFinite DEF Core
<1>4. Homed(n)
  <2>1. Elsewhere(w, n, c, e) /\ e \notin DOMAIN n.entries[c] /\ Releases(w, n, c, e)
    BY <1>2, StoresAfterDrop DEF Core, Drop
  <2> QED BY <2>1, RelationTypes DEF Elsewhere, Releases, Core, Homed
<1> QED BY <1>1, <1>3, <1>4 DEF Core

\* Every store but those of the inverses is the same.
SameFacts(w, n) == \A d \in Components \ Inverses : n.entries[d] = w.entries[d]

\* Worlds with the same plain facts have the same edges.
LEMMA SameEdges ==
  ASSUME NEW w, NEW n, SameFacts(w, n)
  PROVE  \A c \in Edges : \A s, t : Edge(n, c, s, t) <=> Edge(w, c, s, t)
  BY RelationTypes DEF SameFacts, Edge

\* Who lists whom after a put on a type that is no inverse.
LEMMA PutFactLinks ==
  ASSUME NEW w, NEW n, NEW c \in Components \ Inverses, NEW e, NEW new, IsWorld(w),
         Put(w, n, c, e, new)
  PROVE  /\ \A d \in Edges : \A s, t : Member(n, d, s, t) <=> Member(w, d, s, t)
         /\ \A d \in Edges : \A s, t : d # c \/ s # e => (Edge(n, d, s, t) <=> Edge(w, d, s, t))
         /\ \A t : Edge(n, c, e, t) <=> new.value = t
<1>1. Elsewhere(w, n, c, e) /\ e \in DOMAIN n.entries[c] /\ n.entries[c][e] = new
  BY StoresAfterPut
<1>2. \A d \in Edges : InverseOf[d] \in Components /\ InverseOf[d] # c /\ d \in Components
  BY RelationTypes DEF Inverses
<1>3. ASSUME NEW d \in Edges, NEW s, NEW t PROVE Member(n, d, s, t) <=> Member(w, d, s, t)
  BY <1>1, <1>2 DEF Elsewhere, Member, Members, Has, Entry
<1>4. ASSUME NEW d \in Edges, NEW s, NEW t, d # c \/ s # e
      PROVE  Edge(n, d, s, t) <=> Edge(w, d, s, t)
  BY <1>1, <1>2, <1>4 DEF Elsewhere, Edge
<1>5. ASSUME NEW t PROVE Edge(n, c, e, t) <=> new.value = t
  BY <1>1 DEF Edge
<1> QED BY <1>3, <1>4, <1>5

\* Who lists whom after a put on an inverse.
LEMMA PutInverseLinks ==
  ASSUME NEW w, NEW n, NEW c \in Edges, NEW e, NEW new, IsWorld(w),
         Put(w, n, InverseOf[c], e, new)
  PROVE  /\ SameFacts(w, n)
         /\ \A d \in Edges : \A s, t : d # c \/ t # e => (Member(n, d, s, t) <=> Member(w, d, s, t))
         /\ \A s : Member(n, c, s, e) <=> s \in new.value
<1> DEFINE i == InverseOf[c]
<1>0. i \in Components /\ i \in Inverses
  BY RelationTypes DEF Inverses
<1>1. Elsewhere(w, n, i, e) /\ e \in DOMAIN n.entries[i] /\ n.entries[i][e] = new
  BY <1>0, StoresAfterPut
<1>2. SameFacts(w, n)
  BY <1>0 DEF Put, IsWorld, Total, SameFacts
<1>3. \A d \in Edges : InverseOf[d] \in Components /\ (d # c => InverseOf[d] # i)
  BY RelationTypes DEF Inverses
<1> HIDE DEF i
<1>4. ASSUME NEW d \in Edges, NEW s, NEW t, d # c \/ t # e
      PROVE  Member(n, d, s, t) <=> Member(w, d, s, t)
  BY <1>1, <1>3, <1>4 DEF Elsewhere, Member, Members, Has, Entry, i
<1>5. ASSUME NEW s PROVE Member(n, c, s, e) <=> s \in new.value
  BY <1>1 DEF Member, Members, Has, Entry, i
<1> QED BY <1>2, <1>4, <1>5

\* Who lists whom after a drop from a type that is no inverse.
LEMMA DropFactLinks ==
  ASSUME NEW w, NEW n, NEW c \in Components \ Inverses, NEW e, NEW kept, IsWorld(w),
         Drop(w, n, c, e, kept)
  PROVE  /\ \A d \in Edges : \A s, t : Member(n, d, s, t) <=> Member(w, d, s, t)
         /\ \A d \in Edges : \A s, t : d # c \/ s # e => (Edge(n, d, s, t) <=> Edge(w, d, s, t))
         /\ \A t : ~Edge(n, c, e, t)
<1>1. Elsewhere(w, n, c, e) /\ e \notin DOMAIN n.entries[c]
  BY StoresAfterDrop
<1>2. \A d \in Edges : InverseOf[d] \in Components /\ InverseOf[d] # c /\ d \in Components
  BY RelationTypes DEF Inverses
<1>3. ASSUME NEW d \in Edges, NEW s, NEW t PROVE Member(n, d, s, t) <=> Member(w, d, s, t)
  BY <1>1, <1>2 DEF Elsewhere, Member, Members, Has, Entry
<1>4. ASSUME NEW d \in Edges, NEW s, NEW t, d # c \/ s # e
      PROVE  Edge(n, d, s, t) <=> Edge(w, d, s, t)
  BY <1>1, <1>2, <1>4 DEF Elsewhere, Edge
<1>5. ASSUME NEW t PROVE ~Edge(n, c, e, t)
  BY <1>1 DEF Edge
<1> QED BY <1>3, <1>4, <1>5

\* Who lists whom after a drop of an inverse.
LEMMA DropInverseLinks ==
  ASSUME NEW w, NEW n, NEW c \in Edges, NEW e, NEW kept, IsWorld(w),
         Drop(w, n, InverseOf[c], e, kept)
  PROVE  /\ SameFacts(w, n)
         /\ \A d \in Edges : \A s, t : d # c \/ t # e => (Member(n, d, s, t) <=> Member(w, d, s, t))
         /\ \A s : ~Member(n, c, s, e)
<1> DEFINE i == InverseOf[c]
<1>0. i \in Components /\ i \in Inverses
  BY RelationTypes DEF Inverses
<1>1. Elsewhere(w, n, i, e) /\ e \notin DOMAIN n.entries[i]
  BY <1>0, StoresAfterDrop
<1>2. SameFacts(w, n)
  BY <1>0 DEF Drop, IsWorld, Total, SameFacts
<1>3. \A d \in Edges : InverseOf[d] \in Components /\ (d # c => InverseOf[d] # i)
  BY RelationTypes DEF Inverses
<1> HIDE DEF i
<1>4. ASSUME NEW d \in Edges, NEW s, NEW t, d # c \/ t # e
      PROVE  Member(n, d, s, t) <=> Member(w, d, s, t)
  BY <1>1, <1>3, <1>4 DEF Elsewhere, Member, Members, Has, Entry, i
<1>5. ASSUME NEW s PROVE ~Member(n, c, s, e)
  BY <1>1 DEF Member, Members, Has, Entry, i
<1> QED BY <1>2, <1>4, <1>5

\* A step of the maintenance: facts stay, the index loses no more than an owner
\* of an inverse, and t's list for the edge type c gains or loses s.
Lists(w, n, c, s, t, listed) ==
    /\ SameFacts(w, n) /\ n.owned \subseteq w.owned
    /\ \A d \in Edges : \A x, y : ~(d = c /\ x = s /\ y = t) =>
          (Member(n, d, x, y) <=> Member(w, d, x, y))
    /\ Member(n, c, s, t) <=> listed

\* insert_entry of an inverse: it changes the list of one target and no fact.
LEMMA OwnerlessPut ==
  ASSUME NEW w, NEW e, NEW c \in Edges, NEW v, NEW taken, Core(w, taken)
  PROVE  LET n == InsertEntry(w, e, InverseOf[c], v, None)
         IN  /\ Core(n, taken) /\ SameFacts(w, n) /\ n.owned \subseteq w.owned
             /\ \A d \in Edges : \A s, t : d # c \/ t # e => (Member(n, d, s, t) <=> Member(w, d, s, t))
             /\ \A s : Member(n, c, s, e) <=> s \in v
<1> DEFINE n == InsertEntry(w, e, InverseOf[c], v, None)
<1>0. InverseOf[c] \in Components
  BY RelationTypes DEF Inverses
<1>1. PICK new : Put(w, n, InverseOf[c], e, new) /\ new.value = v /\ new.owner = None
  BY <1>0, InsertEntryPuts DEF Core
<1> HIDE DEF n
<1>2. Core(n, taken)
  <2>1. ~Misplaced(w, InverseOf[c], e)
    BY PlainIsPlaced DEF Inverses
  <2> QED BY <1>0, <1>1, <2>1, PutCore
<1>3. n.owned \subseteq w.owned
  BY <1>1 DEF Put
<1>4. /\ SameFacts(w, n)
      /\ \A d \in Edges : \A s, t : d # c \/ t # e => (Member(n, d, s, t) <=> Member(w, d, s, t))
      /\ \A s : Member(n, c, s, e) <=> s \in v
  BY <1>1, PutInverseLinks DEF Core
<1> QED BY <1>2, <1>3, <1>4 DEF n

\* AddMember puts the source on the list of the target, and changes no other
\* list.
LEMMA AddMemberLists ==
  ASSUME NEW w, NEW c \in Edges, NEW s, NEW t, NEW taken, Core(w, taken)
  PROVE  LET n == AddMember(w, InverseOf[c], s, t)
         IN  Core(n, taken) /\ Lists(w, n, c, s, t, TRUE)
<1> DEFINE n == AddMember(w, InverseOf[c], s, t)
<1>1. CASE s \in Members(w, InverseOf[c], t)
  <2>1. n = w
    BY <1>1 DEF AddMember
  <2> QED BY <1>1, <2>1 DEF Lists, SameFacts, Member
<1>2. CASE s \notin Members(w, InverseOf[c], t)
  <2> DEFINE v == Members(w, InverseOf[c], t) \cup {s}
  <2>1. n = InsertEntry(w, t, InverseOf[c], v, None)
    BY <1>2 DEF AddMember
  <2>2. \A x : x \in v <=> Member(w, c, x, t) \/ x = s
    BY DEF Member
  <2> HIDE DEF v, n
  <2>3. /\ Core(n, taken) /\ SameFacts(w, n) /\ n.owned \subseteq w.owned
        /\ \A d \in Edges : \A x, y : d # c \/ y # t => (Member(n, d, x, y) <=> Member(w, d, x, y))
        /\ \A x : Member(n, c, x, t) <=> x \in v
    BY <2>1, OwnerlessPut
  <2>4. Lists(w, n, c, s, t, TRUE)
    BY <2>2, <2>3 DEF Lists
  <2> QED BY <2>3, <2>4 DEF n
<1> QED BY <1>1, <1>2

\* RemoveMember takes the source off the list of the target, and changes no
\* other list.
LEMMA RemoveMemberLists ==
  ASSUME NEW w, NEW c \in Edges, NEW s, NEW t, NEW taken, Core(w, taken)
  PROVE  LET n == RemoveMember(w, InverseOf[c], s, t)
         IN  Core(n, taken) /\ Lists(w, n, c, s, t, FALSE)
<1> DEFINE i == InverseOf[c]
           n == RemoveMember(w, i, s, t)
           rest == Members(w, i, t) \ {s}
<1>0. i \in Components /\ i \in Inverses
  BY RelationTypes DEF Inverses
<1>1. CASE s \notin Members(w, i, t)
  <2>1. n = w
    BY <1>1 DEF RemoveMember
  <2> QED BY <1>1, <2>1 DEF Lists, SameFacts, Member
<1>2. CASE s \in Members(w, i, t) /\ rest = {}
  <2>1. n = RemoveEntry(w, i, t, None)
    BY <1>2 DEF RemoveMember
  <2>2. \A x : Member(w, c, x, t) => x = s
    BY <1>2 DEF Member
  <2>3. Has(w, i, t)
    BY <1>2 DEF Members
  <2> DEFINE out == <<Entry(w, i, t).owner, i, t>>
  <2> HIDE DEF i, n, out
  <2>4. Drop(w, n, i, t, w.owned \ {out})
    BY <1>0, <2>1, <2>3, RemoveEntryDrops DEF Core, out
  <2>k. PICK kept : Drop(w, n, i, t, kept)
    BY <2>4
  <2>5. Core(n, taken \ {out})
    BY <1>0, <2>3, <2>4, DropCore DEF out
  <2>6. Core(n, taken)
    BY <2>5 DEF Core, Exact, OwnersOwed
  <2>7. n.owned \subseteq w.owned
    BY <2>4 DEF Drop
  <2>8. /\ SameFacts(w, n)
        /\ \A d \in Edges : \A x, y : d # c \/ y # t => (Member(n, d, x, y) <=> Member(w, d, x, y))
        /\ \A x : ~Member(n, c, x, t)
    BY <2>k, DropInverseLinks DEF Core, i
  <2>9. Lists(w, n, c, s, t, FALSE)
    BY <2>2, <2>7, <2>8 DEF Lists
  <2> QED BY <2>6, <2>9 DEF n, i
<1>3. CASE s \in Members(w, i, t) /\ rest # {}
  <2>1. n = InsertEntry(w, t, i, rest, None)
    BY <1>3 DEF RemoveMember
  <2>2. \A x : x \in rest <=> Member(w, c, x, t) /\ x # s
    BY DEF Member
  <2> HIDE DEF n, rest
  <2>3. /\ Core(n, taken) /\ SameFacts(w, n) /\ n.owned \subseteq w.owned
        /\ \A d \in Edges : \A x, y : d # c \/ y # t => (Member(n, d, x, y) <=> Member(w, d, x, y))
        /\ \A x : Member(n, c, x, t) <=> x \in rest
    BY <2>1, OwnerlessPut
  <2>4. Lists(w, n, c, s, t, FALSE)
    BY <2>2, <2>3 DEF Lists
  <2> QED BY <2>3, <2>4 DEF n, i
<1> QED BY <1>1, <1>2, <1>3

-----------------------------------------------------------------------------
(* Folds over sets: AnyOf is the choice FoldSet makes *)

AnyOf(S) == CHOOSE x \in S : TRUE

\* The element a fold over a set takes next is one of the set.
LEMMA AnyOfMember ==
  ASSUME NEW S
  PROVE  \A s \in SUBSET S : s # {} => AnyOf(s) \in s
  BY DEF AnyOf

\* The maintenance for a set of targets.
ListsAll(w, n, c, s, targets, listed) ==
    /\ SameFacts(w, n) /\ n.owned \subseteq w.owned
    /\ \A d \in Edges : \A x, y : ~(d = c /\ x = s /\ y \in targets) =>
          (Member(n, d, x, y) <=> Member(w, d, x, y))
    /\ \A y \in targets : Member(n, c, s, y) <=> listed

\* One more target maintained.
LEMMA ListsOneMore ==
  ASSUME NEW w, NEW v, NEW n, NEW c \in Edges, NEW s, NEW t, NEW done, NEW listed \in BOOLEAN,
         ListsAll(w, v, c, s, done \ {t}, listed), Lists(v, n, c, s, t, listed), t \in done
  PROVE  ListsAll(w, n, c, s, done, listed)
<1>1. SameFacts(w, n) /\ n.owned \subseteq w.owned
  BY DEF ListsAll, Lists, SameFacts
<1>2. ASSUME NEW d \in Edges, NEW x, NEW y, ~(d = c /\ x = s /\ y \in done)
      PROVE  Member(n, d, x, y) <=> Member(w, d, x, y)
  BY <1>2 DEF ListsAll, Lists
<1>3. ASSUME NEW y \in done PROVE Member(n, c, s, y) <=> listed
  BY DEF ListsAll, Lists
<1> QED BY <1>1, <1>2, <1>3 DEF ListsAll

Unlisted(w, c, e, S) == FoldSet(LAMBDA t, v : RemoveMember(v, InverseOf[c], e, t), w, S)
UnlistStep(p, t, v) == RemoveMember(v, InverseOf[p.c], p.e, t)
UnlistInv(p, v, done) == Core(v, p.taken) /\ ListsAll(p.w, v, p.c, p.e, done, FALSE)
Unlist == INSTANCE FoldFacts WITH op <- UnlistStep, pick <- AnyOf, Inv <- UnlistInv

Listed(w, c, e, S) == FoldSet(LAMBDA t, v : AddMember(v, InverseOf[c], e, t), w, S)
ListStep(p, t, v) == AddMember(v, InverseOf[p.c], p.e, t)
ListInv(p, v, done) == Core(v, p.taken) /\ ListsAll(p.w, v, p.c, p.e, done, TRUE)
List == INSTANCE FoldFacts WITH op <- ListStep, pick <- AnyOf, Inv <- ListInv

\* The fold that takes a source off the lists of its old targets.
LEMMA UnlistAll ==
  ASSUME NEW w, NEW c \in Edges, NEW e, NEW S, IsFiniteSet(S), NEW taken, Core(w, taken)
  PROVE  LET n == Unlisted(w, c, e, S)
         IN  Core(n, taken) /\ ListsAll(w, n, c, e, S, FALSE)
<1> DEFINE p == [w |-> w, c |-> c, e |-> e, taken |-> taken]
           n == Unlisted(w, c, e, S)
<1>0. p.w = w /\ p.c = c /\ p.e = e /\ p.taken = taken
  OBVIOUS
<1>2. n = Unlist!Fold(p, w, S)
  BY SMT DEF Unlisted, FoldSet, MapThenFoldSet, Unlist!Fold, UnlistStep, AnyOf
<1> HIDE DEF n, p
<1>3. UnlistInv(p, w, {})
  BY <1>0 DEF UnlistInv, ListsAll, SameFacts
<1>4. ASSUME NEW v, NEW s \in SUBSET S, s # {}, UnlistInv(p, v, s \ {AnyOf(s)})
      PROVE  UnlistInv(p, UnlistStep(p, AnyOf(s), v), s)
  <2> DEFINE t == AnyOf(s)
             m == UnlistStep(p, t, v)
  <2>1. t \in s
    BY <1>4, AnyOfMember
  <2>2. m = RemoveMember(v, InverseOf[c], e, t)
    BY <1>0 DEF UnlistStep
  <2>3. Core(v, taken) /\ ListsAll(w, v, c, e, s \ {t}, FALSE)
    BY <1>0, <1>4 DEF UnlistInv
  <2> HIDE DEF t, m
  <2>4. Core(m, taken) /\ Lists(v, m, c, e, t, FALSE)
    BY <2>2, <2>3, RemoveMemberLists
  <2>5. ListsAll(w, m, c, e, s, FALSE)
    BY <2>1, <2>3, <2>4, ListsOneMore
  <2> QED BY <2>4, <2>5, <1>0 DEF UnlistInv, m, t
<1>5. UnlistInv(p, n, S)
  <2>1. \A s \in SUBSET S : s # {} => AnyOf(s) \in s
    BY AnyOfMember
  <2> QED BY <1>2, <1>3, <1>4, <2>1, Unlist!FoldInv DEF Unlist!IsFiniteSet, IsFiniteSet
<1> QED BY <1>5, <1>0 DEF UnlistInv, n

\* The fold that puts a source on the lists of its new targets.
LEMMA ListAll ==
  ASSUME NEW w, NEW c \in Edges, NEW e, NEW S, IsFiniteSet(S), NEW taken, Core(w, taken)
  PROVE  LET n == Listed(w, c, e, S)
         IN  Core(n, taken) /\ ListsAll(w, n, c, e, S, TRUE)
<1> DEFINE p == [w |-> w, c |-> c, e |-> e, taken |-> taken]
           n == Listed(w, c, e, S)
<1>0. p.w = w /\ p.c = c /\ p.e = e /\ p.taken = taken
  OBVIOUS
<1>2. n = List!Fold(p, w, S)
  BY SMT DEF Listed, FoldSet, MapThenFoldSet, List!Fold, ListStep, AnyOf
<1> HIDE DEF n, p
<1>3. ListInv(p, w, {})
  BY <1>0 DEF ListInv, ListsAll, SameFacts
<1>4. ASSUME NEW v, NEW s \in SUBSET S, s # {}, ListInv(p, v, s \ {AnyOf(s)})
      PROVE  ListInv(p, ListStep(p, AnyOf(s), v), s)
  <2> DEFINE t == AnyOf(s)
             m == ListStep(p, t, v)
  <2>1. t \in s
    BY <1>4, AnyOfMember
  <2>2. m = AddMember(v, InverseOf[c], e, t)
    BY <1>0 DEF ListStep
  <2>3. Core(v, taken) /\ ListsAll(w, v, c, e, s \ {t}, TRUE)
    BY <1>0, <1>4 DEF ListInv
  <2> HIDE DEF t, m
  <2>4. Core(m, taken) /\ Lists(v, m, c, e, t, TRUE)
    BY <2>2, <2>3, AddMemberLists
  <2>5. ListsAll(w, m, c, e, s, TRUE)
    BY <2>1, <2>3, <2>4, ListsOneMore
  <2> QED BY <2>4, <2>5, <1>0 DEF ListInv, m, t
<1>5. ListInv(p, n, S)
  <2>1. \A s \in SUBSET S : s # {} => AnyOf(s) \in s
    BY AnyOfMember
  <2> QED BY <1>2, <1>3, <1>4, <2>1, List!FoldInv DEF List!IsFiniteSet, IsFiniteSet
<1> QED BY <1>5, <1>0 DEF ListInv, n

\* Retarget moves e's entry in the lists of the edge type c from the targets in
\* before to those in after, whatever else the inverses hold.
Retargeted(w, n, c, e, before, after) ==
    /\ SameFacts(w, n) /\ n.owned \subseteq w.owned
    /\ \A d \in Edges : \A x, y : ~(d = c /\ x = e) => (Member(n, d, x, y) <=> Member(w, d, x, y))
    /\ \A y : Member(n, c, e, y) <=> y \in after \/ (Member(w, c, e, y) /\ y \notin before)

\* retarget: afterwards the source is on the lists of the new targets, off
\* those of the old ones, and no other list has changed.
LEMMA RetargetLists ==
  ASSUME NEW w, NEW c \in Edges, NEW e, NEW before, NEW after, NEW taken, Core(w, taken),
         IsFiniteSet(before), IsFiniteSet(after),
         before = after => \A y \in after : Member(w, c, e, y)
  PROVE  LET n == Retarget(w, c, e, before, after)
         IN  Core(n, taken) /\ Retargeted(w, n, c, e, before, after)
<1> DEFINE n == Retarget(w, c, e, before, after)
<1>1. CASE before = after
  <2>1. n = w
    BY <1>1 DEF Retarget
  <2> QED BY <1>1, <2>1 DEF SameFacts, Retargeted
<1>2. CASE before # after
  <2> DEFINE mid == Unlisted(w, c, e, before)
  <2>1. n = Listed(mid, c, e, after)
    BY <1>2, Zenon DEF Retarget, Listed, Unlisted
  <2>2. Core(mid, taken) /\ ListsAll(w, mid, c, e, before, FALSE)
    BY UnlistAll
  <2> HIDE DEF mid
  <2>3. Core(n, taken) /\ ListsAll(mid, n, c, e, after, TRUE)
    BY <2>1, <2>2, ListAll
  <2> HIDE DEF n
  <2>4. SameFacts(w, n) /\ n.owned \subseteq w.owned
    BY <2>2, <2>3 DEF ListsAll, SameFacts
  <2>5. ASSUME NEW d \in Edges, NEW x, NEW y, ~(d = c /\ x = e)
        PROVE  Member(n, d, x, y) <=> Member(w, d, x, y)
    <3>1. Member(mid, d, x, y) <=> Member(w, d, x, y)
      BY <2>2, <2>5 DEF ListsAll
    <3>2. Member(n, d, x, y) <=> Member(mid, d, x, y)
      BY <2>3, <2>5 DEF ListsAll
    <3> QED BY <3>1, <3>2
  <2>6. ASSUME NEW y
        PROVE  Member(n, c, e, y) <=> y \in after \/ (Member(w, c, e, y) /\ y \notin before)
    <3>1. IF y \in before THEN ~Member(mid, c, e, y)
          ELSE Member(mid, c, e, y) <=> Member(w, c, e, y)
      BY <2>2 DEF ListsAll
    <3>2. IF y \in after THEN Member(n, c, e, y)
          ELSE Member(n, c, e, y) <=> Member(mid, c, e, y)
      BY <2>3 DEF ListsAll
    <3> QED BY <3>1, <3>2
  <2> QED BY <2>3, <2>4, <2>5, <2>6 DEF n, Retargeted
<1> QED BY <1>1, <1>2

-----------------------------------------------------------------------------
(* The methods that write or remove one component *)

\* What a world promises between two commands: the indexes are exact up to the
\* outputs that were taken, and every edge is listed on its target.
Sound(w, taken) == Core(w, taken) /\ Linked(w)

\* The targets of an entry are the ends of its edges.
LEMMA TargetsOfEdge ==
  ASSUME NEW w, NEW c \in Edges, NEW e
  PROVE  IsFiniteSet(Targets(w, c, e)) /\ \A t : t \in Targets(w, c, e) <=> Edge(w, c, e, t)
<1> DEFINE T == Targets(w, c, e)
<1>1. T = IF e \in DOMAIN w.entries[c] THEN {w.entries[c][e].value} ELSE {}
  BY DEF Targets, Old, Has, Entry, Edges
<1>2. IsFiniteSet(T)
  BY <1>1, FS_EmptySet, FS_Singleton
<1>3. \A t : t \in T <=> Edge(w, c, e, t)
  BY <1>1 DEF Edge
<1> QED BY <1>2, <1>3

\* retarget does nothing for a type without a relation.
LEMMA NoTargets ==
  ASSUME NEW w, NEW v, NEW n, NEW c, c \notin Edges, NEW e
  PROVE  /\ Retarget(n, c, e, Targets(w, c, e), Targets(v, c, e)) = n
         /\ Retarget(n, c, e, Targets(w, c, e), {}) = n
  BY DEF Targets, Retarget, Edges

\* A world that differs from w in the entry of type c on e, with its lists
\* brought up to date, is linked.
LEMMA RetargetLinks ==
  ASSUME NEW w, NEW m, NEW c \in Edges, NEW e, NEW after, IsFiniteSet(after),
         NEW taken, NEW left, Sound(w, taken), Core(m, left),
         \A d \in Edges : \A s, t : Member(m, d, s, t) <=> Member(w, d, s, t),
         \A d \in Edges : \A s, t : d # c \/ s # e => (Edge(m, d, s, t) <=> Edge(w, d, s, t)),
         \A t : Edge(m, c, e, t) <=> t \in after
  PROVE  LET n == Retarget(m, c, e, Targets(w, c, e), after)
         IN  Sound(n, left) /\ n.owned \subseteq m.owned
<1> DEFINE before == Targets(w, c, e)
           n == Retarget(m, c, e, before, after)
<1>1. IsFiniteSet(before) /\ \A t : t \in before <=> Edge(w, c, e, t)
  BY TargetsOfEdge
<1> HIDE DEF before
<1>2. \A y : Member(m, c, e, y) <=> y \in before
  BY <1>1 DEF Sound, Linked
<1>3. Core(n, left) /\ Retargeted(m, n, c, e, before, after)
  BY <1>1, <1>2, RetargetLists
<1> HIDE DEF n
<1>4. \A d \in Edges : \A s, t : Edge(n, d, s, t) <=> Edge(m, d, s, t)
  BY <1>3, SameEdges DEF Retargeted
<1>5. ASSUME NEW d \in Edges, NEW s, NEW t PROVE Edge(n, d, s, t) <=> Member(n, d, s, t)
  <2>1. CASE d = c /\ s = e
    BY <2>1, <1>2, <1>3, <1>4 DEF Retargeted
  <2>2. CASE ~(d = c /\ s = e)
    BY <2>2, <1>3, <1>4 DEF Sound, Linked, Retargeted
  <2> QED BY <2>1, <2>2
<1> QED BY <1>3, <1>5 DEF Sound, Linked, n, before, Retargeted

\* n differs from w outside the stores and their indexes only.
Frame(w, n) ==
    /\ Total(n, Fields)
    /\ n.entries = w.entries /\ n.index = w.index /\ n.presence = w.presence
    /\ n.owned = w.owned /\ n.watermark = w.watermark /\ n.revision = w.revision
    /\ IsList(n.pending) /\ Keeps(w, n)

\* A step that touches no store and no index keeps the world sound.
LEMMA FrameSound ==
  ASSUME NEW w, NEW n, NEW taken, Sound(w, taken), Frame(w, n)
  PROVE  Sound(n, taken)
<1>1. IsWorld(n) /\ Finite(n) /\ Unowned(n) /\ Homed(n)
  BY DEF Sound, Core, Frame, IsWorld, Finite, Unowned, Homed, Keeps
<1>2. Live(n) = Live(w)
  BY DEF Live, Entry, Frame
<1>3. OwnersOwed(n, taken)
  BY <1>2 DEF Sound, Core, Frame, Exact, OwnersOwed
<1>4. FingerprintsExact(n)
  BY DEF Sound, Core, Frame, Exact, Indexed, FingerprintsExact, Entry
<1>5. PresenceExact(n)
  BY DEF Sound, Core, Frame, Exact, Indexed, PresenceExact
<1>6. RevisionsBounded(n)
  BY DEF Sound, Core, Frame, Exact, Indexed, RevisionsBounded, Entry
<1>7. Linked(n)
  BY DEF Sound, Frame, Linked, Edge, Member, Members, Has, Entry
<1> QED BY <1>1, <1>3, <1>4, <1>5, <1>6, <1>7 DEF Sound, Core, Exact, Indexed

\* A list with one more element is a list.
LEMMA AppendList ==
  ASSUME NEW s, NEW x, IsList(s)
  PROVE  IsList(Append(s, x))
<1>1. PICK S : s \in Seq(S)
  BY DEF IsList
<1>2. s \in Seq(S \cup {x}) /\ x \in S \cup {x}
  BY <1>1
<1>3. Append(s, x) \in Seq(S \cup {x})
  BY <1>2
<1> QED BY <1>3 DEF IsList

\* A put on a type that is neither an edge nor an inverse.
LEMMA PlainPut ==
  ASSUME NEW w, NEW n, NEW c \in Components \ (Edges \cup Inverses), NEW e, NEW new, NEW taken,
         Sound(w, taken), Put(w, n, c, e, new), ~Misplaced(w, c, e)
  PROVE  Sound(n, taken)
<1>1. Core(n, taken)
  BY PutCore DEF Sound
<1>2. /\ \A d \in Edges : \A s, t : Member(n, d, s, t) <=> Member(w, d, s, t)
      /\ \A d \in Edges : \A s, t : d # c \/ s # e => (Edge(n, d, s, t) <=> Edge(w, d, s, t))
  BY PutFactLinks DEF Sound, Core
<1>3. Linked(n)
  BY <1>2 DEF Sound, Linked
<1> QED BY <1>1, <1>3 DEF Sound

\* World::insert, of a type the engine does not write itself.
LEMMA InsertSound ==
  ASSUME NEW w, NEW e, NEW c \in Components \ Inverses, NEW v, NEW o, NEW taken, Sound(w, taken)
  PROVE  Sound(Insert(w, e, c, v, o), taken)
<1> DEFINE n == Insert(w, e, c, v, o)
           m == InsertEntry(w, e, c, v, o)
<1>1. CASE c = Anchored
  <2> DEFINE x == [at |-> e, anchors |-> v, owner |-> o]
  <2>1. n = [w EXCEPT !.pending = Append(w.pending, x)]
    BY <1>1 DEF Insert
  <2>2. w = [f \in Fields |-> w[f]] /\ IsList(w.pending)
    BY DEF Sound, Core, IsWorld, Total, Finite
  <2> HIDE DEF n, x
  <2>3. IsList(Append(w.pending, x))
    BY <2>2, AppendList
  <2>4. Frame(w, n)
    BY <2>1, <2>2, <2>3 DEF Frame, Fields, Total, Keeps, At
  <2> QED BY <2>4, FrameSound DEF n
<1>m. CASE c # Anchored /\ Misplaced(w, c, e)
  BY <1>m DEF Insert
<1>2. CASE c # Anchored /\ ~Misplaced(w, c, e)
  <2>1. n = Retarget(m, c, e, Targets(w, c, e), Targets(m, c, e))
    BY <1>2 DEF Insert
  <2>2. PICK new : Put(w, m, c, e, new)
    BY InsertEntryPuts DEF Sound, Core
  <2> HIDE DEF m
  <2>3. CASE c \notin Edges
    <3>1. n = m
      BY <2>1, <2>3, NoTargets
    <3>2. Sound(m, taken)
      BY <1>2, <2>2, <2>3, PlainPut
    <3> QED BY <3>1, <3>2
  <2>4. CASE c \in Edges
    <3>1. Core(m, taken)
      BY <1>2, <2>2, PutCore DEF Sound
    <3>2. /\ \A d \in Edges : \A s, t : Member(m, d, s, t) <=> Member(w, d, s, t)
          /\ \A d \in Edges : \A s, t : d # c \/ s # e => (Edge(m, d, s, t) <=> Edge(w, d, s, t))
      BY <2>2, PutFactLinks DEF Sound, Core
    <3> DEFINE after == Targets(m, c, e)
    <3>3. IsFiniteSet(after) /\ \A t : Edge(m, c, e, t) <=> t \in after
      BY <2>4, TargetsOfEdge
    <3> HIDE DEF after
    <3>4. Sound(Retarget(m, c, e, Targets(w, c, e), after), taken)
      BY <2>4, <3>1, <3>2, <3>3, RetargetLinks
    <3> QED BY <2>1, <3>4 DEF after
  <2> QED BY <2>3, <2>4
<1> QED BY <1>1, <1>m, <1>2

\* A drop from a type that is no inverse, and the maintenance after it.
LEMMA DropSound ==
  ASSUME NEW w, NEW m, NEW c \in Components \ Inverses, NEW e, NEW kept, NEW taken, NEW left,
         Sound(w, taken), Drop(w, m, c, e, kept), Core(m, left)
  PROVE  LET n == Retarget(m, c, e, Targets(w, c, e), {})
         IN  Sound(n, left) /\ n.owned \subseteq m.owned
<1>1. /\ \A d \in Edges : \A s, t : Member(m, d, s, t) <=> Member(w, d, s, t)
      /\ \A d \in Edges : \A s, t : d # c \/ s # e => (Edge(m, d, s, t) <=> Edge(w, d, s, t))
      /\ \A t : ~Edge(m, c, e, t)
  BY DropFactLinks DEF Sound, Core
<1>2. CASE c \notin Edges
  <2>1. Retarget(m, c, e, Targets(w, c, e), {}) = m
    BY <1>2, NoTargets
  <2>2. Linked(m)
    BY <1>1, <1>2 DEF Sound, Linked
  <2> QED BY <2>1, <2>2 DEF Sound
<1>3. CASE c \in Edges
  <2> DEFINE after == {}
  <2>1. IsFiniteSet(after) /\ \A t : Edge(m, c, e, t) <=> t \in after
    BY <1>1, FS_EmptySet
  <2> HIDE DEF after
  <2>2. LET n == Retarget(m, c, e, Targets(w, c, e), after)
        IN  Sound(n, left) /\ n.owned \subseteq m.owned
    BY <1>1, <1>3, <2>1, RetargetLinks
  <2> QED BY <2>2 DEF after
<1> QED BY <1>2, <1>3

\* World::remove_component, of a type the engine does not write itself.
LEMMA RemoveComponentSound ==
  ASSUME NEW w, NEW e, NEW c \in Components \ Inverses, NEW remover, NEW taken, Sound(w, taken)
  PROVE  Sound(RemoveComponent(w, c, e, remover), taken)
<1> DEFINE m == RemoveEntry(w, c, e, remover)
           n == Retarget(m, c, e, Targets(w, c, e), {})
           out == <<Entry(w, c, e).owner, c, e>>
<1>0. RemoveComponent(w, c, e, remover) = n
  BY DEF RemoveComponent
<1>1. CASE ~Has(w, c, e)
  <2>1. m = w /\ Targets(w, c, e) = {}
    BY <1>1 DEF RemoveEntry, Targets, Old
  <2>2. n = w
    BY <2>1 DEF Retarget
  <2> QED BY <1>0, <2>2
<1>2. CASE Has(w, c, e)
  <2>1. Drop(w, m, c, e, w.owned \ {out})
    BY <1>2, RemoveEntryDrops DEF Sound, Core
  <2> HIDE DEF m, out
  <2>2. Core(m, taken \ {out})
    BY <1>2, <2>1, DropCore DEF Sound, out
  <2>3. Core(m, taken)
    BY <2>2 DEF Core, Exact, OwnersOwed
  <2> DEFINE kept == w.owned \ {out}
  <2>4. Drop(w, m, c, e, kept)
    BY <2>1
  <2> HIDE DEF kept
  <2>5. Sound(n, taken)
    BY <2>3, <2>4, DropSound
  <2> QED BY <1>0, <2>5
<1> QED BY <1>1, <1>2

\* World::remove_derived_entry, of an output that was taken off the index.
LEMMA SweepSound ==
  ASSUME NEW w, NEW c \in Components, NEW e, NEW o, o # None, NEW taken, Sound(w, taken),
         <<o, c, e>> \notin w.owned
  PROVE  LET n == RemoveDerivedEntry(w, c, e, o)
         IN  Sound(n, taken \ {<<o, c, e>>}) /\ n.owned \subseteq w.owned
<1> DEFINE n == RemoveDerivedEntry(w, c, e, o)
           m == Moved(Without(w, c, e), c, e)
           out == <<o, c, e>>
<1>1. CASE ~(Has(w, c, e) /\ Entry(w, c, e).owner = o)
  <2>1. n = w
    BY <1>1 DEF RemoveDerivedEntry
  <2>2. out \notin Live(w)
    <3>1. out \in Live(w) <=>
           \E d \in Components : \E f \in DOMAIN w.entries[d] :
              out = <<w.entries[d][f].owner, d, f>> /\ w.entries[d][f].owner # None
      BY LiveMembers
    <3> QED BY <3>1, <1>1 DEF Has, Entry
  <2> HIDE DEF out, n
  <2>3. Sound(w, taken \ {out})
    BY <2>2 DEF Sound, Core, Exact, OwnersOwed
  <2> QED BY <2>1, <2>3 DEF out, n
<1>2. CASE Has(w, c, e) /\ Entry(w, c, e).owner = o
  <2>1. n = Retarget(m, c, e, Targets(w, c, e), {})
    BY <1>2 DEF RemoveDerivedEntry
  <2>2. c \notin Inverses
    BY <1>2 DEF Sound, Core, Unowned, Has, Entry
  <2>3. Drop(w, m, c, e, w.owned)
    BY SweepDrops DEF Sound, Core
  <2>4. w.owned = w.owned \ {out} /\ out = <<Entry(w, c, e).owner, c, e>>
    BY <1>2
  <2> HIDE DEF m, out, n
  <2>5. Drop(w, m, c, e, w.owned \ {<<Entry(w, c, e).owner, c, e>>})
    BY <2>3, <2>4
  <2>6. Core(m, taken \ {out})
    BY <1>2, <2>4, <2>5, DropCore DEF Sound
  <2>7. Sound(n, taken \ {out}) /\ n.owned \subseteq m.owned
    BY <2>1, <2>2, <2>3, <2>6, DropSound
  <2>8. m.owned = w.owned
    BY <2>3 DEF Drop
  <2> QED BY <2>7, <2>8 DEF out, n
<1> QED BY <1>1, <1>2

-----------------------------------------------------------------------------
(* Sweeps: the outputs of an owner that are not emitted again *)

IsOutput(x) == \E o, e : \E c \in Components : o # None /\ x = <<o, c, e>>

\* The ownership table of a sound world holds triples of an owner, a type and
\* an entity.
LEMMA OwnedAreOutputs ==
  ASSUME NEW w, NEW taken, Sound(w, taken)
  PROVE  \A x \in w.owned : IsOutput(x)
<1> SUFFICES ASSUME NEW x \in w.owned PROVE IsOutput(x)
  OBVIOUS
<1>1. x \in Live(w)
  BY DEF Sound, Core, Exact, OwnersOwed
<1>2. x \in Live(w) <=>
           \E d \in Components : \E f \in DOMAIN w.entries[d] :
              x = <<w.entries[d][f].owner, d, f>> /\ w.entries[d][f].owner # None
  BY LiveMembers
<1> QED BY <1>1, <1>2 DEF IsOutput

SweepStep(p, x, v) == RemoveDerivedEntry(v, x[2], x[3], x[1])
SweepInv(p, v, done) == Sound(v, p.taken \ done) /\ v.owned \subseteq p.owned
Sweep == INSTANCE FoldFacts WITH op <- SweepStep, pick <- AnyOf, Inv <- SweepInv

\* World::remove_derived_entries: every output that was swept is settled.
LEMMA SweepAll ==
  ASSUME NEW w, NEW outs, NEW taken, Sound(w, taken), IsFiniteSet(outs),
         outs \cap w.owned = {}, \A x \in outs : IsOutput(x)
  PROVE  Sound(RemoveDerivedEntries(w, outs), taken \ outs)
<1> DEFINE p == [taken |-> taken, owned |-> w.owned]
           n == RemoveDerivedEntries(w, outs)
<1>0. p.taken = taken /\ p.owned = w.owned
  OBVIOUS
<1>1. n = Sweep!Fold(p, w, outs)
  BY Zenon DEF RemoveDerivedEntries, FoldSet, MapThenFoldSet, Sweep!Fold, SweepStep,
     AnyOf
<1> HIDE DEF n, p
<1>2. SweepInv(p, w, {})
  <2>1. taken \ {} = taken
    OBVIOUS
  <2> QED BY <1>0, <2>1 DEF SweepInv
<1>3. ASSUME NEW v, NEW s \in SUBSET outs, s # {}, SweepInv(p, v, s \ {AnyOf(s)})
      PROVE  SweepInv(p, SweepStep(p, AnyOf(s), v), s)
  <2> DEFINE x == AnyOf(s)
             m == SweepStep(p, x, v)
             left == taken \ (s \ {x})
  <2>1. x \in s
    BY <1>3, AnyOfMember
  <2>2. m = RemoveDerivedEntry(v, x[2], x[3], x[1])
    BY DEF SweepStep
  <2>3. Sound(v, left) /\ v.owned \subseteq w.owned
    BY <1>0, <1>3 DEF SweepInv
  <2> HIDE DEF x, m, left
  <2>4. PICK o, e : \E c \in Components : o # None /\ x = <<o, c, e>>
    BY <2>1 DEF IsOutput
  <2>5. PICK c \in Components : o # None /\ x = <<o, c, e>>
    BY <2>4
  <2>6. m = RemoveDerivedEntry(v, c, e, o)
    BY <2>2, <2>5
  <2>7. <<o, c, e>> \notin v.owned
    BY <2>1, <2>3, <2>5
  <2>8. Sound(m, left \ {<<o, c, e>>}) /\ m.owned \subseteq v.owned
    BY <2>3, <2>5, <2>6, <2>7, SweepSound
  <2>9. left \ {x} = taken \ s
    BY <2>1 DEF left
  <2> QED BY <2>3, <2>5, <2>8, <2>9, <1>0 DEF SweepInv, m, x
<1>4. SweepInv(p, n, outs)
  <2>1. \A s \in SUBSET outs : s # {} => AnyOf(s) \in s
    BY AnyOfMember
  <2> QED BY <1>1, <1>2, <1>3, <2>1, Sweep!FoldInv DEF Sweep!IsFiniteSet, IsFiniteSet
<1> QED BY <1>4, <1>0 DEF SweepInv, n

\* Taking outputs off the index leaves their owners owed exactly those.
LEMMA TakeSound ==
  ASSUME NEW w, NEW n, NEW owners, Sound(w, {}), Total(n, Fields),
         n.owned = w.owned \ OutputsOf(w, owners), n.entries = w.entries, n.index = w.index,
         n.presence = w.presence, n.watermark = w.watermark, n.revision = w.revision,
         n.pending = w.pending, n.singletons = w.singletons
  PROVE  Sound(n, OutputsOf(w, owners))
<1> DEFINE outs == OutputsOf(w, owners)
<1>0. outs \subseteq w.owned
  BY DEF OutputsOf
<1> HIDE DEF outs
<1>1. IsWorld(n) /\ Unowned(n) /\ Homed(n)
  BY DEF Sound, Core, IsWorld, Unowned, Homed, At
<1>f. Finite(n)
  <2>1. IsFiniteSet(n.owned)
    BY FS_Subset DEF Sound, Core, Finite
  <2> QED BY <2>1 DEF Sound, Core, Finite
<1>2. Live(n) = Live(w)
  BY DEF Live, Entry
<1>3. OwnersOwed(n, outs)
  BY <1>0, <1>2 DEF Sound, Core, Exact, OwnersOwed, outs
<1>4. FingerprintsExact(n)
  BY DEF Sound, Core, Exact, Indexed, FingerprintsExact, Entry
<1>5. PresenceExact(n)
  BY DEF Sound, Core, Exact, Indexed, PresenceExact
<1>6. RevisionsBounded(n)
  BY DEF Sound, Core, Exact, Indexed, RevisionsBounded, Entry
<1>7. Linked(n)
  BY DEF Sound, Linked, Edge, Member, Members, Has, Entry
<1> QED
  BY <1>1, <1>f, <1>3, <1>4, <1>5, <1>6, <1>7 DEF Sound, Core, Exact, Indexed, outs

\* World::take_derived_outputs
LEMMA TakeOutputsSound ==
  ASSUME NEW w, NEW owners, Sound(w, {})
  PROVE  Sound(TakeOutputs(w, owners), OutputsOf(w, owners))
<1> DEFINE outs == OutputsOf(w, owners)
           n == TakeOutputs(w, owners)
<1>1. n = [w EXCEPT !.owned = w.owned \ outs]
  BY DEF TakeOutputs
<1>2. w = [f \in Fields |-> w[f]]
  BY DEF Sound, Core, IsWorld, Total
<1> HIDE DEF outs, n
<1>3. /\ Total(n, Fields) /\ n.owned = w.owned \ outs /\ n.entries = w.entries
      /\ n.index = w.index /\ n.presence = w.presence /\ n.watermark = w.watermark
      /\ n.revision = w.revision /\ n.pending = w.pending /\ n.singletons = w.singletons
  BY <1>1, <1>2 DEF Fields, Total
<1> QED BY <1>3, TakeSound DEF outs, n

\* The retirement of owners: their outputs leave the index and the stores.
LEMMA RetireSound ==
  ASSUME NEW w, NEW owners, Sound(w, {})
  PROVE  Sound(Retire(w, owners), {})
<1> DEFINE outs == OutputsOf(w, owners)
           m == TakeOutputs(w, owners)
           sp == Restrict(m.spawns, DOMAIN m.spawns \ owners)
           n == [m EXCEPT !.spawns = sp]
<1>0. Retire(w, owners) = RemoveDerivedEntries(n, outs)
  BY Zenon DEF Retire
<1>1. Sound(m, outs)
  BY TakeOutputsSound
<1>2. m.owned = w.owned \ outs
  <2>1. w = [f \in Fields |-> w[f]]
    BY DEF Sound, Core, IsWorld, Total
  <2> QED BY <2>1 DEF TakeOutputs, Fields
<1>3. outs \subseteq w.owned
  BY DEF OutputsOf
<1> HIDE DEF outs, m, sp
<1>4. m = [f \in Fields |-> m[f]] /\ IsList(m.pending)
  BY <1>1 DEF Sound, Core, IsWorld, Total, Finite
<1>5. n.owned = m.owned /\ Frame(m, n)
  BY <1>4 DEF Frame, Fields, Total, Keeps, At
<1> HIDE DEF n
<1>6. Sound(n, outs)
  BY <1>1, <1>5, FrameSound
<1>7. IsFiniteSet(outs) /\ \A x \in outs : IsOutput(x)
  BY <1>3, FS_Subset, OwnedAreOutputs DEF Sound, Core, Finite
<1>8. outs \cap n.owned = {}
  BY <1>2, <1>5
<1>9. Sound(RemoveDerivedEntries(n, outs), outs \ outs)
  BY <1>6, <1>7, <1>8, SweepAll
<1>10. outs \ outs = {}
  OBVIOUS
<1> QED BY <1>0, <1>9, <1>10

\* World::remove_derived_stale: what a rerun did not emit again is swept, and
\* nobody is owed anything afterwards.
LEMMA StaleSound ==
  ASSUME NEW w, NEW previous, Sound(w, previous), IsFiniteSet(previous),
         \A x \in previous : IsOutput(x)
  PROVE  Sound(RemoveDerivedStale(w, previous), {})
<1> DEFINE stale == previous \ w.owned
<1>1. RemoveDerivedStale(w, previous) = RemoveDerivedEntries(w, stale)
  BY DEF RemoveDerivedStale
<1>2. Sound(w, stale)
  BY DEF Sound, Core, Exact, OwnersOwed
<1>3. IsFiniteSet(stale) /\ (\A x \in stale : IsOutput(x)) /\ stale \cap w.owned = {}
  BY FS_Subset
<1> HIDE DEF stale
<1>4. Sound(RemoveDerivedEntries(w, stale), stale \ stale)
  BY <1>2, <1>3, SweepAll
<1>5. stale \ stale = {}
  OBVIOUS
<1> QED BY <1>1, <1>4, <1>5

-----------------------------------------------------------------------------
(* Removing a whole entity *)

\* The entity e left the stores in types, the ownership index was not told yet.
Bared(w, v, e, types) ==
    /\ IsWorld(v) /\ Indexed(v) /\ Finite(v) /\ Unowned(v) /\ v.owned = w.owned
    /\ v.singletons = w.singletons
    /\ \A d \in Components : \A f :
          /\ f \in DOMAIN v.entries[d] <=> f \in DOMAIN w.entries[d] /\ ~(d \in types /\ f = e)
          /\ f \in DOMAIN v.entries[d] => v.entries[d][f] = w.entries[d][f]

Bare(w, e, types) == FoldSet(LAMBDA c, v : Moved(Without(v, c, e), c, e), w, types)
BareStep(p, c, v) == Moved(Without(v, c, p.e), c, p.e)
BareInv(p, v, done) == Bared(p.w, v, p.e, done)
Baring == INSTANCE FoldFacts WITH op <- BareStep, pick <- AnyOf, Inv <- BareInv

\* One more entry of the removed entity dropped.
LEMMA BaredOneMore ==
  ASSUME NEW w, NEW v, NEW e, NEW c \in Components, NEW done, c \in done, Has(w, c, e),
         Bared(w, v, e, done \ {c})
  PROVE  Bared(w, Moved(Without(v, c, e), c, e), e, done)
<1> DEFINE n == Moved(Without(v, c, e), c, e)
<1>1. Drop(v, n, c, e, v.owned) /\ n.singletons = w.singletons
  BY SweepDrops DEF Bared
<1>2. Has(v, c, e)
  BY DEF Bared, Has
<1> HIDE DEF n
<1>3. IsWorld(n) /\ Indexed(n)
  BY <1>1, <1>2, DropIndexed DEF Bared
<1>4. Finite(n) /\ Unowned(n)
  BY <1>1, DropFinite DEF Bared
<1>5. n.owned = w.owned
  BY <1>1 DEF Drop, Bared
<1>6. Elsewhere(v, n, c, e) /\ e \notin DOMAIN n.entries[c]
  BY <1>1, StoresAfterDrop DEF Bared
<1>7. ASSUME NEW d \in Components, NEW f
      PROVE  /\ f \in DOMAIN n.entries[d] <=> f \in DOMAIN w.entries[d] /\ ~(d \in done /\ f = e)
             /\ f \in DOMAIN n.entries[d] => n.entries[d][f] = w.entries[d][f]
  <2>1. CASE d = c /\ f = e
    BY <2>1, <1>6
  <2>2. CASE ~(d = c /\ f = e)
    BY <2>2, <1>6 DEF Elsewhere, Bared
  <2> QED BY <2>1, <2>2
<1> QED BY <1>1, <1>3, <1>4, <1>5, <1>7 DEF Bared, n

\* The first loop of remove_entity drops every entry of the entity.
LEMMA BareAll ==
  ASSUME NEW w, NEW e, NEW types \in SUBSET Components, IsFiniteSet(types), NEW taken,
         Core(w, taken), \A c \in types : Has(w, c, e)
  PROVE  Bared(w, Bare(w, e, types), e, types)
<1> DEFINE p == [w |-> w, e |-> e]
           n == Bare(w, e, types)
<1>0. p.w = w /\ p.e = e
  OBVIOUS
<1>1. n = Baring!Fold(p, w, types)
  BY SMT DEF Bare, FoldSet, MapThenFoldSet, Baring!Fold, BareStep, AnyOf
<1> HIDE DEF n, p
<1>2. BareInv(p, w, {})
  BY <1>0 DEF BareInv, Bared, Core, Exact
<1>3. ASSUME NEW v, NEW s \in SUBSET types, s # {}, BareInv(p, v, s \ {AnyOf(s)})
      PROVE  BareInv(p, BareStep(p, AnyOf(s), v), s)
  <2> DEFINE c == AnyOf(s)
  <2>1. c \in s
    BY <1>3, AnyOfMember
  <2> HIDE DEF c
  <2>2. Bared(w, Moved(Without(v, c, e), c, e), e, s)
    BY <1>0, <1>3, <2>1, BaredOneMore DEF BareInv, c
  <2> QED BY <1>0, <2>2 DEF BareInv, BareStep, c
<1>4. BareInv(p, n, types)
  <2>1. \A s \in SUBSET types : s # {} => AnyOf(s) \in s
    BY AnyOfMember
  <2> QED BY <1>1, <1>2, <1>3, <2>1, Baring!FoldInv DEF Baring!IsFiniteSet, IsFiniteSet
<1> QED BY <1>0, <1>4 DEF BareInv, n

\* The entity's own edges leave the lists of their targets.
UnlinkStep(p, c, v) == Retarget(v, c, p.e, Targets(p.w, c, p.e), {})
UnlinkInv(p, v, done) ==
    /\ Core(v, p.taken) /\ SameFacts(p.m, v)
    /\ \A d \in Edges : \A x, y :
          Member(v, d, x, y) <=> Member(p.w, d, x, y) /\ y # p.e /\ ~(d \in done /\ x = p.e)
Unlinking == INSTANCE FoldFacts WITH op <- UnlinkStep, pick <- AnyOf, Inv <- UnlinkInv
Unlinked(w, m, e) == FoldSet(LAMBDA c, v : Retarget(v, c, e, Targets(w, c, e), {}), m, Edges)

\* The second loop of remove_entity takes the entity off the lists of the
\* targets its edges had.
LEMMA UnlinkAll ==
  ASSUME NEW w, NEW m, NEW e, NEW taken, Linked(w), Core(m, taken), IsFiniteSet(Edges),
         \A d \in Edges : \A x, y : Member(m, d, x, y) <=> Member(w, d, x, y) /\ y # e
  PROVE  LET n == Unlinked(w, m, e)
         IN  /\ Core(n, taken) /\ SameFacts(m, n)
             /\ \A d \in Edges : \A x, y :
                   Member(n, d, x, y) <=> Member(w, d, x, y) /\ y # e /\ x # e
<1> DEFINE p == [w |-> w, e |-> e, m |-> m, taken |-> taken]
           n == Unlinked(w, m, e)
<1>0. p.w = w /\ p.e = e /\ p.m = m /\ p.taken = taken
  OBVIOUS
<1>1. n = Unlinking!Fold(p, m, Edges)
  BY SMT DEF Unlinked, FoldSet, MapThenFoldSet, Unlinking!Fold, UnlinkStep, AnyOf
<1> HIDE DEF n, p
<1>2. UnlinkInv(p, m, {})
  BY <1>0 DEF UnlinkInv, SameFacts
<1>3. ASSUME NEW v, NEW s \in SUBSET Edges, s # {}, UnlinkInv(p, v, s \ {AnyOf(s)})
      PROVE  UnlinkInv(p, UnlinkStep(p, AnyOf(s), v), s)
  <2> DEFINE c == AnyOf(s)
             before == Targets(w, c, e)
             after == {}
             u == Retarget(v, c, e, before, after)
  <2>1. c \in s /\ c \in Edges
    BY <1>3, AnyOfMember
  <2>2. UnlinkStep(p, c, v) = u
    BY <1>0 DEF UnlinkStep
  <2> HIDE DEF c
  <2>3. IsFiniteSet(before) /\ \A t : t \in before <=> Edge(w, c, e, t)
    BY <2>1, TargetsOfEdge
  <2>4. IsFiniteSet(after) /\ \A y : y \notin after
    BY FS_EmptySet
  <2>5. Core(v, taken) /\ SameFacts(m, v)
        /\ \A d \in Edges : \A x, y :
              Member(v, d, x, y) <=> Member(w, d, x, y) /\ y # e /\ ~(d \in s \ {c} /\ x = e)
    BY <1>0, <1>3 DEF UnlinkInv, c
  <2> HIDE DEF before, after
  <2>6. Core(u, taken) /\ Retargeted(v, u, c, e, before, after)
    <3>1. before = after => \A y \in after : Member(v, c, e, y)
      BY <2>4
    <3> QED BY <3>1, <2>1, <2>3, <2>4, <2>5, RetargetLists
  <2> HIDE DEF u
  <2>7. ASSUME NEW d \in Edges, NEW x, NEW y
        PROVE  Member(u, d, x, y) <=> Member(w, d, x, y) /\ y # e /\ ~(d \in s /\ x = e)
    <3>1. CASE d = c /\ x = e
      BY <3>1, <2>1, <2>3, <2>4, <2>5, <2>6 DEF Linked, Retargeted
    <3>2. CASE ~(d = c /\ x = e)
      BY <3>2, <2>5, <2>6 DEF Retargeted
    <3> QED BY <3>1, <3>2
  <2>8. SameFacts(m, u)
    BY <2>5, <2>6 DEF SameFacts, Retargeted
  <2> QED BY <1>0, <2>2, <2>6, <2>7, <2>8 DEF UnlinkInv, c
<1>4. UnlinkInv(p, n, Edges)
  <2>1. \A s \in SUBSET Edges : s # {} => AnyOf(s) \in s
    BY AnyOfMember
  <2> QED
    BY <1>1, <1>2, <1>3, <2>1, Unlinking!FoldInv DEF Unlinking!IsFiniteSet,
       IsFiniteSet
<1> QED BY <1>0, <1>4 DEF UnlinkInv, n

\* The world once the entity left its stores and the ownership index.
Gone(w, m, e) ==
    /\ \A d \in Edges : \A x, y : Edge(m, d, x, y) <=> Edge(w, d, x, y) /\ x # e
    /\ \A d \in Edges : \A x, y : Member(m, d, x, y) <=> Member(w, d, x, y) /\ y # e

\* After the first loop nobody is on the lists of the removed entity, and its
\* own edges are gone.
LEMMA BaredLinks ==
  ASSUME NEW w, NEW m, NEW e, NEW types, types = {c \in Components : Has(w, c, e)},
         Bared(w, m, e, types)
  PROVE  Gone(w, m, e)
<1>1. \A d \in Components : \A f : f \in DOMAIN m.entries[d] <=> f \in DOMAIN w.entries[d] /\ f # e
  BY DEF Bared, Has
<1>2. \A d \in Components : \A f : f \in DOMAIN m.entries[d] => m.entries[d][f] = w.entries[d][f]
  BY DEF Bared
<1>3. \A d \in Edges : d \in Components /\ InverseOf[d] \in Components
  BY RelationTypes DEF Inverses
<1> QED BY <1>1, <1>2, <1>3 DEF Gone, Edge, Member, Members, Has, Entry

\* The index forgets what the entity's entries owned.
LEMMA DroppedCore ==
  ASSUME NEW w, NEW m, NEW n, NEW e, NEW types, NEW taken, Core(w, taken),
         types = {c \in Components : Has(w, c, e)}, Bared(w, m, e, types),
         Total(n, Fields), n.entries = m.entries, n.index = m.index, n.presence = m.presence,
         n.watermark = m.watermark, n.revision = m.revision, n.pending = m.pending,
         n.owned = {out \in m.owned : ~(out[3] = e /\ out[2] \in types)},
         \A d, f : f # e /\ At(m, d, f) => At(n, d, f)
  PROVE  Core(n, taken) /\ Gone(w, n, e)
<1>1. IsWorld(n) /\ Unowned(n)
  BY DEF Bared, IsWorld, Unowned
<1>2. Finite(n)
  <2>1. IsFiniteSet(n.owned)
    <3>1. IsFiniteSet(m.owned) /\ n.owned \subseteq m.owned
      BY DEF Bared, Finite
    <3> QED BY <3>1, FS_Subset
  <2> QED BY <2>1 DEF Bared, Finite
<1>3. ASSUME NEW x PROVE x \in Live(n) <=> x \in Live(w) /\ x[3] # e
  <2>1. \A d \in Components : \A f : /\ f \in DOMAIN n.entries[d] <=> f \in DOMAIN w.entries[d] /\ f # e
                                     /\ f \in DOMAIN n.entries[d] => n.entries[d][f] = w.entries[d][f]
    BY DEF Bared, Has
  <2>2. x \in Live(n) <=>
           \E d \in Components : \E f \in DOMAIN n.entries[d] :
              x = <<n.entries[d][f].owner, d, f>> /\ n.entries[d][f].owner # None
    BY LiveMembers
  <2>3. x \in Live(w) <=>
           \E d \in Components : \E f \in DOMAIN w.entries[d] :
              x = <<w.entries[d][f].owner, d, f>> /\ w.entries[d][f].owner # None
    BY LiveMembers
  <2> QED BY <2>1, <2>2, <2>3
<1>4. ASSUME NEW x \in w.owned PROVE x \in n.owned <=> x[3] # e
  <2>1. PICK d \in Components : \E f \in DOMAIN w.entries[d] :
           x = <<w.entries[d][f].owner, d, f>> /\ w.entries[d][f].owner # None
    BY LiveMembers DEF Core, Exact, OwnersOwed
  <2>2. x[3] = e => x[2] \in types
    BY <2>1 DEF Has
  <2>3. m.owned = w.owned
    BY DEF Bared
  <2> QED BY <2>2, <2>3
<1>5. OwnersOwed(n, taken)
  <2>1. n.owned \subseteq w.owned
    BY DEF Bared
  <2> QED BY <2>1, <1>3, <1>4 DEF Core, Exact, OwnersOwed
<1>6. FingerprintsExact(n)
  BY DEF Bared, Indexed, FingerprintsExact, Entry
<1>7. PresenceExact(n)
  BY DEF Bared, Indexed, PresenceExact
<1>8. RevisionsBounded(n)
  BY DEF Bared, Indexed, RevisionsBounded, Entry
<1>9. Gone(w, m, e)
  BY BaredLinks
<1>10. Gone(w, n, e)
  BY <1>9 DEF Gone, Edge, Member, Members, Has, Entry
<1>11. Homed(n)
  <2> SUFFICES ASSUME NEW d \in Singletons, NEW f \in DOMAIN n.entries[d] PROVE At(n, d, f)
    BY DEF Homed
  <2>1. f \in DOMAIN w.entries[d] /\ f # e
    BY RelationTypes DEF Bared, Has
  <2>2. At(m, d, f)
    BY <2>1 DEF Core, Homed, Bared, At
  <2> QED BY <2>1, <2>2
<1> QED BY <1>1, <1>2, <1>5, <1>6, <1>7, <1>8, <1>10, <1>11 DEF Core, Exact, Indexed

\* The edges in done were retracted; the lists are those of the final world.
Retracted(w, v, e, done) ==
    /\ \A d \in Edges : \A x, y :
          Edge(v, d, x, y) <=> Edge(w, d, x, y) /\ x # e /\ <<d, x>> \notin done
    /\ \A d \in Edges : \A x, y : Member(v, d, x, y) <=> Edge(w, d, x, y) /\ x # e /\ y # e

\* Removing the edge of one source: the removed entity is no longer its
\* target.
LEMMA RetractOne ==
  ASSUME NEW w, NEW v, NEW e, NEW done, NEW c \in Edges, NEW s, NEW taken, <<c, s>> \in done,
         Core(v, taken), Retracted(w, v, e, done \ {<<c, s>>}), Edge(w, c, s, e)
  PROVE  LET n == RemoveComponent(v, c, s, None)
         IN  Core(n, taken) /\ Retracted(w, n, e, done)
<1> DEFINE m == RemoveEntry(v, c, s, None)
           before == Targets(v, c, s)
           after == {}
           n == Retarget(m, c, s, before, after)
           out == <<Entry(v, c, s).owner, c, s>>
<1>0. RemoveComponent(v, c, s, None) = n /\ c \in Components \ Inverses
  BY RelationTypes DEF RemoveComponent
<1>1. CASE ~Has(v, c, s)
  <2>1. m = v /\ before = {}
    BY <1>1 DEF RemoveEntry, Targets, Old
  <2>2. n = v
    BY <2>1 DEF Retarget
  <2>3. \A y : ~Edge(v, c, s, y)
    BY <1>1 DEF Edge, Has
  <2>4. s = e
    BY <2>3 DEF Retracted
  <2>5. Retracted(w, v, e, done)
    BY <2>4 DEF Retracted
  <2> QED BY <1>0, <2>2, <2>5
<1>2. CASE Has(v, c, s)
  <2>1. Drop(v, m, c, s, v.owned \ {out})
    BY <1>0, <1>2, RemoveEntryDrops DEF Core
  <2> HIDE DEF m, out
  <2>2. Core(m, taken \ {out})
    BY <1>0, <1>2, <2>1, DropCore DEF out
  <2>3. Core(m, taken)
    BY <2>2 DEF Core, Exact, OwnersOwed
  <2> DEFINE kept == v.owned \ {out}
  <2>4. Drop(v, m, c, s, kept)
    BY <2>1
  <2> HIDE DEF kept
  <2>5. /\ \A d \in Edges : \A x, y : Member(m, d, x, y) <=> Member(v, d, x, y)
        /\ \A d \in Edges : \A x, y : d # c \/ x # s => (Edge(m, d, x, y) <=> Edge(v, d, x, y))
        /\ \A y : ~Edge(m, c, s, y)
    BY <1>0, <2>4, DropFactLinks DEF Core
  <2>6. IsFiniteSet(before) /\ \A y : y \in before <=> Edge(v, c, s, y)
    BY TargetsOfEdge
  <2>7. IsFiniteSet(after) /\ \A y : y \notin after
    BY FS_EmptySet
  <2> HIDE DEF before, after
  <2>8. Core(n, taken) /\ Retargeted(m, n, c, s, before, after)
    <3>1. before = after => \A y \in after : Member(m, c, s, y)
      BY <2>7
    <3> QED BY <3>1, <2>3, <2>6, <2>7, RetargetLists
  <2> HIDE DEF n
  <2>9. \A d \in Edges : \A x, y : Edge(n, d, x, y) <=> Edge(m, d, x, y)
    BY <2>8, SameEdges DEF Retargeted
  <2>10. \A y : Edge(v, c, s, y) => y = e
    <3>1. \A y : Edge(v, c, s, y) => Edge(w, c, s, y)
      BY DEF Retracted
    <3>2. \A y : Edge(w, c, s, y) => y = e
      BY DEF Edge
    <3> QED BY <3>1, <3>2
  <2>11. ASSUME NEW d \in Edges, NEW x, NEW y
         PROVE  /\ Edge(n, d, x, y) <=> Edge(w, d, x, y) /\ x # e /\ <<d, x>> \notin done
                /\ Member(n, d, x, y) <=> Edge(w, d, x, y) /\ x # e /\ y # e
    <3>1. CASE d = c /\ x = s
      <4>1. ~Edge(n, c, s, y)
        BY <2>5, <2>9
      <4>2. Member(n, c, s, y) <=> Member(v, c, s, y) /\ y \notin before
        BY <2>5, <2>7, <2>8 DEF Retargeted
      <4>3. y \in before => ~Member(v, c, s, y)
        BY <2>6, <2>10 DEF Retracted
      <4>4. Member(v, c, s, y) <=> Edge(w, c, s, y) /\ s # e /\ y # e
        BY DEF Retracted
      <4> QED BY <3>1, <4>1, <4>2, <4>3, <4>4
    <3>2. CASE ~(d = c /\ x = s)
      <4>1. <<d, x>> # <<c, s>>
        BY <3>2
      <4>2. Edge(n, d, x, y) <=> Edge(v, d, x, y)
        BY <3>2, <2>5, <2>9
      <4>3. Member(n, d, x, y) <=> Member(v, d, x, y)
        BY <3>2, <2>5, <2>8 DEF Retargeted
      <4> QED BY <4>1, <4>2, <4>3 DEF Retracted
    <3> QED BY <3>1, <3>2
  <2>12. Retracted(w, n, e, done)
    BY <2>11 DEF Retracted
  <2> QED BY <1>0, <2>8, <2>12
<1> QED BY <1>1, <1>2

\* The edges that point at the entity are retracted.
RetractStep(p, x, v) == RemoveComponent(v, x[1], x[2], None)
RetractInv(p, v, done) == Core(v, p.taken) /\ Retracted(p.w, v, p.e, done)
Retracting == INSTANCE FoldFacts WITH op <- RetractStep, pick <- AnyOf, Inv <- RetractInv
Withdrawn(m, sources) == FoldSet(LAMBDA x, v : RemoveComponent(v, x[1], x[2], None), m, sources)

\* The last loop of remove_entity removes the edges that pointed at the
\* entity.
LEMMA RetractAll ==
  ASSUME NEW w, NEW m, NEW e, NEW taken, NEW sources, IsFiniteSet(sources),
         \A x \in sources : \E c \in Edges : \E s : x = <<c, s>> /\ Edge(w, c, s, e),
         Core(m, taken), Retracted(w, m, e, {})
  PROVE  LET n == Withdrawn(m, sources)
         IN  Core(n, taken) /\ Retracted(w, n, e, sources)
<1> DEFINE p == [w |-> w, e |-> e, taken |-> taken]
           n == Withdrawn(m, sources)
<1>0. p.w = w /\ p.e = e /\ p.taken = taken
  OBVIOUS
<1>1. n = Retracting!Fold(p, m, sources)
  BY SMT DEF Withdrawn, FoldSet, MapThenFoldSet, Retracting!Fold, RetractStep, AnyOf
<1> HIDE DEF n, p
<1>2. RetractInv(p, m, {})
  BY <1>0 DEF RetractInv
<1>3. ASSUME NEW v, NEW s \in SUBSET sources, s # {}, RetractInv(p, v, s \ {AnyOf(s)})
      PROVE  RetractInv(p, RetractStep(p, AnyOf(s), v), s)
  <2> DEFINE x == AnyOf(s)
  <2>1. x \in s
    BY <1>3, AnyOfMember
  <2>2. Core(v, taken) /\ Retracted(w, v, e, s \ {x})
    BY <1>0, <1>3 DEF RetractInv
  <2>3. RetractStep(p, x, v) = RemoveComponent(v, x[1], x[2], None)
    BY DEF RetractStep
  <2> HIDE DEF x
  <2>4. PICK c \in Edges : \E f : x = <<c, f>> /\ Edge(w, c, f, e)
    BY <2>1
  <2>5. PICK f : x = <<c, f>> /\ Edge(w, c, f, e)
    BY <2>4
  <2>6. RetractStep(p, x, v) = RemoveComponent(v, c, f, None)
    BY <2>3, <2>5
  <2>7. <<c, f>> \in s /\ Retracted(w, v, e, s \ {<<c, f>>})
    BY <2>1, <2>2, <2>5
  <2>8. LET u == RemoveComponent(v, c, f, None) IN Core(u, taken) /\ Retracted(w, u, e, s)
    BY <2>2, <2>5, <2>7, RetractOne
  <2> QED BY <1>0, <2>6, <2>8 DEF RetractInv, x
<1>4. RetractInv(p, n, sources)
  <2>1. \A s \in SUBSET sources : s # {} => AnyOf(s) \in s
    BY AnyOfMember
  <2> QED
    BY <1>1, <1>2, <1>3, <2>1, Retracting!FoldInv DEF Retracting!IsFiniteSet,
       IsFiniteSet
<1> QED BY <1>0, <1>4 DEF RetractInv, n

\* The edges that the inverses of an entity list.
Sources(w, e) == UNION {{<<c, s>> : s \in Members(w, InverseOf[c], e)} : c \in Edges}

\* Who points at an entity is on its lists, and they are finitely many.
LEMMA SourcesOf ==
  ASSUME NEW w, NEW e, NEW taken, Sound(w, taken), IsFiniteSet(Edges)
  PROVE  /\ \A x : x \in Sources(w, e) <=> \E c \in Edges : \E s : x = <<c, s>> /\ Edge(w, c, s, e)
         /\ IsFiniteSet(Sources(w, e))
<1> DEFINE sources == Sources(w, e)
           all == UNION {DOMAIN w.entries[c] : c \in Edges}
<1>1. \A x : x \in sources <=> \E c \in Edges : \E s : x = <<c, s>> /\ Edge(w, c, s, e)
  <2>1. \A d \in Edges : \A x : x \in Members(w, InverseOf[d], e) <=> Edge(w, d, x, e)
    BY DEF Sound, Linked, Member
  <2> QED BY <2>1 DEF Sources
<1>2. IsFiniteSet(all)
  <2> DEFINE doms == {DOMAIN w.entries[c] : c \in Edges}
  <2>1. IsFiniteSet(doms)
    <3> DEFINE f == [c \in Edges |-> DOMAIN w.entries[c]]
    <3>1. f \in Surjection(Edges, doms)
      BY DEF Surjection
    <3> HIDE DEF f, doms
    <3> QED BY <3>1, FS_Surjection
  <2>2. \A D \in doms : IsFiniteSet(D)
    BY RelationTypes DEF Sound, Core, Finite
  <2> HIDE DEF doms
  <2> QED BY <2>1, <2>2, FS_UNION DEF doms
<1>3. sources \subseteq Edges \X all
  BY <1>1 DEF Edge
<1> HIDE DEF all, sources
<1>4. IsFiniteSet(Edges \X all)
  BY <1>2, FS_Product
<1>5. IsFiniteSet(sources)
  BY <1>3, <1>4, FS_Subset
<1> QED BY <1>1, <1>5 DEF sources

\* World::remove_entity: no store, no index and no list knows the entity
\* afterwards, no edge leaves it, and every other fact keeps its place in each.
LEMMA RemoveEntitySound ==
  ASSUME NEW w, NEW e, NEW taken, Sound(w, taken), IsFiniteSet(Components)
  PROVE  /\ Sound(RemoveEntity(w, e), taken)
         /\ \A d \in Edges : \A y : ~Edge(RemoveEntity(w, e), d, e, y)
<1> DEFINE types == {c \in Components : Has(w, c, e)}
           owners == {Entry(w, c, e).owner : c \in types} \ {None}
           bare == Bare(w, e, types)
           ow == {out \in bare.owned : ~(out[3] = e /\ out[2] \in types)}
           si == Restrict(bare.singletons, {c \in DOMAIN bare.singletons : bare.singletons[c] # e})
           re == bare.removedEntities \cup {e}
           ro == bare.removedOwners \cup owners
           dropped == [bare EXCEPT !.owned = ow, !.singletons = si,
                                   !.removedEntities = re, !.removedOwners = ro]
           unlinked == Unlinked(w, dropped, e)
           sources == UNION {{<<c, s>> : s \in Members(w, InverseOf[c], e)} : c \in Edges}
           n == Withdrawn(unlinked, sources)
<1>1. RemoveEntity(w, e) = n
  BY Zenon DEF RemoveEntity, Withdrawn, Unlinked, Bare, Edges
<1>2. IsFiniteSet(types) /\ IsFiniteSet(Edges) /\ types \in SUBSET Components
  BY FS_Subset, RelationTypes
<1>3. Core(w, taken) /\ Linked(w)
  BY DEF Sound
<1> HIDE DEF n
<1>4. Bared(w, bare, e, types)
  BY <1>2, <1>3, BareAll
<1>5. /\ Total(dropped, Fields) /\ dropped.entries = bare.entries /\ dropped.index = bare.index
      /\ dropped.presence = bare.presence /\ dropped.watermark = bare.watermark
      /\ dropped.revision = bare.revision /\ dropped.pending = bare.pending
      /\ dropped.owned = ow /\ dropped.singletons = si
  <2>1. bare = [f \in Fields |-> bare[f]]
    BY <1>4 DEF Bared, IsWorld, Total
  <2> HIDE DEF bare, ow, si, re, ro
  <2> QED BY <2>1 DEF Fields, Total
<1>s. \A d, f : f # e /\ At(bare, d, f) => At(dropped, d, f)
  <2> HIDE DEF dropped, bare
  <2> QED BY <1>5 DEF At, Restrict, si
<1> HIDE DEF dropped, bare
<1>6. Core(dropped, taken) /\ Gone(w, dropped, e)
  BY <1>3, <1>4, <1>5, <1>s, DroppedCore
<1> HIDE DEF types, owners, ow, si, re, ro
<1>7. /\ Core(unlinked, taken) /\ SameFacts(dropped, unlinked)
      /\ \A d \in Edges : \A x, y :
            Member(unlinked, d, x, y) <=> Member(w, d, x, y) /\ y # e /\ x # e
  <2>1. \A d \in Edges : \A x, y : Member(dropped, d, x, y) <=> Member(w, d, x, y) /\ y # e
    BY <1>6 DEF Gone
  <2> QED BY <2>1, <1>2, <1>3, <1>6, UnlinkAll
<1> HIDE DEF unlinked
<1>8. Retracted(w, unlinked, e, {})
  <2>1. \A d \in Edges : \A x, y : Edge(unlinked, d, x, y) <=> Edge(w, d, x, y) /\ x # e
    BY <1>6, <1>7, SameEdges DEF Gone
  <2>2. \A d \in Edges : \A x, y : Member(w, d, x, y) <=> Edge(w, d, x, y)
    BY <1>3 DEF Linked
  <2> QED BY <1>7, <2>1, <2>2 DEF Retracted
<1>9. \A x : x \in sources <=> \E c \in Edges : \E s : x = <<c, s>> /\ Edge(w, c, s, e)
  BY <1>2, SourcesOf DEF Sources
<1>10. IsFiniteSet(sources)
  BY <1>2, SourcesOf DEF Sources
<1> HIDE DEF sources
<1>11. Core(n, taken) /\ Retracted(w, n, e, sources)
  BY <1>7, <1>8, <1>9, <1>10, RetractAll DEF n
<1>12. ASSUME NEW d \in Edges, NEW x, NEW y PROVE Edge(n, d, x, y) <=> Member(n, d, x, y)
  <2>1. Edge(n, d, x, y) <=> Edge(w, d, x, y) /\ x # e /\ <<d, x>> \notin sources
    BY <1>11 DEF Retracted
  <2>2. Member(n, d, x, y) <=> Edge(w, d, x, y) /\ x # e /\ y # e
    BY <1>11 DEF Retracted
  <2>3. <<d, x>> \in sources <=> Edge(w, d, x, e)
    BY <1>9
  <2>4. Edge(w, d, x, y) => (Edge(w, d, x, e) <=> y = e)
    BY DEF Edge
  <2> QED BY <2>1, <2>2, <2>3, <2>4
<1>13. \A d \in Edges : \A y : ~Edge(n, d, e, y)
  BY <1>11 DEF Retracted
<1> QED BY <1>1, <1>11, <1>12, <1>13 DEF Sound, Linked

-----------------------------------------------------------------------------
(* Writes that move no entry *)

\* An entry whose content changes and whose owner does not.
LEMMA AmendSound ==
  ASSUME NEW w, NEW n, NEW c \in Components \ (Edges \cup Inverses), NEW e, NEW new,
         Sound(w, {}), Has(w, c, e), DOMAIN new = Columns, new.owner = Entry(w, c, e).owner,
         Total(n, Fields), n.entries = [w.entries EXCEPT ![c] = Stored(w.entries[c], e, new)],
         n.presence = w.presence, n.owned = w.owned, n.pending = w.pending,
         n.singletons = w.singletons,
         n.index = (w.index \ Keyed(c, Entry(w, c, e).fingerprint, e)) \cup Keyed(c, new.fingerprint, e),
         \/ /\ new.revision = Entry(w, c, e).revision
            /\ n.revision = w.revision /\ n.watermark = w.watermark
         \/ /\ new.revision = w.revision + 1 /\ n.revision = w.revision + 1
            /\ n.watermark = [w.watermark EXCEPT ![c] = w.revision + 1]
  PROVE  Sound(n, {})
<1> DEFINE old == Entry(w, c, e)
<1>0. IsWorld(w) /\ Exact(w, {}) /\ e \in DOMAIN w.entries[c] /\ old = w.entries[c][e]
  BY DEF Sound, Core, Has, Entry
<1>1. Old(w, c, e) = {old}
  BY DEF Old
<1>2. n.presence = PresenceSet(w, c, e)
  <2>1. c \in Universe => <<c, e>> \in w.presence
    BY <1>0, PresenceMembers DEF Exact, Indexed
  <2> QED BY <2>1 DEF PresenceSet
<1>3. n.index = (w.index \ UNION {Keyed(c, p.fingerprint, e) : p \in Old(w, c, e)})
                  \cup Keyed(c, new.fingerprint, e)
  BY <1>1
<1>4. n.owned = (w.owned \ {<<p.owner, c, e>> : p \in {q \in Old(w, c, e) : q.owner # new.owner}})
                  \cup (IF new.owner = None THEN {} ELSE {<<new.owner, c, e>>})
  <2>1. old.owner # None => <<old.owner, c, e>> \in Live(w)
    BY <1>0, LiveMembers
  <2>2. old.owner # None => <<old.owner, c, e>> \in w.owned
    BY <1>0, <2>1 DEF Exact, OwnersOwed
  <2> QED BY <1>1, <2>2
<1>5. /\ w.watermark \in [Components -> Nat] /\ w.revision \in Nat /\ old.revision \in Nat
      /\ w.watermark[c] <= w.revision /\ old.revision <= w.watermark[c]
  BY <1>0 DEF IsWorld, Exact, Indexed, RevisionsBounded, Entry
<1> HIDE DEF old
<1>6. n.watermark = [w.watermark EXCEPT ![c] = Max({w.watermark[c], new.revision})]
  <2>1. new.revision \in Nat
    BY <1>5 DEF old
  <2>2. /\ Max({w.watermark[c], new.revision}) \in Nat
        /\ w.watermark[c] <= Max({w.watermark[c], new.revision})
        /\ new.revision <= Max({w.watermark[c], new.revision})
        /\ Max({w.watermark[c], new.revision}) \in {w.watermark[c], new.revision}
    BY <1>5, <2>1, MaxOfTwo
  <2>3. CASE /\ new.revision = old.revision
             /\ n.revision = w.revision /\ n.watermark = w.watermark
    BY <2>2, <2>3, <1>5
  <2>4. CASE /\ new.revision = w.revision + 1 /\ n.revision = w.revision + 1
             /\ n.watermark = [w.watermark EXCEPT ![c] = w.revision + 1]
    BY <2>2, <2>4, <1>5
  <2> QED BY <2>3, <2>4 DEF old
<1>7. c \in Singletons => At(w, c, e)
  BY <1>0 DEF Sound, Core, Homed
<1>8. Settles(w, n, c, e) /\ ~Misplaced(w, c, e)
  BY <1>7 DEF Settles, Keeps, Misplaced, At
<1>9. Put(w, n, c, e, new)
  BY <1>2, <1>3, <1>4, <1>6, <1>8, Zenon DEF Put
<1> QED BY <1>8, <1>9, PlainPut

\* A write through a guard, of a type no relationship is kept about.  Where the
\* entry left its store meanwhile, the write lands nowhere.
LEMMA WriteInPlaceSound ==
  ASSUME NEW w, NEW c \in Components \ (Edges \cup Inverses), NEW e, NEW x, Sound(w, {})
  PROVE  Sound(WriteInPlace(w, c, e, x), {})
<1> DEFINE old == w.entries[c][e]
           new == [old EXCEPT !.value = x]
           st == [w.entries[c] EXCEPT ![e] = new]
           en == [w.entries EXCEPT ![c] = st]
           n == WriteInPlace(w, c, e, x)
<1>1. n = [w EXCEPT !.entries = en]
  BY DEF WriteInPlace
<1>2. /\ Total(w, Fields) /\ Total(w.entries, Components)
      /\ Total(w.entries[c], DOMAIN w.entries[c])
      /\ e \in DOMAIN w.entries[c] => DOMAIN old = Columns
  BY DEF Sound, Core, IsWorld
<1>3. CASE ~Has(w, c, e)
  <2>1. st = w.entries[c]
    BY <1>2, <1>3 DEF Has, Total
  <2>2. en = w.entries
    BY <1>2, <2>1 DEF Total
  <2>3. n = w
    BY <1>1, <1>2, <2>2 DEF Total, Fields
  <2> QED BY <2>3
<1>4. CASE Has(w, c, e)
  <2>1. /\ DOMAIN new = Columns /\ new.owner = old.owner /\ new.revision = old.revision
        /\ new.fingerprint = old.fingerprint
    BY <1>2, <1>4 DEF Has, Columns
  <2> HIDE DEF new
  <2>2. st = Stored(w.entries[c], e, new)
    BY <1>2, <1>4 DEF Has, Stored, Total
  <2>3. w = [f \in Fields |-> w[f]]
    BY <1>2 DEF Total
  <2> HIDE DEF st, n
  <2>4. en = [w.entries EXCEPT ![c] = Stored(w.entries[c], e, new)]
    BY <2>2
  <2> HIDE DEF en
  <2>5. /\ Total(n, Fields) /\ n.entries = en /\ n.presence = w.presence /\ n.owned = w.owned
        /\ n.pending = w.pending /\ n.index = w.index /\ n.revision = w.revision
        /\ n.watermark = w.watermark /\ n.singletons = w.singletons
    BY <1>1, <2>3 DEF Total, Fields
  <2>6. Keyed(c, old.fingerprint, e) \subseteq w.index
    BY <1>4, KeyMembers DEF Sound, Core, Exact, Indexed, Has
  <2>7. n.index = (w.index \ Keyed(c, old.fingerprint, e)) \cup Keyed(c, new.fingerprint, e)
    BY <2>1, <2>5, <2>6
  <2>8. Entry(w, c, e) = old
    BY DEF Entry
  <2> HIDE DEF old
  <2>9. Sound(n, {})
    BY <1>4, <2>1, <2>4, <2>5, <2>7, <2>8, AmendSound
  <2> QED BY <2>9 DEF n
<1> QED BY <1>3, <1>4

\* Store::reconcile_entry gives a written entry the fingerprint of its value.
LEMMA ReconcileEntrySound ==
  ASSUME NEW w, NEW c \in Components \ (Edges \cup Inverses), NEW e, Sound(w, {})
  PROVE  Sound(ReconcileEntry(w, c, e), {})
<1> DEFINE old == w.entries[c][e]
           after == Fingerprint(c, old.value)
           changed == c \in Tracked /\ (old.fingerprint = None \/ old.fingerprint # after)
           rev == w.revision + 1
           new == [old EXCEPT !.fingerprint = after, !.revision = IF changed THEN rev ELSE @]
           en == [w.entries EXCEPT ![c] = Stored(w.entries[c], e, new)]
           rv == IF changed THEN rev ELSE w.revision
           wm == [w.watermark EXCEPT ![c] = IF changed THEN rev ELSE @]
           ix == (w.index \ Keyed(c, old.fingerprint, e)) \cup Keyed(c, after, e)
           n == ReconcileEntry(w, c, e)
<1>1. CASE ~Has(w, c, e)
  BY <1>1 DEF ReconcileEntry
<1>2. CASE Has(w, c, e)
  <2>0. /\ Total(w, Fields) /\ Total(w.entries, Components)
        /\ Total(w.entries[c], DOMAIN w.entries[c])
        /\ DOMAIN old = Columns /\ w.watermark \in [Components -> Nat]
    BY <1>2 DEF Sound, Core, IsWorld, Has
  <2>1. w = [f \in Fields |-> w[f]]
    BY <2>0 DEF Total
  <2>2. /\ Total(n, Fields) /\ n.entries = en /\ n.presence = w.presence /\ n.owned = w.owned
        /\ n.pending = w.pending /\ n.index = ix /\ n.revision = rv /\ n.watermark = wm
        /\ n.singletons = w.singletons
    <3>0. n = [w EXCEPT !.entries = en, !.revision = rv, !.watermark = wm, !.index = ix]
      BY <1>2 DEF ReconcileEntry, Entry
    <3> HIDE DEF n, en, rv, wm, ix
    <3> QED BY <3>0, <2>1 DEF Total, Fields
  <2>3. /\ DOMAIN new = Columns /\ new.owner = old.owner /\ new.fingerprint = after
        /\ new.revision = IF changed THEN rev ELSE old.revision
    BY <2>0 DEF Columns
  <2> HIDE DEF new
  <2>4. en = [w.entries EXCEPT ![c] = Stored(w.entries[c], e, new)]
    OBVIOUS
  <2>5. Entry(w, c, e) = old
    BY DEF Entry
  <2>6. \/ new.revision = old.revision /\ n.revision = w.revision /\ n.watermark = w.watermark
        \/ /\ new.revision = w.revision + 1 /\ n.revision = w.revision + 1
           /\ n.watermark = [w.watermark EXCEPT ![c] = w.revision + 1]
    BY <2>0, <2>2, <2>3
  <2> HIDE DEF old, after, changed, rev, en, rv, wm, n
  <2>7. n.index = (w.index \ Keyed(c, old.fingerprint, e)) \cup Keyed(c, new.fingerprint, e)
    BY <2>2, <2>3
  <2>8. Sound(n, {})
    BY <1>2, <2>2, <2>3, <2>4, <2>5, <2>6, <2>7, AmendSound
  <2> QED BY <2>8 DEF n
<1> QED BY <1>1, <1>2

\* A row of the log is no index.
LEMMA LoggedSound ==
  ASSUME NEW w, NEW c, NEW e, NEW taken, Sound(w, taken)
  PROVE  Sound(Logged(w, c, e), taken)
<1> DEFINE lg == Append(w.log, <<c, e>>)
           n == [w EXCEPT !.log = lg]
<1>1. Logged(w, c, e) = n
  BY DEF Logged
<1>2. w = [f \in Fields |-> w[f]] /\ IsList(w.pending)
  BY DEF Sound, Core, IsWorld, Total, Finite
<1> HIDE DEF lg
<1>3. Frame(w, n)
  BY <1>2 DEF Frame, Fields, Total, Keeps, At
<1> HIDE DEF n
<1> QED BY <1>1, <1>3, FrameSound

\* Rows a system may write in place: no relationship is kept about their type.
PlainRow(x) == x[1] \in Components \ (Edges \cup Inverses)

WriteStep(p, x, v) == WriteInPlace(v, x[1], x[2], x[3])
SoundInv(p, v, done) == Sound(v, p)
Writing == INSTANCE FoldFacts WITH op <- WriteStep, pick <- AnyOf, Inv <- SoundInv
Written(w, writes) == FoldSet(LAMBDA x, v : WriteInPlace(v, x[1], x[2], x[3]), w, writes)

\* The in-place writes of an invocation to plain types keep the world sound.
LEMMA WrittenSound ==
  ASSUME NEW w, NEW writes, IsFiniteSet(writes), \A x \in writes : PlainRow(x), Sound(w, {})
  PROVE  Sound(Written(w, writes), {})
<1> DEFINE p == {}
           n == Written(w, writes)
<1>1. n = Writing!Fold(p, w, writes)
  BY SMT DEF Written, FoldSet, MapThenFoldSet, Writing!Fold, WriteStep, AnyOf
<1>2. SoundInv(p, w, {})
  BY DEF SoundInv
<1>3. ASSUME NEW v, NEW s \in SUBSET writes, s # {}, SoundInv(p, v, s \ {AnyOf(s)})
      PROVE  SoundInv(p, WriteStep(p, AnyOf(s), v), s)
  <2> DEFINE x == AnyOf(s)
  <2>1. x \in s
    BY <1>3, AnyOfMember
  <2> HIDE DEF x
  <2>2. Sound(WriteInPlace(v, x[1], x[2], x[3]), {})
    BY <1>3, <2>1, WriteInPlaceSound DEF SoundInv, PlainRow
  <2> QED BY <2>2 DEF SoundInv, WriteStep, x
<1> HIDE DEF n, p
<1>4. SoundInv(p, n, writes)
  <2>1. \A s \in SUBSET writes : s # {} => AnyOf(s) \in s
    BY AnyOfMember
  <2> QED
    BY <1>1, <1>2, <1>3, <2>1, Writing!FoldInv DEF Writing!IsFiniteSet, IsFiniteSet
<1> QED BY <1>4 DEF SoundInv, n, p

ReconcileStep(p, x, v) == Logged(ReconcileEntry(v, x[1], x[2]), x[1], x[2])
Reconciling == INSTANCE FoldFacts WITH op <- ReconcileStep, pick <- AnyOf, Inv <- SoundInv

\* World::reconcile_written
LEMMA ReconcileWrittenSound ==
  ASSUME NEW w, NEW writes, IsFiniteSet(writes), \A x \in writes : PlainRow(x), Sound(w, {})
  PROVE  Sound(ReconcileWritten(w, writes), {})
<1> DEFINE p == {}
           n == ReconcileWritten(w, writes)
<1>1. n = Reconciling!Fold(p, w, writes)
  BY SMT DEF ReconcileWritten, FoldSet, MapThenFoldSet, Reconciling!Fold,
     ReconcileStep, AnyOf
<1>2. SoundInv(p, w, {})
  BY DEF SoundInv
<1>3. ASSUME NEW v, NEW s \in SUBSET writes, s # {}, SoundInv(p, v, s \ {AnyOf(s)})
      PROVE  SoundInv(p, ReconcileStep(p, AnyOf(s), v), s)
  <2> DEFINE x == AnyOf(s)
  <2>1. x \in s
    BY <1>3, AnyOfMember
  <2> HIDE DEF x
  <2>2. Sound(ReconcileEntry(v, x[1], x[2]), {})
    BY <1>3, <2>1, ReconcileEntrySound DEF SoundInv, PlainRow
  <2>3. Sound(Logged(ReconcileEntry(v, x[1], x[2]), x[1], x[2]), {})
    BY <2>2, LoggedSound
  <2> QED BY <2>3 DEF SoundInv, ReconcileStep, x
<1> HIDE DEF n, p
<1>4. SoundInv(p, n, writes)
  <2>1. \A s \in SUBSET writes : s # {} => AnyOf(s) \in s
    BY AnyOfMember
  <2> QED
    BY <1>1, <1>2, <1>3, <2>1, Reconciling!FoldInv DEF Reconciling!IsFiniteSet,
       IsFiniteSet
<1> QED BY <1>4 DEF SoundInv, n, p

-----------------------------------------------------------------------------
(* Bookkeeping outside the stores *)

\* register_singleton touches no store.
LEMMA RegisterSound ==
  ASSUME NEW w, NEW c, NEW e, NEW taken, Sound(w, taken)
  PROVE  Sound(RegisterSingleton(w, c, e), taken)
<1> DEFINE si == IF c \in DOMAIN w.singletons THEN w.singletons ELSE Stored(w.singletons, c, e)
           n == [w EXCEPT !.singletons = si]
<1>1. RegisterSingleton(w, c, e) = n
  BY DEF RegisterSingleton
<1>2. w = [f \in Fields |-> w[f]] /\ IsList(w.pending)
  BY DEF Sound, Core, IsWorld, Total, Finite
<1>k. \A d \in DOMAIN w.singletons : d \in DOMAIN si /\ si[d] = w.singletons[d]
  BY DEF Stored
<1> HIDE DEF si
<1>3. Frame(w, n)
  BY <1>2, <1>k DEF Frame, Fields, Total, Keeps, At
<1> HIDE DEF n
<1> QED BY <1>1, <1>3, FrameSound

\* A write to the spawn slots and cursors.
LEMMA SlotsSound ==
  ASSUME NEW w, NEW n, NEW cu, NEW sp, NEW taken, Sound(w, taken),
         n = [w EXCEPT !.cursors = cu, !.spawns = sp]
  PROVE  Sound(n, taken)
<1>1. w = [f \in Fields |-> w[f]] /\ IsList(w.pending)
  BY DEF Sound, Core, IsWorld, Total, Finite
<1>2. Frame(w, n)
  BY <1>1 DEF Frame, Fields, Total, Keeps, At
<1> QED BY <1>2, FrameSound

\* record_derived_spawn touches no store.
LEMMA RecordSound ==
  ASSUME NEW w, NEW o, NEW e, NEW taken, Sound(w, taken)
  PROVE  Sound(RecordDerivedSpawn(w, o, e), taken)
<1> DEFINE slot == IF o \in DOMAIN w.cursors THEN w.cursors[o] ELSE 0
           slots == SpawnSlots(w, o)
           cu == (o :> slot + 1) @@ w.cursors
           sp == (o :> (IF slot < Len(slots) THEN [slots EXCEPT ![slot + 1] = e]
                        ELSE Append(slots, e))) @@ w.spawns
<1>1. w = [f \in Fields |-> w[f]]
  BY DEF Sound, Core, IsWorld, Total
<1>2. RecordDerivedSpawn(w, o, e) = [w EXCEPT !.cursors = cu, !.spawns = sp]
  <2>1. RecordDerivedSpawn(w, o, e) = [w EXCEPT !.cursors = cu,
             !.spawns = (o :> (IF slot < Len(slots) THEN [slots EXCEPT ![slot + 1] = e]
                               ELSE Append(slots, e))) @@ @]
    BY Zenon DEF RecordDerivedSpawn
  <2> QED BY <2>1, Zenon
<1> HIDE DEF cu, sp
<1> QED BY <1>2, SlotsSound, Zenon

\* finish_derived_spawns touches no store.
LEMMA FinishSound ==
  ASSUME NEW w, NEW o, NEW taken, Sound(w, taken)
  PROVE  Sound(FinishDerivedSpawns(w, o), taken)
<1> DEFINE used == IF o \in DOMAIN w.cursors THEN w.cursors[o] ELSE 0
           slots == SpawnSlots(w, o)
           kept == SubSeq(slots, 1, Min({used, Len(slots)}))
           cu == Dropped(w.cursors, o)
           sp == IF kept = <<>> THEN Dropped(w.spawns, o) ELSE (o :> kept) @@ w.spawns
<1>2. FinishDerivedSpawns(w, o) = [w EXCEPT !.cursors = cu, !.spawns = sp]
  BY Zenon DEF FinishDerivedSpawns
<1> HIDE DEF cu, sp
<1> QED BY <1>2, SlotsSound, Zenon

\* Rolling the plan epoch touches no store.
LEMMA RollSound ==
  ASSUME NEW w, NEW limit, NEW taken, Sound(w, taken)
  PROVE  Sound(RollPlanEpoch(w, limit), taken)
<1> DEFINE n == [w EXCEPT !.log = <<>>, !.epoch = w.epoch + 1]
<1>1. w = [f \in Fields |-> w[f]] /\ IsList(w.pending)
  BY DEF Sound, Core, IsWorld, Total, Finite
<1>2. RollPlanEpoch(w, limit) = w \/ RollPlanEpoch(w, limit) = n
  BY <1>1 DEF RollPlanEpoch, Fields
<1>3. Frame(w, n)
  BY <1>1 DEF Frame, Fields, Total, Keeps, At
<1> HIDE DEF n
<1> QED BY <1>2, <1>3, FrameSound

\* Reserving entity ids touches no store.
LEMMA NextIdSound ==
  ASSUME NEW w, NEW id, NEW taken, Sound(w, taken)
  PROVE  Sound([w EXCEPT !.next = id], taken)
<1> DEFINE n == [w EXCEPT !.next = id]
<1>1. w = [f \in Fields |-> w[f]] /\ IsList(w.pending)
  BY DEF Sound, Core, IsWorld, Total, Finite
<1>2. Frame(w, n)
  BY <1>1 DEF Frame, Fields, Total, Keeps, At
<1> HIDE DEF n
<1>3. Sound(n, taken)
  BY <1>2, FrameSound
<1> QED BY <1>3 DEF n

-----------------------------------------------------------------------------
(* Buffers: folds over a sequence take its elements from the first to the last *)

LastOf(S) == Max(S)

\* The positions of a list: finitely many, and a set of them has a last one.
LEMMA Positions ==
  ASSUME NEW s, IsList(s)
  PROVE  /\ IsFiniteSet(DOMAIN s)
         /\ \A S \in SUBSET DOMAIN s : S # {} => LastOf(S) \in S
<1>1. PICK T : s \in Seq(T)
  BY DEF IsList
<1>2. Len(s) \in Nat /\ DOMAIN s = 1 .. Len(s)
  BY <1>1
<1>3. IsFiniteSet(DOMAIN s)
  BY <1>2, FS_Interval
<1>4. ASSUME NEW S \in SUBSET DOMAIN s, S # {} PROVE LastOf(S) \in S
  <2> DEFINE back == {k \in Nat : \E x \in S : k = Len(s) - x}
  <2>1. back \in SUBSET Nat /\ back # {}
    <3>1. PICK x \in S : TRUE
      BY <1>4
    <3>2. Len(s) - x \in Nat
      BY <1>2
    <3>3. Len(s) - x \in back
      BY <3>2
    <3> QED BY <3>3
  <2>2. PICK k \in back : \A y \in back : k <= y
    <3> HIDE DEF back
    <3> QED BY <2>1, Writing!Least
  <2>3. PICK x \in S : k = Len(s) - x
    OBVIOUS
  <2>4. ASSUME NEW y \in S PROVE x >= y
    <3>1. Len(s) - y \in back
      BY <1>2
    <3> QED BY <3>1, <1>2, <2>2, <2>3
  <2>5. \E m \in S : \A y \in S : m >= y
    BY <2>4
  <2> QED BY <2>5 DEF LastOf, Max
<1> QED BY <1>3, <1>4

FlushStep(p, i, v) == InsertEntry(v, p.list[i].at, Anchored, Capture(v, p.list[i].anchors), p.list[i].owner)
FoldSound(p, v, done) == Sound(v, p.taken)
Flushing == INSTANCE FoldFacts WITH op <- FlushStep, pick <- LastOf, Inv <- FoldSound

\* World::flush_derived_from
LEMMA FlushSound ==
  ASSUME NEW w, NEW taken, Sound(w, taken)
  PROVE  Sound(FlushDerivedFrom(w), taken)
<1> DEFINE list == w.pending
           base == [w EXCEPT !.pending = <<>>]
           p == [list |-> list, taken |-> taken]
           n == FlushDerivedFrom(w)
<1>0. p.list = list /\ p.taken = taken
  OBVIOUS
<1>1. n = Flushing!Fold(p, base, DOMAIN list)
  BY SMT DEF FlushDerivedFrom, FoldLeft, MapThenFoldSet, Flushing!Fold, FlushStep,
     LastOf
<1>2. IsList(list) /\ w = [f \in Fields |-> w[f]]
  BY DEF Sound, Core, Finite, IsWorld, Total
<1>3. Sound(base, taken)
  <2>1. IsList(<<>>)
    <3>1. <<>> \in Seq({})
      OBVIOUS
    <3> QED BY <3>1 DEF IsList
  <2>2. Frame(w, base)
    BY <1>2, <2>1 DEF Frame, Fields, Total, Keeps, At
  <2> HIDE DEF base
  <2> QED BY <2>2, FrameSound
<1> HIDE DEF n, p, base, list
<1>4. ASSUME NEW v, NEW s \in SUBSET DOMAIN list, s # {}, FoldSound(p, v, s \ {LastOf(s)})
      PROVE  FoldSound(p, FlushStep(p, LastOf(s), v), s)
  <2> DEFINE x == list[LastOf(s)]
             u == InsertEntry(v, x.at, Anchored, Capture(v, x.anchors), x.owner)
  <2>1. Sound(v, taken) /\ Anchored \in Components \ (Edges \cup Inverses)
    BY <1>0, <1>4, RelationTypes, WorldAssumption DEF FoldSound
  <2>2. PICK new : Put(v, u, Anchored, x.at, new)
    BY <2>1, InsertEntryPuts DEF Sound, Core
  <2>3. FlushStep(p, LastOf(s), v) = u
    BY <1>0 DEF FlushStep
  <2> HIDE DEF u, x
  <2>4. Sound(u, taken)
    BY <2>1, <2>2, PlainIsPlaced, PlainPut
  <2> QED BY <1>0, <2>3, <2>4 DEF FoldSound
<1>5. FoldSound(p, n, DOMAIN list)
  <2>1. FoldSound(p, base, {})
    BY <1>0, <1>3 DEF FoldSound
  <2>2. IsFiniteSet(DOMAIN list) /\ \A s \in SUBSET DOMAIN list : s # {} => LastOf(s) \in s
    BY <1>2, Positions
  <2> QED
    BY <1>1, <1>4, <2>1, <2>2, Flushing!FoldInv DEF Flushing!IsFiniteSet, IsFiniteSet
<1> QED BY <1>0, <1>5 DEF FoldSound, n


-----------------------------------------------------------------------------
(* How a world moves: what a plan read before, it can tell from what is now *)

\* Between two commands every fingerprint is that of the value, a hashed fact
\* has one, and no entity beyond those in A is named by a store, an edge or the
\* log.
Steady(w, A) ==
    /\ IsWorld(w) /\ RevisionsBounded(w)
    /\ \A c \in Components : \A e \in DOMAIN w.entries[c] :
          /\ e \in A
          /\ w.entries[c][e].fingerprint = Fingerprint(c, w.entries[c][e].value)
          /\ c \in Edges => w.entries[c][e].value \in A
          /\ c \in Hashed \ Inverses => w.entries[c][e].value # None
    /\ w.log \in Seq(Components \X A)

\* What a dependency tells of an entry: that it is there and, where its type is
\* tracked, its revision and with it the value.
SameEntry(w, n, c, e) ==
    /\ e \in DOMAIN n.entries[c] <=> e \in DOMAIN w.entries[c]
    /\ c \in Tracked /\ e \in DOMAIN n.entries[c] =>
          /\ n.entries[c][e].revision = w.entries[c][e].revision
          /\ n.entries[c][e].value = w.entries[c][e].value

\* n comes after w.  A tracked entry is the one w had, or its revision is beyond
\* w's; a store whose watermark stayed has w's entries, else its watermark is
\* beyond w's revision; and every other entry was logged since.
Grows(w, n) ==
    /\ n.next = w.next /\ n.epoch = w.epoch /\ w.revision <= n.revision
    /\ \A c \in Components : \A e : c \in Tracked /\ e \in DOMAIN n.entries[c] =>
          \/ e \in DOMAIN w.entries[c] /\ SameEntry(w, n, c, e)
          \/ w.revision < n.entries[c][e].revision
    /\ \A c \in Components :
          \/ w.revision < n.watermark[c]
          \/ n.watermark[c] = w.watermark[c] /\ \A e : SameEntry(w, n, c, e)
    /\ Len(w.log) <= Len(n.log)
    /\ \A i \in 1 .. Len(w.log) : n.log[i] = w.log[i]
    /\ \A c \in Components : \A e :
          SameEntry(w, n, c, e) \/ \E i \in Len(w.log) + 1 .. Len(n.log) : n.log[i] = <<c, e>>

\* Nothing happened.
LEMMA GrowsSelf ==
  ASSUME NEW w, NEW A, Steady(w, A)
  PROVE  Grows(w, w)
<1>1. w.revision \in Nat /\ Len(w.log) \in Nat
  BY DEF Steady, IsWorld
<1> QED BY <1>1 DEF Grows, SameEntry

\* One write after the other.
LEMMA GrowsOn ==
  ASSUME NEW u, NEW v, NEW w, NEW A, Steady(u, A), Steady(v, A), Steady(w, A),
         Grows(u, v), Grows(v, w)
  PROVE  Grows(u, w)
<1>1. /\ u.revision \in Nat /\ v.revision \in Nat /\ w.revision \in Nat
      /\ u.revision <= v.revision /\ v.revision <= w.revision
  BY DEF Steady, IsWorld, Grows
<1>2. /\ Len(u.log) \in Nat /\ Len(v.log) \in Nat /\ Len(w.log) \in Nat
      /\ Len(u.log) <= Len(v.log) /\ Len(v.log) <= Len(w.log)
  BY DEF Steady, Grows
<1>3. ASSUME NEW c, NEW e, SameEntry(u, v, c, e), SameEntry(v, w, c, e)
      PROVE  SameEntry(u, w, c, e)
  BY <1>3 DEF SameEntry
<1>4. ASSUME NEW c \in Components, NEW e, c \in Tracked, e \in DOMAIN w.entries[c]
      PROVE  \/ e \in DOMAIN u.entries[c] /\ SameEntry(u, w, c, e)
             \/ u.revision < w.entries[c][e].revision
  <2>1. w.entries[c][e].revision \in Nat
    BY <1>4 DEF Steady, IsWorld
  <2>2. CASE v.revision < w.entries[c][e].revision
    BY <1>1, <2>1, <2>2
  <2>3. CASE e \in DOMAIN v.entries[c] /\ SameEntry(v, w, c, e)
    <3>1. \/ e \in DOMAIN u.entries[c] /\ SameEntry(u, v, c, e)
          \/ u.revision < v.entries[c][e].revision
      BY <1>4, <2>3 DEF Grows
    <3>2. w.entries[c][e].revision = v.entries[c][e].revision
      BY <1>4, <2>3 DEF SameEntry
    <3> QED BY <1>3, <2>3, <3>1, <3>2
  <2> QED BY <1>4, <2>2, <2>3 DEF Grows
<1>5. ASSUME NEW c \in Components
      PROVE  \/ u.revision < w.watermark[c]
             \/ w.watermark[c] = u.watermark[c] /\ \A e : SameEntry(u, w, c, e)
  <2>1. w.watermark[c] \in Nat /\ v.watermark[c] \in Nat
    BY DEF Steady, IsWorld
  <2>2. CASE v.revision < w.watermark[c]
    BY <1>1, <2>1, <2>2
  <2>3. CASE w.watermark[c] = v.watermark[c] /\ \A e : SameEntry(v, w, c, e)
    <3>1. \/ u.revision < v.watermark[c]
          \/ v.watermark[c] = u.watermark[c] /\ \A e : SameEntry(u, v, c, e)
      BY DEF Grows
    <3> QED BY <1>3, <2>3, <3>1
  <2> QED BY <2>2, <2>3 DEF Grows
<1>6. \A i \in 1 .. Len(u.log) : w.log[i] = u.log[i]
  BY <1>2 DEF Grows
<1>7. ASSUME NEW c \in Components, NEW e
      PROVE  SameEntry(u, w, c, e) \/ \E i \in Len(u.log) + 1 .. Len(w.log) : w.log[i] = <<c, e>>
  <2>1. CASE SameEntry(u, v, c, e) /\ SameEntry(v, w, c, e)
    BY <1>3, <2>1
  <2>2. CASE \E i \in Len(u.log) + 1 .. Len(v.log) : v.log[i] = <<c, e>>
    <3>1. PICK i \in Len(u.log) + 1 .. Len(v.log) : v.log[i] = <<c, e>>
      BY <2>2
    <3>2. i \in 1 .. Len(v.log) /\ i \in Len(u.log) + 1 .. Len(w.log)
      BY <1>2
    <3>3. w.log[i] = <<c, e>>
      BY <3>1, <3>2 DEF Grows
    <3> QED BY <3>2, <3>3
  <2>3. CASE \E i \in Len(v.log) + 1 .. Len(w.log) : w.log[i] = <<c, e>>
    <3>1. PICK i \in Len(v.log) + 1 .. Len(w.log) : w.log[i] = <<c, e>>
      BY <2>3
    <3>2. i \in Len(u.log) + 1 .. Len(w.log)
      BY <1>2
    <3> QED BY <3>1, <3>2
  <2> QED BY <2>1, <2>2, <2>3 DEF Grows
<1>8. w.next = u.next /\ w.epoch = u.epoch
  BY DEF Grows
<1>9. u.revision <= w.revision /\ Len(u.log) <= Len(w.log)
  BY <1>1, <1>2
<1> QED BY <1>4, <1>5, <1>6, <1>7, <1>8, <1>9, Zenon DEF Grows

\* The store of c moved after w, and with an entry of e.
Since(w, n, c, e) ==
    /\ w.revision < n.watermark[c]
    /\ \E i \in Len(w.log) + 1 .. Len(n.log) : n.log[i] = <<c, e>>

\* It did, where an entry is there no longer.
LEMMA SinceGone ==
  ASSUME NEW w, NEW n, Grows(w, n), NEW c \in Components, NEW e, ~SameEntry(w, n, c, e)
  PROVE  Since(w, n, c, e)
BY DEF Grows, Since

\* What moved before a later world moved after an earlier one.
LEMMA SinceOn ==
  ASSUME NEW u, NEW v, NEW w, NEW A, Steady(u, A), Steady(v, A), Steady(w, A),
         Grows(u, v), Grows(v, w), NEW c \in Components, NEW e, Since(u, v, c, e) \/ Since(v, w, c, e)
  PROVE  Since(u, w, c, e)
<1>1. /\ u.revision \in Nat /\ v.revision \in Nat /\ u.revision <= v.revision
      /\ v.watermark[c] \in Nat /\ w.watermark[c] \in Nat /\ v.watermark[c] <= v.revision
      /\ Len(u.log) \in Nat /\ Len(v.log) \in Nat /\ Len(w.log) \in Nat
      /\ Len(u.log) <= Len(v.log) /\ Len(v.log) <= Len(w.log)
  <2>1. u.revision \in Nat /\ v.revision \in Nat /\ v.watermark[c] \in Nat /\ w.watermark[c] \in Nat
    BY DEF Steady, IsWorld
  <2>2. v.watermark[c] <= v.revision
    BY DEF Steady, RevisionsBounded
  <2>3. Len(u.log) \in Nat /\ Len(v.log) \in Nat /\ Len(w.log) \in Nat
    BY DEF Steady
  <2> QED BY <2>1, <2>2, <2>3 DEF Grows
<1>2. v.watermark[c] <= w.watermark[c]
  <2>1. v.revision < w.watermark[c] \/ w.watermark[c] = v.watermark[c]
    BY DEF Grows
  <2> QED BY <1>1, <2>1
<1>3. u.revision < w.watermark[c]
  <2>1. CASE Since(u, v, c, e)
    BY <1>1, <1>2, <2>1 DEF Since
  <2>2. CASE Since(v, w, c, e)
    BY <1>1, <2>2 DEF Since
  <2> QED BY <2>1, <2>2
<1>4. \E i \in Len(u.log) + 1 .. Len(w.log) : w.log[i] = <<c, e>>
  <2>1. CASE Since(u, v, c, e)
    <3>1. PICK i \in Len(u.log) + 1 .. Len(v.log) : v.log[i] = <<c, e>>
      BY <2>1 DEF Since
    <3>2. i \in 1 .. Len(v.log) /\ i \in Len(u.log) + 1 .. Len(w.log)
      BY <1>1
    <3>3. w.log[i] = <<c, e>>
      BY <3>1, <3>2 DEF Grows
    <3> QED BY <3>2, <3>3
  <2>2. CASE Since(v, w, c, e)
    <3>1. PICK i \in Len(v.log) + 1 .. Len(w.log) : w.log[i] = <<c, e>>
      BY <2>2 DEF Since
    <3>2. i \in Len(u.log) + 1 .. Len(w.log)
      BY <1>1
    <3> QED BY <3>1, <3>2
  <2> QED BY <2>1, <2>2
<1> QED BY <1>3, <1>4 DEF Since

\* n is w with the entry of type c on e written or removed.  Either the store
\* moved, or the entry keeps its revision and, if it is tracked, its value.
Touched(w, n, c, e) ==
    /\ Total(n, Fields) /\ Elsewhere(w, n, c, e)
    /\ n.next = w.next /\ n.epoch = w.epoch
    /\ \/ /\ n.revision = w.revision + 1 /\ n.watermark = [w.watermark EXCEPT ![c] = w.revision + 1]
          /\ n.log = Append(w.log, <<c, e>>)
          /\ e \in DOMAIN n.entries[c] => n.entries[c][e].revision = w.revision + 1
       \/ /\ n.revision = w.revision /\ n.watermark = w.watermark
          /\ n.log \in {w.log, Append(w.log, <<c, e>>)}
          /\ e \in DOMAIN w.entries[c] /\ e \in DOMAIN n.entries[c]
          /\ n.entries[c][e].revision = w.entries[c][e].revision
          /\ c \in Tracked => n.entries[c][e].value = w.entries[c][e].value

\* What the write leaves is an entry of the store.
Fits(n, c, e, A) ==
    e \in DOMAIN n.entries[c] =>
        /\ DOMAIN n.entries[c][e] = Columns
        /\ n.entries[c][e].fingerprint = Fingerprint(c, n.entries[c][e].value)
        /\ c \in Edges => n.entries[c][e].value \in A
        /\ c \in Hashed \ Inverses => n.entries[c][e].value # None

\* One write leaves a steady world.
LEMMA TouchedSteady ==
  ASSUME NEW w, NEW n, NEW c \in Components, NEW A, NEW e \in A, Steady(w, A),
         Touched(w, n, c, e), Fits(n, c, e, A)
  PROVE  Steady(n, A)
<1>0. /\ w.revision \in Nat /\ w.watermark \in [Components -> Nat]
      /\ w.log \in Seq(Components \X A)
      /\ \A d \in Components : \A f \in DOMAIN w.entries[d] :
            /\ w.entries[d][f].revision \in Nat /\ w.entries[d][f].revision <= w.watermark[d]
            /\ DOMAIN w.entries[d][f] = Columns
      /\ \A d \in Components : w.watermark[d] \in Nat /\ w.watermark[d] <= w.revision
  BY DEF Steady, IsWorld, RevisionsBounded, Entry
<1>1. /\ n.revision \in Nat /\ n.watermark \in [Components -> Nat]
      /\ \A d \in Components : w.watermark[d] <= n.watermark[d] /\ n.watermark[d] <= n.revision
      /\ e \in DOMAIN n.entries[c] => /\ n.entries[c][e].revision \in Nat
                                      /\ n.entries[c][e].revision <= n.watermark[c]
  <2>1. CASE /\ n.revision = w.revision + 1
             /\ n.watermark = [w.watermark EXCEPT ![c] = w.revision + 1]
             /\ e \in DOMAIN n.entries[c] => n.entries[c][e].revision = w.revision + 1
    <3>1. \A d \in Components : n.watermark[d] = IF d = c THEN w.revision + 1 ELSE w.watermark[d]
      BY <1>0, <2>1
    <3>2. n.watermark \in [Components -> Nat]
      BY <1>0, <2>1
    <3> QED BY <1>0, <2>1, <3>1, <3>2
  <2>2. CASE /\ n.revision = w.revision /\ n.watermark = w.watermark
             /\ e \in DOMAIN w.entries[c] /\ n.entries[c][e].revision = w.entries[c][e].revision
    BY <1>0, <2>2
  <2> QED BY <2>1, <2>2 DEF Touched
<1>2. ASSUME NEW d \in Components, NEW f \in DOMAIN n.entries[d]
      PROVE  /\ n.entries[d][f].revision \in Nat /\ n.entries[d][f].revision <= n.watermark[d]
             /\ DOMAIN n.entries[d][f] = Columns /\ f \in A
             /\ n.entries[d][f].fingerprint = Fingerprint(d, n.entries[d][f].value)
             /\ d \in Edges => n.entries[d][f].value \in A
             /\ d \in Hashed \ Inverses => n.entries[d][f].value # None
  <2>1. CASE d = c /\ f = e
    BY <1>1, <1>2, <2>1 DEF Fits
  <2>2. CASE ~(d = c /\ f = e)
    <3>1. f \in DOMAIN w.entries[d] /\ n.entries[d][f] = w.entries[d][f]
      BY <1>2, <2>2 DEF Touched, Elsewhere
    <3>2. /\ w.entries[d][f].revision \in Nat /\ w.entries[d][f].revision <= w.watermark[d]
          /\ w.watermark[d] \in Nat /\ w.watermark[d] <= n.watermark[d] /\ n.watermark[d] \in Nat
      BY <1>0, <1>1, <3>1
    <3>3. w.entries[d][f].revision <= n.watermark[d]
      BY <3>2
    <3> QED BY <1>0, <3>1, <3>2, <3>3 DEF Steady
  <2> QED BY <2>1, <2>2
<1>3. n.log \in Seq(Components \X A)
  <2>1. <<c, e>> \in Components \X A
    OBVIOUS
  <2>2. Append(w.log, <<c, e>>) \in Seq(Components \X A)
    BY <1>0, <2>1
  <2> QED BY <1>0, <2>2 DEF Touched
<1>4. IsWorld(n) /\ RevisionsBounded(n)
  BY <1>1, <1>2 DEF IsWorld, RevisionsBounded, Touched, Elsewhere, Entry
<1> QED BY <1>2, <1>3, <1>4 DEF Steady

\* One write goes on from the world it found.
LEMMA TouchedGrows ==
  ASSUME NEW w, NEW n, NEW c \in Components, NEW A, NEW e \in A, Steady(w, A),
         Touched(w, n, c, e)
  PROVE  Grows(w, n)
<1>0. /\ w.revision \in Nat /\ w.watermark \in [Components -> Nat] /\ w.log \in Seq(Components \X A)
      /\ n.next = w.next /\ n.epoch = w.epoch
  BY DEF Steady, IsWorld, Touched
<1>1. ASSUME NEW d \in Components, NEW f, ~(d = c /\ f = e) PROVE SameEntry(w, n, d, f)
  BY <1>1 DEF Touched, Elsewhere, SameEntry
<1>2. CASE /\ n.revision = w.revision + 1
           /\ n.watermark = [w.watermark EXCEPT ![c] = w.revision + 1]
           /\ n.log = Append(w.log, <<c, e>>)
           /\ e \in DOMAIN n.entries[c] => n.entries[c][e].revision = w.revision + 1
  <2>1. \A d \in Components : n.watermark[d] = IF d = c THEN w.revision + 1 ELSE w.watermark[d]
    BY <1>0, <1>2
  <2>2. ASSUME NEW d \in Components
        PROVE  \/ w.revision < n.watermark[d]
               \/ n.watermark[d] = w.watermark[d] /\ \A f : SameEntry(w, n, d, f)
    BY <1>0, <1>1, <2>1
  <2>3. /\ Len(n.log) = Len(w.log) + 1 /\ Len(w.log) \in Nat
        /\ \A i \in 1 .. Len(w.log) : n.log[i] = w.log[i]
        /\ n.log[Len(w.log) + 1] = <<c, e>>
    BY <1>0, <1>2
  <2>4. ASSUME NEW d \in Components, NEW f
        PROVE  SameEntry(w, n, d, f) \/ \E i \in Len(w.log) + 1 .. Len(n.log) : n.log[i] = <<d, f>>
    BY <1>1, <2>3
  <2>5. ASSUME NEW d \in Components, NEW f, d \in Tracked, f \in DOMAIN n.entries[d]
        PROVE  \/ f \in DOMAIN w.entries[d] /\ SameEntry(w, n, d, f)
               \/ w.revision < n.entries[d][f].revision
    <3>1. CASE d = c /\ f = e
      <4>1. e \in DOMAIN n.entries[c] /\ n.entries[d][f] = n.entries[c][e]
        BY <2>5, <3>1, Zenon
      <4>2. n.entries[c][e].revision = w.revision + 1
        BY <1>2, <4>1
      <4>3. n.entries[d][f].revision = w.revision + 1
        BY <4>1, <4>2, Zenon
      <4> QED BY <1>0, <4>3
    <3>2. CASE ~(d = c /\ f = e)
      BY <1>1, <2>5, <3>2 DEF SameEntry
    <3> QED BY <3>1, <3>2
  <2>6. w.revision <= n.revision /\ Len(w.log) <= Len(n.log)
    BY <1>0, <1>2, <2>3
  <2> QED BY <1>0, <2>2, <2>3, <2>4, <2>5, <2>6, Zenon DEF Grows
<1>3. CASE /\ n.revision = w.revision /\ n.watermark = w.watermark
           /\ n.log \in {w.log, Append(w.log, <<c, e>>)}
           /\ e \in DOMAIN w.entries[c] /\ e \in DOMAIN n.entries[c]
           /\ n.entries[c][e].revision = w.entries[c][e].revision
           /\ c \in Tracked => n.entries[c][e].value = w.entries[c][e].value
  <2>1. SameEntry(w, n, c, e)
    BY <1>3 DEF SameEntry
  <2>2. \A d \in Components : \A f : SameEntry(w, n, d, f)
    BY <1>1, <2>1
  <2>3. ASSUME NEW d \in Components, NEW f, d \in Tracked, f \in DOMAIN n.entries[d]
        PROVE  f \in DOMAIN w.entries[d] /\ SameEntry(w, n, d, f)
    BY <2>2, <2>3 DEF SameEntry
  <2>4. /\ Len(w.log) <= Len(n.log)
        /\ \A i \in 1 .. Len(w.log) : n.log[i] = w.log[i]
    BY <1>0, <1>3
  <2> QED BY <1>0, <1>3, <2>2, <2>3, <2>4 DEF Grows
<1> QED BY <1>2, <1>3 DEF Touched

\* A step that touches no store keeps the world where it is.
Kept(w, n) ==
    /\ Total(n, Fields) /\ n.entries = w.entries /\ n.watermark = w.watermark
    /\ n.revision = w.revision /\ n.log = w.log /\ n.next = w.next /\ n.epoch = w.epoch

\* What keeps them is no write at all.
LEMMA KeptGrows ==
  ASSUME NEW w, NEW n, NEW A, Steady(w, A), Kept(w, n)
  PROVE  Steady(n, A) /\ Grows(w, n)
<1>1. Steady(n, A)
  BY DEF Steady, Kept, IsWorld, RevisionsBounded, Entry
<1>2. Grows(w, w)
  BY GrowsSelf
<1>3. \A c, e : SameEntry(w, n, c, e) <=> SameEntry(w, w, c, e)
  BY DEF SameEntry, Kept
<1>4. Grows(w, n)
  BY <1>2, <1>3 DEF Grows, Kept
<1> QED BY <1>1, <1>4

\* World::insert up to the relationships.
LEMMA InsertEntryGrows ==
  ASSUME NEW w, NEW A, NEW e \in A, NEW c \in Components, NEW v, NEW o, Steady(w, A),
         c \in Edges => v \in A, c \in Hashed \ Inverses => v # None
  PROVE  LET n == InsertEntry(w, e, c, v, o) IN Steady(n, A) /\ Grows(w, n)
<1> DEFINE old == Old(w, c, e)
           fp == Fingerprint(c, v)
           same == \E p \in old : p.fingerprint # None /\ p.fingerprint = fp
           kept == same /\ c \in Tracked
           rev == IF kept THEN Entry(w, c, e).revision ELSE w.revision + 1
           new == [value |-> v, revision |-> rev, fingerprint |-> fp, owner |-> o]
           n == InsertEntry(w, e, c, v, o)
           lg == Append(w.log, <<c, e>>)
           rv == IF kept THEN w.revision ELSE rev
           mu == IF same THEN w.mutations ELSE w.mutations + 1
           wm == [w.watermark EXCEPT ![c] = Max({w.watermark[c], rev})]
           pr == PresenceSet(w, c, e)
           en == [w.entries EXCEPT ![c] = Stored(w.entries[c], e, new)]
           ix == (w.index \ UNION {Keyed(c, p.fingerprint, e) : p \in old}) \cup Keyed(c, fp, e)
           ow == (w.owned \ {<<p.owner, c, e>> : p \in {q \in old : q.owner # o}})
                   \cup (IF o = None THEN {} ELSE {<<o, c, e>>})
           sg == IF c \in Singletons \ DOMAIN w.singletons
                 THEN Stored(w.singletons, c, e) ELSE w.singletons
<1>0. /\ IsWorld(w) /\ w.revision \in Nat /\ w.watermark \in [Components -> Nat]
      /\ w.watermark[c] \in Nat /\ w.watermark[c] <= w.revision
      /\ Has(w, c, e) => /\ Entry(w, c, e).revision \in Nat
                         /\ Entry(w, c, e).revision <= w.watermark[c]
  BY DEF Steady, IsWorld, RevisionsBounded, Has, Entry
<1>1. n = [w EXCEPT !.log = lg, !.revision = rv, !.mutations = mu, !.watermark = wm,
                    !.presence = pr, !.entries = en, !.index = ix, !.owned = ow,
                    !.singletons = sg]
  BY Zenon DEF InsertEntry
<1>2. w = [f \in Fields |-> w[f]]
  BY <1>0 DEF IsWorld, Total
<1>3. /\ new.value = v /\ new.revision = rev /\ new.fingerprint = fp
      /\ DOMAIN new = Columns
  BY DEF Columns
<1>4. kept => Has(w, c, e) /\ Entry(w, c, e).value = v
  <2> SUFFICES ASSUME kept PROVE Has(w, c, e) /\ Entry(w, c, e).value = v
    OBVIOUS
  <2>1. Has(w, c, e) /\ Entry(w, c, e).fingerprint = fp /\ fp # None
    BY DEF Old
  <2>2. Entry(w, c, e).fingerprint = Fingerprint(c, Entry(w, c, e).value)
    BY <2>1 DEF Steady, Has, Entry
  <2> QED BY <2>1, <2>2 DEF Fingerprint
<1>5. kept => rev = Entry(w, c, e).revision /\ rv = w.revision /\ c \in Tracked
  OBVIOUS
<1>6. ~kept => rev = w.revision + 1 /\ rv = w.revision + 1
  OBVIOUS
<1>7. PICK put : Put(w, n, c, e, put)
  BY <1>0, InsertEntryPuts
<1> HIDE DEF n, lg, rv, mu, wm, pr, en, ix, ow, sg, new, rev, fp, old, kept, same
<1>8. /\ n = [f \in Fields |-> n[f]]
      /\ n.entries = en /\ n.revision = rv /\ n.watermark = wm /\ n.log = lg
      /\ n.next = w.next /\ n.epoch = w.epoch
  BY <1>1, <1>2 DEF Fields
<1>9. Elsewhere(w, n, c, e) /\ e \in DOMAIN n.entries[c]
  BY <1>0, <1>7, StoresAfterPut
<1>10. n.entries[c][e] = new
  <2>1. c \in DOMAIN w.entries
    BY <1>0 DEF IsWorld, Total
  <2>2. n.entries[c] = Stored(w.entries[c], e, new)
    BY <1>8, <2>1 DEF en
  <2> QED BY <2>2 DEF Stored
<1>11. wm = IF kept THEN w.watermark ELSE [w.watermark EXCEPT ![c] = w.revision + 1]
  <2>1. rev \in Nat
    BY <1>0, <1>4, <1>5, <1>6
  <2>2. /\ Max({w.watermark[c], rev}) \in Nat
        /\ w.watermark[c] <= Max({w.watermark[c], rev}) /\ rev <= Max({w.watermark[c], rev})
        /\ Max({w.watermark[c], rev}) \in {w.watermark[c], rev}
    BY <1>0, <2>1, MaxOfTwo
  <2>3. Max({w.watermark[c], rev}) = IF kept THEN w.watermark[c] ELSE w.revision + 1
    BY <1>0, <1>4, <1>5, <1>6, <2>2
  <2> QED BY <1>0, <2>3 DEF wm
<1>12. Touched(w, n, c, e)
  <2>1. Total(n, Fields)
    BY <1>8 DEF Total
  <2>2. CASE kept
    BY <1>3, <1>4, <1>5, <1>8, <1>9, <1>10, <1>11, <2>1, <2>2 DEF Touched, lg, Has,
       Entry
  <2>3. CASE ~kept
    BY <1>3, <1>6, <1>8, <1>9, <1>10, <1>11, <2>1, <2>3 DEF Touched, lg
  <2> QED BY <2>2, <2>3
<1>13. Fits(n, c, e, A)
  BY <1>3, <1>10 DEF Fits, fp
<1> QED BY <1>12, <1>13, TouchedSteady, TouchedGrows DEF n

\* Moved and Without go on from the world they find.
LEMMA SweepGrows ==
  ASSUME NEW w, NEW A, NEW e \in A, NEW c \in Components, Steady(w, A)
  PROVE  LET n == Moved(Without(w, c, e), c, e) IN Steady(n, A) /\ Grows(w, n)
<1> DEFINE m == Without(w, c, e)
           n == Moved(m, c, e)
           dr == Dropped(w.entries[c], e)
           ky == Keyed(c, Entry(w, c, e).fingerprint, e)
<1>0. IsWorld(w)
  BY DEF Steady
<1>1. w = [f \in Fields |-> w[f]]
  BY <1>0 DEF IsWorld, Total
<1>2. m = [w EXCEPT !.entries[c] = dr, !.index = @ \ ky, !.presence = @ \ {<<c, e>>}]
  BY Zenon DEF Without
<1>3. Drop(w, n, c, e, w.owned)
  BY <1>0, SweepDrops
<1> HIDE DEF m, dr, ky
<1>4. /\ m = [f \in Fields |-> m[f]]
      /\ m.log = w.log /\ m.next = w.next /\ m.epoch = w.epoch
  BY <1>1, <1>2 DEF Fields
<1>5. n.log = Append(w.log, <<c, e>>) /\ n.next = w.next /\ n.epoch = w.epoch
  BY <1>4 DEF Moved, Logged, Fields
<1> HIDE DEF n
<1>6. Elsewhere(w, n, c, e) /\ e \notin DOMAIN n.entries[c]
  BY <1>0, <1>3, StoresAfterDrop
<1>7. Touched(w, n, c, e) /\ Fits(n, c, e, A)
  BY <1>3, <1>5, <1>6 DEF Touched, Fits, Drop
<1> QED BY <1>7, TouchedSteady, TouchedGrows DEF n, m

\* World::remove_component up to the relationships.
LEMMA RemoveEntryGrows ==
  ASSUME NEW w, NEW A, NEW e, NEW c \in Components, NEW remover, Steady(w, A)
  PROVE  LET n == RemoveEntry(w, c, e, remover) IN Steady(n, A) /\ Grows(w, n)
<1> DEFINE o == Entry(w, c, e).owner
           m == Moved(Without(w, c, e), c, e)
           n == RemoveEntry(w, c, e, remover)
           ow == UnindexDerived(w, o, c, e)
           si == IF c \in DOMAIN m.singletons /\ m.singletons[c] = e
                 THEN Dropped(m.singletons, c) ELSE m.singletons
<1>1. CASE ~Has(w, c, e)
  BY <1>1, GrowsSelf DEF RemoveEntry
<1>2. CASE Has(w, c, e)
  <2>1. e \in A /\ IsWorld(w)
    BY <1>2 DEF Steady, Has
  <2>2. Steady(m, A) /\ Grows(w, m)
    BY <2>1, SweepGrows
  <2>3. \E r : n = [m EXCEPT !.owned = ow, !.removedComponentOwners = r, !.singletons = si]
    BY <1>2, Zenon DEF RemoveEntry
  <2> HIDE DEF m, n, ow, si
  <2>4. m = [f \in Fields |-> m[f]]
    BY <2>2 DEF Steady, IsWorld, Total
  <2>5. Kept(m, n)
    BY <2>3, <2>4 DEF Kept, Total, Fields
  <2>6. Steady(n, A) /\ Grows(m, n)
    BY <2>2, <2>5, KeptGrows
  <2>7. Grows(w, n)
    BY <2>2, <2>6, GrowsOn
  <2> QED BY <2>6, <2>7 DEF n
<1> QED BY <1>1, <1>2

\* The maintenance of one list.
LEMMA AddMemberGrows ==
  ASSUME NEW w, NEW A, NEW c \in Edges, NEW s, NEW t \in A, Steady(w, A)
  PROVE  LET n == AddMember(w, InverseOf[c], s, t) IN Steady(n, A) /\ Grows(w, n)
<1>1. InverseOf[c] \in Components \ Edges /\ InverseOf[c] \in Inverses
  BY RelationTypes DEF Inverses
<1> DEFINE v == Members(w, InverseOf[c], t) \cup {s}
<1>2. LET n == InsertEntry(w, t, InverseOf[c], v, None) IN Steady(n, A) /\ Grows(w, n)
  <2> HIDE DEF v
  <2> QED BY <1>1, InsertEntryGrows
<1>3. Grows(w, w)
  BY GrowsSelf
<1> QED BY <1>2, <1>3 DEF AddMember

\* So does taking a source off the inverse of a target.
LEMMA RemoveMemberGrows ==
  ASSUME NEW w, NEW A, NEW c \in Edges, NEW s, NEW t, Steady(w, A)
  PROVE  LET n == RemoveMember(w, InverseOf[c], s, t) IN Steady(n, A) /\ Grows(w, n)
<1> DEFINE i == InverseOf[c]
           n == RemoveMember(w, i, s, t)
           rest == Members(w, i, t) \ {s}
<1>1. i \in Components \ Edges /\ i \in Inverses
  BY RelationTypes DEF Inverses
<1>2. CASE s \notin Members(w, i, t)
  BY <1>2, GrowsSelf DEF RemoveMember
<1>3. CASE s \in Members(w, i, t) /\ rest = {}
  <2>1. n = RemoveEntry(w, i, t, None)
    BY <1>3 DEF RemoveMember
  <2> HIDE DEF i, n
  <2> QED BY <1>1, <2>1, RemoveEntryGrows DEF n, i
<1>4. CASE s \in Members(w, i, t) /\ rest # {}
  <2>1. n = InsertEntry(w, t, i, rest, None)
    BY <1>4 DEF RemoveMember
  <2>2. Has(w, i, t)
    BY <1>4 DEF Members
  <2>3. t \in A
    BY <1>1, <2>2 DEF Steady, Has
  <2> HIDE DEF i, n, rest
  <2>4. Steady(n, A) /\ Grows(w, n)
    BY <1>1, <2>1, <2>3, InsertEntryGrows
  <2> QED BY <2>4 DEF n, i
<1> QED BY <1>2, <1>3, <1>4

\* What a loop over writes keeps: the context names the world it began with.
GrowInv(p, v, done) == Steady(v, p.A) /\ Grows(p.w, v)
UnlistGrow == INSTANCE FoldFacts WITH op <- UnlistStep, pick <- AnyOf, Inv <- GrowInv
ListGrow == INSTANCE FoldFacts WITH op <- ListStep, pick <- AnyOf, Inv <- GrowInv

\* The first loop of retarget: the sources that leave their targets.
LEMMA UnlistGrows ==
  ASSUME NEW w, NEW A, NEW c \in Edges, NEW e, NEW S, IsFiniteSet(S), Steady(w, A)
  PROVE  LET n == Unlisted(w, c, e, S) IN Steady(n, A) /\ Grows(w, n)
<1> DEFINE p == [w |-> w, c |-> c, e |-> e, A |-> A]
           n == Unlisted(w, c, e, S)
<1>0. p.w = w /\ p.c = c /\ p.e = e /\ p.A = A
  OBVIOUS
<1>1. n = UnlistGrow!Fold(p, w, S)
  BY SMT DEF Unlisted, FoldSet, MapThenFoldSet, UnlistGrow!Fold, UnlistStep, AnyOf
<1> HIDE DEF n, p
<1>2. GrowInv(p, w, {})
  BY <1>0, GrowsSelf DEF GrowInv
<1>3. ASSUME NEW v, NEW s \in SUBSET S, s # {}, GrowInv(p, v, s \ {AnyOf(s)})
      PROVE  GrowInv(p, UnlistStep(p, AnyOf(s), v), s)
  <2> DEFINE t == AnyOf(s)
             m == UnlistStep(p, t, v)
  <2>1. m = RemoveMember(v, InverseOf[c], e, t)
    BY <1>0 DEF UnlistStep
  <2>2. Steady(v, A) /\ Grows(w, v)
    BY <1>0, <1>3 DEF GrowInv
  <2> HIDE DEF t, m
  <2>3. Steady(m, A) /\ Grows(v, m)
    BY <2>1, <2>2, RemoveMemberGrows
  <2>4. Grows(w, m)
    BY <2>2, <2>3, GrowsOn
  <2> QED BY <2>3, <2>4, <1>0 DEF GrowInv, m, t
<1>4. GrowInv(p, n, S)
  <2>1. \A s \in SUBSET S : s # {} => AnyOf(s) \in s
    BY AnyOfMember
  <2> QED
    BY <1>1, <1>2, <1>3, <2>1, UnlistGrow!FoldInv DEF UnlistGrow!IsFiniteSet,
       IsFiniteSet
<1> QED BY <1>0, <1>4 DEF GrowInv, n

\* The second loop of retarget: the sources that join their new ones.
LEMMA ListGrows ==
  ASSUME NEW w, NEW A, NEW c \in Edges, NEW e, NEW S \in SUBSET A, IsFiniteSet(S), Steady(w, A)
  PROVE  LET n == Listed(w, c, e, S) IN Steady(n, A) /\ Grows(w, n)
<1> DEFINE p == [w |-> w, c |-> c, e |-> e, A |-> A]
           n == Listed(w, c, e, S)
<1>0. p.w = w /\ p.c = c /\ p.e = e /\ p.A = A
  OBVIOUS
<1>1. n = ListGrow!Fold(p, w, S)
  BY SMT DEF Listed, FoldSet, MapThenFoldSet, ListGrow!Fold, ListStep, AnyOf
<1> HIDE DEF n, p
<1>2. GrowInv(p, w, {})
  BY <1>0, GrowsSelf DEF GrowInv
<1>3. ASSUME NEW v, NEW s \in SUBSET S, s # {}, GrowInv(p, v, s \ {AnyOf(s)})
      PROVE  GrowInv(p, ListStep(p, AnyOf(s), v), s)
  <2> DEFINE t == AnyOf(s)
             m == ListStep(p, t, v)
  <2>0. t \in A
    BY <1>3, AnyOfMember
  <2>1. m = AddMember(v, InverseOf[c], e, t)
    BY <1>0 DEF ListStep
  <2>2. Steady(v, A) /\ Grows(w, v)
    BY <1>0, <1>3 DEF GrowInv
  <2> HIDE DEF t, m
  <2>3. Steady(m, A) /\ Grows(v, m)
    BY <2>0, <2>1, <2>2, AddMemberGrows
  <2>4. Grows(w, m)
    BY <2>2, <2>3, GrowsOn
  <2> QED BY <2>3, <2>4, <1>0 DEF GrowInv, m, t
<1>4. GrowInv(p, n, S)
  <2>1. \A s \in SUBSET S : s # {} => AnyOf(s) \in s
    BY AnyOfMember
  <2> QED
    BY <1>1, <1>2, <1>3, <2>1, ListGrow!FoldInv DEF ListGrow!IsFiniteSet, IsFiniteSet
<1> QED BY <1>0, <1>4 DEF GrowInv, n

\* retarget writes the inverses of entities that are there.
LEMMA RetargetGrows ==
  ASSUME NEW w, NEW A, NEW c \in Edges, NEW e, NEW before, NEW after \in SUBSET A,
         IsFiniteSet(before), IsFiniteSet(after), Steady(w, A)
  PROVE  LET n == Retarget(w, c, e, before, after) IN Steady(n, A) /\ Grows(w, n)
<1> DEFINE n == Retarget(w, c, e, before, after)
<1>1. CASE before = after
  <2>1. n = w
    BY <1>1 DEF Retarget
  <2> QED BY <2>1, GrowsSelf
<1>2. CASE before # after
  <2> DEFINE mid == Unlisted(w, c, e, before)
  <2>1. n = Listed(mid, c, e, after)
    BY <1>2, Zenon DEF Retarget, Listed, Unlisted
  <2>2. Steady(mid, A) /\ Grows(w, mid)
    BY UnlistGrows
  <2> HIDE DEF mid, n
  <2>3. Steady(n, A) /\ Grows(mid, n)
    BY <2>1, <2>2, ListGrows
  <2>4. Grows(w, n)
    BY <2>2, <2>3, GrowsOn
  <2> QED BY <2>3, <2>4 DEF n
<1> QED BY <1>1, <1>2

\* World::insert, of an edge to an entity that is there.
LEMMA InsertGrows ==
  ASSUME NEW w, NEW A, NEW e \in A, NEW c \in Components, NEW v, NEW o, Steady(w, A),
         c \in Edges => v \in A, c \in Hashed \ Inverses => v # None
  PROVE  LET n == Insert(w, e, c, v, o) IN Steady(n, A) /\ Grows(w, n)
<1> DEFINE n == Insert(w, e, c, v, o)
           m == InsertEntry(w, e, c, v, o)
<1>1. CASE c = Anchored
  <2> DEFINE pd == Append(w.pending, [at |-> e, anchors |-> v, owner |-> o])
  <2>1. n = [w EXCEPT !.pending = pd]
    BY <1>1 DEF Insert
  <2>2. w = [f \in Fields |-> w[f]]
    BY DEF Steady, IsWorld, Total
  <2> HIDE DEF n, pd
  <2>3. Kept(w, n)
    BY <2>1, <2>2 DEF Kept, Total, Fields
  <2> QED BY <2>3, KeptGrows DEF n
<1>2. CASE c # Anchored /\ Misplaced(w, c, e)
  BY <1>2, GrowsSelf DEF Insert
<1>3. CASE c # Anchored /\ ~Misplaced(w, c, e)
  <2>1. n = Retarget(m, c, e, Targets(w, c, e), Targets(m, c, e))
    BY <1>3 DEF Insert
  <2>2. Steady(m, A) /\ Grows(w, m)
    BY InsertEntryGrows
  <2> HIDE DEF m
  <2>3. CASE c \notin Edges
    BY <2>1, <2>2, <2>3, NoTargets
  <2>4. CASE c \in Edges
    <3> DEFINE before == Targets(w, c, e)
               after == Targets(m, c, e)
    <3>1. IsFiniteSet(before)
      BY <2>4, TargetsOfEdge
    <3>2. IsFiniteSet(after) /\ \A t : t \in after <=> Edge(m, c, e, t)
      BY <2>4, TargetsOfEdge
    <3> HIDE DEF before, after
    <3>3. after \in SUBSET A
      BY <2>2, <2>4, <3>2 DEF Edge, Steady
    <3>4. Steady(Retarget(m, c, e, before, after), A) /\ Grows(m, Retarget(m, c, e, before, after))
      BY <2>2, <2>4, <3>1, <3>2, <3>3, RetargetGrows
    <3>5. n = Retarget(m, c, e, before, after)
      BY <2>1 DEF before, after
    <3> HIDE DEF n
    <3>6. Steady(n, A) /\ Grows(m, n)
      BY <3>4, <3>5
    <3>7. Grows(w, n)
      BY <2>2, <3>6, GrowsOn
    <3> QED BY <3>6, <3>7 DEF n
  <2> QED BY <2>3, <2>4
<1> QED BY <1>1, <1>2, <1>3

\* World::remove_component
LEMMA RemoveComponentGrows ==
  ASSUME NEW w, NEW A, NEW e, NEW c \in Components, NEW remover, Steady(w, A)
  PROVE  LET n == RemoveComponent(w, c, e, remover) IN Steady(n, A) /\ Grows(w, n)
<1> DEFINE m == RemoveEntry(w, c, e, remover)
           n == RemoveComponent(w, c, e, remover)
           before == Targets(w, c, e)
           after == {}
<1>1. n = Retarget(m, c, e, before, after)
  BY DEF RemoveComponent
<1>2. Steady(m, A) /\ Grows(w, m)
  BY RemoveEntryGrows
<1> HIDE DEF m, n
<1>3. CASE c \notin Edges
  BY <1>1, <1>2, <1>3, NoTargets DEF n
<1>4. CASE c \in Edges
  <2>1. IsFiniteSet(before) /\ IsFiniteSet(after) /\ after \in SUBSET A
    BY <1>4, TargetsOfEdge, FS_EmptySet
  <2> HIDE DEF before, after
  <2>2. Steady(n, A) /\ Grows(m, n)
    BY <1>1, <1>2, <1>4, <2>1, RetargetGrows
  <2>3. Grows(w, n)
    BY <1>2, <2>2, GrowsOn
  <2> QED BY <2>2, <2>3 DEF n
<1> QED BY <1>3, <1>4

BareGrow == INSTANCE FoldFacts WITH op <- BareStep, pick <- AnyOf, Inv <- GrowInv
UnlinkGrowInv(p, v, done) == Steady(v, p.A) /\ Grows(p.m, v)
UnlinkGrow == INSTANCE FoldFacts WITH op <- UnlinkStep, pick <- AnyOf, Inv <- UnlinkGrowInv
RetractGrow == INSTANCE FoldFacts WITH op <- RetractStep, pick <- AnyOf, Inv <- GrowInv

\* The three loops of remove_entity.
LEMMA BareGrows ==
  ASSUME NEW w, NEW A, NEW e, NEW types \in SUBSET Components, IsFiniteSet(types),
         Steady(w, A), \A c \in types : Has(w, c, e)
  PROVE  LET n == Bare(w, e, types) IN Steady(n, A) /\ Grows(w, n)
<1> DEFINE p == [w |-> w, e |-> e, A |-> A]
           n == Bare(w, e, types)
<1>0. p.w = w /\ p.e = e /\ p.A = A
  OBVIOUS
<1>1. n = BareGrow!Fold(p, w, types)
  BY SMT DEF Bare, FoldSet, MapThenFoldSet, BareGrow!Fold, BareStep, AnyOf
<1> HIDE DEF n, p
<1>2. GrowInv(p, w, {})
  BY <1>0, GrowsSelf DEF GrowInv
<1>3. ASSUME NEW v, NEW s \in SUBSET types, s # {}, GrowInv(p, v, s \ {AnyOf(s)})
      PROVE  GrowInv(p, BareStep(p, AnyOf(s), v), s)
  <2> DEFINE c == AnyOf(s)
             m == BareStep(p, c, v)
  <2>1. c \in types
    BY <1>3, AnyOfMember
  <2>2. m = Moved(Without(v, c, e), c, e)
    BY <1>0 DEF BareStep
  <2>3. Steady(v, A) /\ Grows(w, v)
    BY <1>0, <1>3 DEF GrowInv
  <2> HIDE DEF c, m
  <2>4. e \in A /\ c \in Components
    BY <2>1 DEF Steady, Has
  <2>5. Steady(m, A) /\ Grows(v, m)
    BY <2>2, <2>3, <2>4, SweepGrows
  <2>6. Grows(w, m)
    BY <2>3, <2>5, GrowsOn
  <2> QED BY <2>5, <2>6, <1>0 DEF GrowInv, m, c
<1>4. GrowInv(p, n, types)
  <2>1. \A s \in SUBSET types : s # {} => AnyOf(s) \in s
    BY AnyOfMember
  <2> QED
    BY <1>1, <1>2, <1>3, <2>1, BareGrow!FoldInv DEF BareGrow!IsFiniteSet, IsFiniteSet
<1> QED BY <1>0, <1>4 DEF GrowInv, n

\* Taking an entity off the inverses of its targets is a sequence of writes.
LEMMA UnlinkGrows ==
  ASSUME NEW w, NEW m, NEW A, NEW e, IsFiniteSet(Edges), Steady(m, A)
  PROVE  LET n == Unlinked(w, m, e) IN Steady(n, A) /\ Grows(m, n)
<1> DEFINE p == [w |-> w, m |-> m, e |-> e, A |-> A]
           n == Unlinked(w, m, e)
<1>0. p.w = w /\ p.m = m /\ p.e = e /\ p.A = A
  OBVIOUS
<1>1. n = UnlinkGrow!Fold(p, m, Edges)
  BY SMT DEF Unlinked, FoldSet, MapThenFoldSet, UnlinkGrow!Fold, UnlinkStep, AnyOf
<1> HIDE DEF n, p
<1>2. UnlinkGrowInv(p, m, {})
  BY <1>0, GrowsSelf DEF UnlinkGrowInv
<1>3. ASSUME NEW v, NEW s \in SUBSET Edges, s # {}, UnlinkGrowInv(p, v, s \ {AnyOf(s)})
      PROVE  UnlinkGrowInv(p, UnlinkStep(p, AnyOf(s), v), s)
  <2> DEFINE c == AnyOf(s)
             u == UnlinkStep(p, c, v)
             before == Targets(w, c, e)
             after == {}
  <2>1. c \in Edges
    BY <1>3, AnyOfMember
  <2>2. u = Retarget(v, c, e, before, after)
    BY <1>0 DEF UnlinkStep
  <2>3. Steady(v, A) /\ Grows(m, v)
    BY <1>0, <1>3 DEF UnlinkGrowInv
  <2> HIDE DEF c, u
  <2>4. IsFiniteSet(before) /\ IsFiniteSet(after) /\ after \in SUBSET A
    BY <2>1, TargetsOfEdge, FS_EmptySet
  <2> HIDE DEF before, after
  <2>5. Steady(u, A) /\ Grows(v, u)
    BY <2>1, <2>2, <2>3, <2>4, RetargetGrows
  <2>6. Grows(m, u)
    BY <2>3, <2>5, GrowsOn
  <2> QED BY <2>5, <2>6, <1>0 DEF UnlinkGrowInv, u, c
<1>4. UnlinkGrowInv(p, n, Edges)
  <2>1. \A s \in SUBSET Edges : s # {} => AnyOf(s) \in s
    BY AnyOfMember
  <2> QED
    BY <1>1, <1>2, <1>3, <2>1, UnlinkGrow!FoldInv DEF UnlinkGrow!IsFiniteSet,
       IsFiniteSet
<1> QED BY <1>0, <1>4 DEF UnlinkGrowInv, n

\* So is retracting the edges that point at it.
LEMMA RetractGrows ==
  ASSUME NEW m, NEW A, NEW sources, IsFiniteSet(sources),
         \A x \in sources : x[1] \in Components, Steady(m, A)
  PROVE  LET n == Withdrawn(m, sources) IN Steady(n, A) /\ Grows(m, n)
<1> DEFINE p == [w |-> m, A |-> A]
           n == Withdrawn(m, sources)
<1>0. p.w = m /\ p.A = A
  OBVIOUS
<1>1. n = RetractGrow!Fold(p, m, sources)
  BY SMT DEF Withdrawn, FoldSet, MapThenFoldSet, RetractGrow!Fold, RetractStep, AnyOf
<1> HIDE DEF n, p
<1>2. GrowInv(p, m, {})
  BY <1>0, GrowsSelf DEF GrowInv
<1>3. ASSUME NEW v, NEW s \in SUBSET sources, s # {}, GrowInv(p, v, s \ {AnyOf(s)})
      PROVE  GrowInv(p, RetractStep(p, AnyOf(s), v), s)
  <2> DEFINE x == AnyOf(s)
             u == RetractStep(p, x, v)
  <2>1. x[1] \in Components
    BY <1>3, AnyOfMember
  <2>2. u = RemoveComponent(v, x[1], x[2], None)
    BY DEF RetractStep
  <2>3. Steady(v, A) /\ Grows(m, v)
    BY <1>0, <1>3 DEF GrowInv
  <2> HIDE DEF x, u
  <2>4. Steady(u, A) /\ Grows(v, u)
    BY <2>1, <2>2, <2>3, RemoveComponentGrows
  <2>5. Grows(m, u)
    BY <2>3, <2>4, GrowsOn
  <2> QED BY <2>4, <2>5, <1>0 DEF GrowInv, u, x
<1>4. GrowInv(p, n, sources)
  <2>1. \A s \in SUBSET sources : s # {} => AnyOf(s) \in s
    BY AnyOfMember
  <2> QED
    BY <1>1, <1>2, <1>3, <2>1, RetractGrow!FoldInv DEF RetractGrow!IsFiniteSet,
       IsFiniteSet
<1> QED BY <1>0, <1>4 DEF GrowInv, n

\* World::remove_entity: every store it leaves moves.
LEMMA RemoveEntityGrows ==
  ASSUME NEW w, NEW A, NEW e, Steady(w, A), Sound(w, {}), IsFiniteSet(Components)
  PROVE  LET n == RemoveEntity(w, e)
         IN  /\ Steady(n, A) /\ Grows(w, n)
             /\ \A c \in Components : Has(w, c, e) => Since(w, n, c, e)
<1> DEFINE types == {c \in Components : Has(w, c, e)}
           owners == {Entry(w, c, e).owner : c \in types} \ {None}
           bare == Bare(w, e, types)
           ow == {out \in bare.owned : ~(out[3] = e /\ out[2] \in types)}
           si == Restrict(bare.singletons, {c \in DOMAIN bare.singletons : bare.singletons[c] # e})
           re == bare.removedEntities \cup {e}
           ro == bare.removedOwners \cup owners
           dropped == [bare EXCEPT !.owned = ow, !.singletons = si,
                                   !.removedEntities = re, !.removedOwners = ro]
           unlinked == Unlinked(w, dropped, e)
           sources == Sources(w, e)
           n == Withdrawn(unlinked, sources)
<1>1. RemoveEntity(w, e) = n
  BY Zenon DEF RemoveEntity, Withdrawn, Unlinked, Bare, Edges, Sources
<1>2. IsFiniteSet(types) /\ IsFiniteSet(Edges) /\ types \in SUBSET Components
  BY FS_Subset, RelationTypes
<1> HIDE DEF n
<1>3. Steady(bare, A) /\ Grows(w, bare)
  BY <1>2, BareGrows
<1>b. ASSUME NEW c \in Components, Has(w, c, e) PROVE Since(w, bare, c, e)
  <2>1. Bared(w, bare, e, types)
    BY <1>2, BareAll DEF Sound
  <2>2. ~Has(bare, c, e)
    BY <1>b, <2>1 DEF Bared, Has
  <2> HIDE DEF bare
  <2> QED BY <1>3, <1>b, <2>2, SinceGone DEF SameEntry, Has
<1>4. Kept(bare, dropped)
  <2>1. bare = [f \in Fields |-> bare[f]]
    BY <1>3 DEF Steady, IsWorld, Total
  <2> HIDE DEF bare, ow, si, re, ro
  <2> QED BY <2>1 DEF Kept, Total, Fields
<1> HIDE DEF dropped, bare
<1>5. Steady(dropped, A) /\ Grows(w, dropped)
  BY <1>3, <1>4, KeptGrows, GrowsOn
<1>6. Steady(unlinked, A) /\ Grows(dropped, unlinked)
  BY <1>2, <1>5, UnlinkGrows
<1> HIDE DEF unlinked
<1>7. IsFiniteSet(sources) /\ \A x \in sources : x[1] \in Components
  <2>1. \A x : x \in sources <=> \E c \in Edges : \E s : x = <<c, s>> /\ Edge(w, c, s, e)
    BY <1>2, SourcesOf
  <2>2. IsFiniteSet(sources)
    BY <1>2, SourcesOf
  <2>3. ASSUME NEW x \in sources PROVE x[1] \in Components
    <3>1. PICK c \in Edges : \E s : x = <<c, s>>
      BY <2>1
    <3> QED BY <3>1, RelationTypes
  <2> QED BY <2>2, <2>3
<1> HIDE DEF sources
<1>8. Steady(n, A) /\ Grows(unlinked, n)
  BY <1>6, <1>7, RetractGrows DEF n
<1>9. Grows(w, unlinked)
  BY <1>5, <1>6, GrowsOn
<1>10. Grows(w, n)
  BY <1>3, <1>6, <1>8, <1>9, GrowsOn
<1>11. Grows(bare, n)
  BY <1>3, <1>4, <1>5, <1>6, <1>8, KeptGrows, GrowsOn
<1>12. \A c \in Components : Has(w, c, e) => Since(w, n, c, e)
  BY <1>3, <1>8, <1>b, <1>11, SinceOn
<1> QED BY <1>1, <1>8, <1>10, <1>12

\* World::update_component_live: the fingerprint follows the value, the revision
\* and the log follow where a tracked value changed.
LEMMA UpdateGrows ==
  ASSUME NEW w, NEW A, NEW c \in Components \ (Edges \cup Inverses), NEW e, NEW x,
         Steady(w, A), Has(w, c, e), c \in Hashed => x # None
  PROVE  LET n == UpdateComponentLive(w, c, e, x) IN Steady(n, A) /\ Grows(w, n)
<1> DEFINE old == w.entries[c][e]
           ent == [old EXCEPT !.value = x]
           st == [w.entries[c] EXCEPT ![e] = ent]
           es == [w.entries EXCEPT ![c] = st]
           mid == WriteInPlace(w, c, e, x)
           after == Fingerprint(c, x)
           changed == c \in Tracked /\ (old.fingerprint = None \/ old.fingerprint # after)
           rev == w.revision + 1
           new == [ent EXCEPT !.fingerprint = after, !.revision = IF changed THEN rev ELSE @]
           en == [es EXCEPT ![c] = Stored(st, e, new)]
           rv == IF changed THEN rev ELSE w.revision
           wm == [w.watermark EXCEPT ![c] = IF changed THEN rev ELSE @]
           ix == (w.index \ Keyed(c, old.fingerprint, e)) \cup Keyed(c, after, e)
           r == ReconcileEntry(mid, c, e)
           n == UpdateComponentLive(w, c, e, x)
<1>0. /\ w = [f \in Fields |-> w[f]] /\ IsWorld(w) /\ e \in DOMAIN w.entries[c] /\ e \in A
      /\ DOMAIN old = Columns /\ Total(w.entries[c], DOMAIN w.entries[c])
      /\ DOMAIN w.entries = Components /\ old.fingerprint = Fingerprint(c, old.value)
      /\ w.revision \in Nat /\ w.watermark \in [Components -> Nat]
      /\ \A d \in Components : Total(w.entries[d], DOMAIN w.entries[d])
  BY DEF Steady, IsWorld, Total, Has
<1>1. /\ DOMAIN st = DOMAIN w.entries[c] /\ st[e] = ent
      /\ \A f \in DOMAIN st : f # e => st[f] = w.entries[c][f]
  BY <1>0 DEF Total
<1>2. /\ DOMAIN ent = Columns /\ ent.value = x /\ ent.fingerprint = old.fingerprint
      /\ ent.revision = old.revision
  BY <1>0 DEF Columns
<1> HIDE DEF st, ent
<1>3. DOMAIN es = Components /\ es[c] = st /\ \A d \in Components : d # c => es[d] = w.entries[d]
  BY <1>0
<1>4. mid = [w EXCEPT !.entries = es]
  BY DEF WriteInPlace, es, st, ent
<1> HIDE DEF es, mid
<1>5. /\ mid = [f \in Fields |-> mid[f]]
      /\ mid.entries = es /\ mid.watermark = w.watermark /\ mid.revision = w.revision
      /\ mid.log = w.log /\ mid.next = w.next /\ mid.epoch = w.epoch /\ mid.index = w.index
  BY <1>0, <1>4 DEF Fields
<1>6. Has(mid, c, e) /\ Entry(mid, c, e) = ent
  BY <1>0, <1>1, <1>3, <1>5 DEF Has, Entry
<1>7. r = [mid EXCEPT !.entries = en, !.revision = rv, !.watermark = wm, !.index = ix]
  BY <1>2, <1>3, <1>5, <1>6 DEF ReconcileEntry
<1>8. /\ DOMAIN new = Columns /\ new.value = x /\ new.fingerprint = after
      /\ new.revision = IF changed THEN rev ELSE old.revision
  BY <1>2 DEF Columns
<1> HIDE DEF new
<1>9. /\ DOMAIN en = Components
      /\ en[c] = [f \in DOMAIN w.entries[c] |-> IF f = e THEN new ELSE w.entries[c][f]]
      /\ \A d \in Components : d # c => en[d] = w.entries[d]
  <2>1. Stored(st, e, new) = [f \in DOMAIN w.entries[c] |-> IF f = e THEN new ELSE w.entries[c][f]]
    BY <1>0, <1>1 DEF Stored
  <2> QED BY <1>3, <2>1
<1>10. Total(en, Components)
  BY <1>3 DEF Total
<1> HIDE DEF en, rv, wm, ix, r
<1>11. /\ r = [f \in Fields |-> r[f]]
       /\ r.entries = en /\ r.watermark = wm /\ r.revision = rv
       /\ r.log = w.log /\ r.next = w.next /\ r.epoch = w.epoch
  BY <1>5, <1>7 DEF Fields
<1>12. n = IF rv = w.revision THEN r ELSE Logged(r, c, e)
  BY <1>5, <1>11 DEF UpdateComponentLive, r, mid
<1>13. rv = w.revision <=> ~changed
  BY <1>0 DEF rv
<1> HIDE DEF n
<1>14. /\ n = [f \in Fields |-> n[f]]
       /\ n.entries = en /\ n.watermark = wm /\ n.revision = rv
       /\ n.log = (IF changed THEN Append(w.log, <<c, e>>) ELSE w.log)
       /\ n.next = w.next /\ n.epoch = w.epoch
  BY <1>11, <1>12, <1>13 DEF Logged, Fields
<1>15. /\ Total(n.entries, Components) /\ n.entries[c][e] = new
       /\ e \in DOMAIN n.entries[c] /\ Elsewhere(w, n, c, e)
  <2>1. \A d \in Components : Total(n.entries[d], DOMAIN n.entries[d])
    BY <1>0, <1>9, <1>14 DEF Total
  <2>2. ASSUME NEW d \in Components, NEW f, ~(d = c /\ f = e)
        PROVE  /\ f \in DOMAIN n.entries[d] <=> f \in DOMAIN w.entries[d]
               /\ f \in DOMAIN n.entries[d] => n.entries[d][f] = w.entries[d][f]
    BY <1>9, <1>14, <2>2
  <2> QED BY <1>0, <1>9, <1>10, <1>14, <2>1, <2>2 DEF Elsewhere
<1>16. ~changed /\ c \in Tracked => x = old.value
  BY <1>0 DEF Fingerprint
<1>17. wm = IF changed THEN [w.watermark EXCEPT ![c] = w.revision + 1] ELSE w.watermark
  BY <1>0 DEF wm, rev
<1> HIDE DEF old, changed
<1>18. Touched(w, n, c, e)
  <2>1. Total(n, Fields)
    BY <1>14 DEF Total
  <2>2. CASE changed
    BY <1>8, <1>14, <1>15, <1>17, <2>1, <2>2 DEF Touched, rv, rev
  <2>3. CASE ~changed
    BY <1>0, <1>8, <1>14, <1>15, <1>16, <1>17, <2>1, <2>3 DEF Touched, rv, old
  <2> QED BY <2>2, <2>3
<1>19. Fits(n, c, e, A)
  BY <1>8, <1>15 DEF Fits, after
<1> QED BY <1>0, <1>18, <1>19, TouchedSteady, TouchedGrows DEF n

\* World::update_component_live of a plain type keeps the indexes exact.
LEMMA UpdateSound ==
  ASSUME NEW w, NEW c \in Components \ (Edges \cup Inverses), NEW e, NEW x, Sound(w, {})
  PROVE  Sound(UpdateComponentLive(w, c, e, x), {})
  BY WriteInPlaceSound, ReconcileEntrySound, LoggedSound DEF UpdateComponentLive
=============================================================================
