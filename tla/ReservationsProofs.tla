------------------------- MODULE ReservationsProofs -------------------------
(***************************************************************************)
(* Reservations is correct for any number of invocations, rows and slots   *)
(* and for any access lists, and it implements the pairwise rule.          *)
(*                                                                         *)
(* The heart is CountsExact: a counter is the number of tokens, the pairs  *)
(* of a slot and a position in its access list, that it stands for.        *)
(***************************************************************************)
EXTENDS Reservations, FiniteSetTheorems, SequenceTheorems, TLAPS

\* The positions of a slot's list that hold an access of P.
SlotTokens(s, accs, P) == {s} \X {i \in DOMAIN accs : accs[i] \in P}

TokensOf(f, P) == UNION {SlotTokens(s, f[s].accesses, P) : s \in SlotIds}

CountsExact ==
    /\ IsFiniteSet(TokensOf(slots, Access))
    /\ \A c \in Components, k \in Kinds :
          total[c][k] = Cardinality(TokensOf(slots, OfKind(c, k)))
    /\ \A a \in Access : reserved[a] = Cardinality(TokensOf(slots, {a}))

EmptySlots == \A s \in SlotIds : slots[s].owner = NoOwner => slots[s].accesses = <<>>

\* A slot has moved past its retired ids, or it is used up for good.
RetiredBehind ==
    \A id \in retired :
        /\ id.slot \in SlotIds /\ id.slot <= used
        /\ \/ id.generation < slots[id.slot].generation
           \/ id.slot \notin Live /\ \A i \in DOMAIN free : free[i] # id.slot

LedgerTypes ==
    /\ owners \in [Owners -> RunId]
    /\ slots \in [SlotIds -> Slot]
    /\ used \in 0..MaxSlots
    /\ free \in Seq(SlotIds)
    /\ retired \subseteq RunId

CounterTypes == total \in [Components -> [Kinds -> Nat]] /\ reserved \in [Access -> Nat]

QueueTypes ==
    /\ readRuns \subseteq RunId /\ writeRuns \subseteq RunId
    /\ mode \in {"running", "cancel", "drain"}

Ledger == LedgerTypes /\ EmptySlots /\ OwnersIndexed /\ FreeListSound /\ RetiredBehind
Index == CounterTypes /\ CountsExact
\* While the readers are cancelled, their queue is gone.
ReadersDropped == mode = "cancel" => readRuns = {}

IInv == /\ Ledger /\ Index
        /\ QueueTypes /\ ReadersDropped /\ CompletionsValid
        /\ AdmittedNeverConflict

-----------------------------------------------------------------------------
(* Counting.                                                               *)

\* A list has as many tokens in P as it has positions in P.
LEMMA SlotCount ==
  ASSUME NEW s, NEW S, NEW accs \in Seq(S), NEW P
  PROVE  /\ IsFiniteSet(SlotTokens(s, accs, P))
         /\ Cardinality(SlotTokens(s, accs, P)) = Count(accs, P)
         /\ Count(accs, P) \in Nat
<1> DEFINE I == {i \in DOMAIN accs : accs[i] \in P}
<1>1. DOMAIN accs = 1..Len(accs) /\ Len(accs) \in Nat
  BY LenProperties
<1>2. IsFiniteSet(I)
  <2>1. IsFiniteSet(1..Len(accs))
    BY <1>1, FS_Interval
  <2>2. I \in SUBSET (1..Len(accs))
    BY <1>1
  <2> QED BY <2>1, <2>2, FS_Subset
<1>3. IsFiniteSet({s}) /\ Cardinality({s}) = 1
  BY FS_Singleton
<1>4. Cardinality(I) \in Nat
  BY <1>2, FS_CardinalityType
<1> HIDE DEF I
<1>5. IsFiniteSet({s} \X I) /\ Cardinality({s} \X I) = Cardinality(I)
  BY <1>2, <1>3, <1>4, FS_Product
<1> QED BY <1>4, <1>5 DEF I, Count, SlotTokens

\* g is f with a list written into slot s, which had none.
Fills(f, g, s) ==
    /\ s \in SlotIds
    /\ f[s].accesses = <<>> /\ g[s].accesses \in Seq(Access)
    /\ \A t \in SlotIds : t # s => g[t].accesses = f[t].accesses

\* Writing a list into a slot without one adds its tokens.
LEMMA TokenAdd ==
  ASSUME NEW f, NEW g, NEW s, NEW P, Fills(f, g, s)
  PROVE  /\ IsFiniteSet(TokensOf(f, P)) <=> IsFiniteSet(TokensOf(g, P))
         /\ IsFiniteSet(TokensOf(f, P)) =>
               /\ Cardinality(TokensOf(f, P)) \in Nat
               /\ Cardinality(TokensOf(g, P)) =
                     Cardinality(TokensOf(f, P)) + Count(g[s].accesses, P)
<1> DEFINE new == SlotTokens(s, g[s].accesses, P)
           F == TokensOf(f, P)
<1>0. /\ s \in SlotIds
      /\ f[s].accesses = <<>> /\ g[s].accesses \in Seq(Access)
      /\ \A t \in SlotIds : t # s => g[t].accesses = f[t].accesses
  BY DEF Fills
<1>1. /\ IsFiniteSet(new)
      /\ Cardinality(new) = Count(g[s].accesses, P)
      /\ Count(g[s].accesses, P) \in Nat
  BY <1>0, SlotCount
<1>2. SlotTokens(s, f[s].accesses, P) = {}
  BY <1>0 DEF SlotTokens
<1>3. TokensOf(g, P) = F \cup new
  BY <1>0, <1>2 DEF TokensOf
<1>4. F \cap new = {}
  BY <1>0 DEF TokensOf, SlotTokens
<1> HIDE DEF new, F
<1>5. ASSUME IsFiniteSet(F)
      PROVE  /\ IsFiniteSet(F \cup new) /\ Cardinality(F) \in Nat
             /\ Cardinality(F \cup new) = Cardinality(F) + Cardinality(new)
  <2>1. /\ IsFiniteSet(F \cup new)
        /\ Cardinality(F \cup new) = Cardinality(F) + Cardinality(new) - Cardinality(F \cap new)
    BY <1>1, <1>5, FS_Union
  <2>2. Cardinality(F) \in Nat /\ Cardinality(new) \in Nat
    BY <1>1, <1>5, FS_CardinalityType
  <2>3. Cardinality(F \cap new) = 0
    BY <1>4, FS_EmptySet
  <2> QED BY <2>1, <2>2, <2>3
<1>6. ASSUME IsFiniteSet(F \cup new) PROVE IsFiniteSet(F)
  BY <1>6, F \in SUBSET (F \cup new), FS_Subset
<1> QED BY <1>1, <1>3, <1>5, <1>6 DEF F

\* A counter is not zero exactly if some record holds such an access.
LEMMA TokenExists ==
  ASSUME Ledger, CountsExact, NEW P \in SUBSET Access
  PROVE  Cardinality(TokensOf(slots, P)) # 0
            <=> \E s \in Live : \E b \in AccessesOf(s) : b \in P
<1>1. TokensOf(slots, P) \subseteq TokensOf(slots, Access)
  BY DEF TokensOf, SlotTokens
<1>2. IsFiniteSet(TokensOf(slots, P))
  BY <1>1, FS_Subset DEF CountsExact
<1>3. Cardinality(TokensOf(slots, P)) # 0 <=> TokensOf(slots, P) # {}
  BY <1>2, FS_EmptySet
<1>4. TokensOf(slots, P) # {} <=> \E s \in SlotIds : \E i \in DOMAIN slots[s].accesses :
                                      slots[s].accesses[i] \in P
  <2>1. ASSUME NEW s \in SlotIds, NEW i \in DOMAIN slots[s].accesses,
               slots[s].accesses[i] \in P
        PROVE  <<s, i>> \in TokensOf(slots, P)
    BY <2>1 DEF TokensOf, SlotTokens
  <2>2. ASSUME NEW x \in TokensOf(slots, P)
        PROVE  \E s \in SlotIds : \E i \in DOMAIN slots[s].accesses : slots[s].accesses[i] \in P
    BY <2>2 DEF TokensOf, SlotTokens
  <2> QED BY <2>1, <2>2
<1>5. \A s \in SlotIds : s \notin Live => DOMAIN slots[s].accesses = {}
  BY DEF Ledger, EmptySlots, Live
<1> QED BY <1>3, <1>4, <1>5 DEF AccessesOf, Live
\* The lists in the slots consist of accesses.
LEMMA AccessTypes ==
  ASSUME LedgerTypes, NEW s \in SlotIds
  PROVE  slots[s].accesses \in Seq(Access) /\ AccessesOf(s) \subseteq Access
<1>1. slots[s].accesses \in Seq(Access)
  BY DEF LedgerTypes, Slot
<1> QED BY <1>1, ElementOfSeq, LenProperties DEF AccessesOf

\* The counters answer what the pairwise rule would.
LEMMA IndexOracle ==
  ASSUME Ledger, Index
  PROVE  IndexMatchesOracle
<1>1. \A c \in Components, k \in Kinds :
         total[c][k] # 0 <=>
            \E s \in Live : \E b \in AccessesOf(s) : b.component = c /\ b.kind = k
  <2> SUFFICES ASSUME NEW c \in Components, NEW k \in Kinds
               PROVE  total[c][k] # 0 <=>
                         \E s \in Live : \E b \in AccessesOf(s) : b.component = c /\ b.kind = k
    OBVIOUS
  <2>1. total[c][k] = Cardinality(TokensOf(slots, OfKind(c, k)))
    BY DEF Index, CountsExact
  <2>2. OfKind(c, k) \in SUBSET Access
    BY DEF OfKind
  <2>3. total[c][k] # 0 <=> \E s \in Live : \E b \in AccessesOf(s) : b \in OfKind(c, k)
    BY <2>1, <2>2, TokenExists DEF Index
  <2>4. \A s \in Live : AccessesOf(s) \subseteq Access
    BY AccessTypes DEF Ledger, Live
  <2> QED BY <2>3, <2>4 DEF OfKind
<1>2. \A a \in Access : reserved[a] # 0 <=> \E s \in Live : a \in AccessesOf(s)
  <2> SUFFICES ASSUME NEW a \in Access
               PROVE  reserved[a] # 0 <=> \E s \in Live : a \in AccessesOf(s)
    OBVIOUS
  <2>1. reserved[a] = Cardinality(TokensOf(slots, {a}))
    BY DEF Index, CountsExact
  <2>2. reserved[a] # 0 <=> \E s \in Live : \E b \in AccessesOf(s) : b \in {a}
    BY <2>1, TokenExists DEF Index
  <2> QED BY <2>2
<1>3. \A s \in Live : AccessesOf(s) \subseteq Access
  BY AccessTypes DEF Ledger, Live
<1> SUFFICES ASSUME NEW a \in Access
             PROVE  Conflicts(a) <=> \E s \in Live : \E b \in AccessesOf(s) : RL!Conflict(a, b)
  BY DEF IndexMatchesOracle
<1>4. /\ a.component \in Components /\ a.entity \in Entities \cup {Whole}
      /\ a.kind \in {"Read", "Write"} /\ Kinds = {"Read", "Write"}
  BY DEF Access, RL!Access, Kinds, RL!Kinds
<1>5. \A b \in Access : /\ b.component \in Components /\ b.entity \in Entities \cup {Whole}
                        /\ b.kind \in {"Read", "Write"}
                        /\ b = Row(b.component, b.entity, b.kind)
  BY DEF Access, RL!Access, RL!Kinds, Row
<1>6. \A e \in Entities \cup {Whole}, k \in {"Read", "Write"} :
         /\ Row(a.component, e, k) \in Access
         /\ Row(a.component, e, k).component = a.component
         /\ Row(a.component, e, k).entity = e
         /\ Row(a.component, e, k).kind = k
  BY <1>4 DEF Access, RL!Access, RL!Kinds, Row
<1>7. CASE a.entity = Whole
  BY <1>1, <1>3, <1>4, <1>5, <1>7 DEF Conflicts, CountsConflict, RL!Conflict
<1>8. CASE a.entity # Whole
  <2>1. Conflicts(a) <=> \E e \in {Whole, a.entity} : RowConflicts(a.component, e, a.kind)
    BY <1>8 DEF Conflicts
  <2>2. \A e \in Entities \cup {Whole} :
           RowConflicts(a.component, e, a.kind) <=>
              \E k \in {"Read", "Write"} :
                 /\ a.kind = "Write" \/ k = "Write"
                 /\ \E s \in Live : Row(a.component, e, k) \in AccessesOf(s)
    BY <1>2, <1>4, <1>6 DEF RowConflicts, CountsConflict
  <2>3. ASSUME Conflicts(a)
        PROVE  \E s \in Live : \E b \in AccessesOf(s) : RL!Conflict(a, b)
    BY <1>4, <1>6, <2>1, <2>2, <2>3 DEF RL!Conflict
  <2>4. ASSUME NEW s \in Live, NEW b \in AccessesOf(s), RL!Conflict(a, b)
        PROVE  Conflicts(a)
    <3>1. b \in Access /\ b = Row(a.component, b.entity, b.kind)
      BY <1>3, <1>5, <2>4 DEF RL!Conflict
    <3>2. b.entity \in {Whole, a.entity} /\ (a.kind = "Write" \/ b.kind = "Write")
      BY <1>8, <2>4 DEF RL!Conflict
    <3> QED BY <1>4, <1>5, <2>1, <2>2, <3>1, <3>2
  <2> QED BY <2>3, <2>4
<1> QED BY <1>7, <1>8

-----------------------------------------------------------------------------
(* Reservations::remove.                                                   *)

\* What Release does to the slots.
LEMMA ReleaseSlots ==
  ASSUME Ledger, NEW s \in Live, Release(s)
  PROVE  /\ slots' \in [SlotIds -> Slot]
         /\ slots'[s].owner = NoOwner /\ slots'[s].accesses = <<>>
         /\ slots'[s].generation =
               IF slots[s].generation < MaxGeneration THEN slots[s].generation + 1
               ELSE slots[s].generation
         /\ \A t \in SlotIds : t # s => slots'[t] = slots[t]
         /\ Live' = Live \ {s}
         /\ s \in SlotIds /\ s <= used /\ \A i \in DOMAIN free : free[i] # s
<1>1. s \in SlotIds /\ slots[s].owner # NoOwner /\ slots \in [SlotIds -> Slot]
  BY DEF Live, Ledger, LedgerTypes
<1>2. slots[s].generation \in 0..MaxGeneration
  BY <1>1 DEF Slot
<1> DEFINE g == IF slots[s].generation < MaxGeneration THEN slots[s].generation + 1
                ELSE slots[s].generation
           fresh == [generation |-> g, owner |-> NoOwner, accesses |-> <<>>]
<1>3. slots' = [slots EXCEPT ![s] = fresh]
  <2>1. [FreshSlot EXCEPT !.generation = g] = fresh
    BY DEF FreshSlot
  <2>2. slots' = [slots EXCEPT ![s] = [FreshSlot EXCEPT !.generation = g]]
    BY DEF Release, RetireSlot
  <2> QED BY <2>1, <2>2
<1>4. fresh \in Slot
  BY <1>2, SlotsAssumption, EmptySeq DEF Slot
<1>5. s <= used
  BY <1>1, SlotsAssumption DEF Ledger, FreeListSound, FreshSlot, LedgerTypes, SlotIds
<1>6. \A i \in DOMAIN free : free[i] # s
  BY DEF Ledger, FreeListSound
<1>7. /\ slots' \in [SlotIds -> Slot] /\ slots'[s] = fresh
      /\ \A t \in SlotIds : t # s => slots'[t] = slots[t]
  BY <1>1, <1>3, <1>4
<1>8. Live' = Live \ {s}
  BY <1>7, <1>1 DEF Live
<1> QED BY <1>1, <1>5, <1>6, <1>7, <1>8

\* Release keeps the records, the key index, the free stack and the ids.
LEMMA ReleaseLedger ==
  ASSUME Ledger, NEW s \in Live, Release(s)
  PROVE  Ledger'
<1>0. /\ slots' \in [SlotIds -> Slot]
      /\ slots'[s].owner = NoOwner /\ slots'[s].accesses = <<>>
      /\ slots'[s].generation =
            IF slots[s].generation < MaxGeneration THEN slots[s].generation + 1
            ELSE slots[s].generation
      /\ \A t \in SlotIds : t # s => slots'[t] = slots[t]
      /\ Live' = Live \ {s}
      /\ s \in SlotIds /\ s <= used /\ \A i \in DOMAIN free : free[i] # s
  BY ReleaseSlots
<1>a. slots[s] \in Slot /\ slots[s].generation \in 0..MaxGeneration /\ slots[s].owner \in Owners
  BY <1>0 DEF Ledger, LedgerTypes, Slot, Live
<1>b. owners' = [owners EXCEPT ![slots[s].owner] = NoRun]
      /\ used' = used /\ retired' = retired \cup {IdOf(s)}
  BY DEF Release
<1>c. free \in Seq(SlotIds) /\ free' \in {free, Append(free, s)}
      /\ (slots[s].generation >= MaxGeneration => free' = free)
  BY <1>a, SlotsAssumption DEF Ledger, LedgerTypes, Release, RetireSlot
<1>1. LedgerTypes'
  <2>1. NoRun \in RunId /\ IdOf(s) \in RunId
    BY <1>0, <1>a, SlotsAssumption DEF NoRun, RunId, IdOf, SlotIds
  <2>2. free' \in Seq(SlotIds)
    BY <1>0, <1>c
  <2> QED BY <1>0, <1>b, <2>1, <2>2 DEF Ledger, LedgerTypes
<1>2. EmptySlots'
  BY <1>0 DEF Ledger, EmptySlots
<1>3. OwnersIndexed'
  <2>1. owners[slots[s].owner] = IdOf(s)
    BY DEF Ledger, OwnersIndexed
  <2>2. ASSUME NEW o \in Owners, owners'[o] # NoRun
        PROVE  /\ o # slots[s].owner /\ owners'[o] = owners[o]
               /\ owners[o].slot \in Live /\ owners[o].slot # s
               /\ owners[o].generation = slots[owners[o].slot].generation
               /\ slots[owners[o].slot].owner = o
    BY <1>a, <1>b, <2>2 DEF Ledger, LedgerTypes, OwnersIndexed, Holding, Contains
  <2>3. ASSUME NEW t \in Live'
        PROVE  owners'[slots'[t].owner] = IdOf(t)'
    <3>1. t \in Live /\ t # s /\ t \in SlotIds /\ slots'[t] = slots[t]
      BY <1>0 DEF Live
    <3>2. owners[slots[t].owner] = IdOf(t) /\ IdOf(t)' = IdOf(t)
      BY <3>1 DEF Ledger, OwnersIndexed, IdOf
    <3>3. slots[t].owner # slots[s].owner
      BY <2>1, <3>1, <3>2 DEF IdOf
    <3>4. slots[t].owner \in Owners
      BY <3>1 DEF Ledger, LedgerTypes, Slot, Live
    <3> QED BY <1>b, <3>1, <3>2, <3>3, <3>4 DEF Ledger, LedgerTypes
  <2>4. \A o \in Holding' : Contains(owners[o])' /\ slots'[owners'[o].slot].owner = o
    BY <1>0, <2>2 DEF Holding, Contains, Live
  <2> QED BY <2>3, <2>4 DEF OwnersIndexed
<1>4. FreeListSound'
  <2>1. \A t \in SlotIds : t > used' => slots'[t] = FreshSlot
    BY <1>0, <1>b DEF Ledger, LedgerTypes, FreeListSound, SlotIds
  <2>2. CASE free' = free
    BY <1>0, <1>b, <2>1, <2>2 DEF Ledger, FreeListSound
  <2>3. CASE free' = Append(free, s)
    <3>1. /\ DOMAIN free' = 1..(Len(free) + 1) /\ Len(free) \in Nat
          /\ DOMAIN free = 1..Len(free)
          /\ free'[Len(free) + 1] = s
          /\ \A i \in 1..Len(free) : free'[i] = free[i]
      BY <1>c, <1>0, <2>3
    <3>2. \A i \in DOMAIN free' : free'[i] <= used' /\ free'[i] \notin Live'
      BY <1>0, <1>b, <3>1 DEF Ledger, FreeListSound
    <3>3. \A i, j \in DOMAIN free' : free'[i] = free'[j] => i = j
      BY <1>0, <3>1 DEF Ledger, FreeListSound
    <3> QED BY <2>1, <3>2, <3>3 DEF FreeListSound
  <2> QED BY <1>c, <2>2, <2>3
<1>5. RetiredBehind'
  <2> SUFFICES ASSUME NEW id \in retired'
               PROVE  /\ id.slot \in SlotIds /\ id.slot <= used
                      /\ \/ id.generation < slots'[id.slot].generation
                         \/ id.slot \notin Live' /\ \A i \in DOMAIN free' : free'[i] # id.slot
    BY <1>b DEF RetiredBehind
  <2>1. CASE id = IdOf(s)
    <3>1. id.slot = s /\ id.generation = slots[s].generation
      BY <2>1 DEF IdOf
    <3>2. CASE slots[s].generation < MaxGeneration
      BY <1>0, <1>a, <3>1, <3>2, SlotsAssumption
    <3>3. CASE slots[s].generation >= MaxGeneration
      BY <1>0, <1>c, <3>1, <3>3
    <3> QED BY <1>a, <3>2, <3>3, SlotsAssumption
  <2>2. CASE id \in retired /\ id.slot # s
    <3>1. \A i \in DOMAIN free' : free'[i] = s \/ \E j \in DOMAIN free : free'[i] = free[j]
      BY <1>c, <1>0
    <3> QED BY <1>0, <2>2, <3>1 DEF Ledger, RetiredBehind
  <2>3. CASE id \in retired /\ id.slot = s
    <3>1. id.generation < slots[s].generation
      BY <2>3 DEF Ledger, RetiredBehind
    <3>2. id.generation \in Nat
      BY <2>3 DEF Ledger, LedgerTypes, RunId
    <3> QED BY <1>0, <1>a, <2>3, <3>1, <3>2, SlotsAssumption
  <2> QED BY <1>b, <2>1, <2>2, <2>3
<1> QED BY <1>1, <1>2, <1>3, <1>4, <1>5 DEF Ledger

\* Release keeps the counters exact, and therefore at or above zero.
LEMMA ReleaseIndex ==
  ASSUME Ledger, Index, NEW s \in Live, Release(s)
  PROVE  Index'
<1>0. /\ s \in SlotIds /\ slots'[s].accesses = <<>>
      /\ \A t \in SlotIds : t # s => slots[t].accesses = slots'[t].accesses
      /\ slots[s].accesses \in Seq(Access)
  BY ReleaseSlots, AccessTypes DEF Ledger
<1> DEFINE accs == slots[s].accesses
<1>1. \A P : /\ IsFiniteSet(TokensOf(slots', P)) <=> IsFiniteSet(TokensOf(slots, P))
             /\ IsFiniteSet(TokensOf(slots', P)) =>
                   /\ Cardinality(TokensOf(slots', P)) \in Nat
                   /\ Cardinality(TokensOf(slots, P)) =
                         Cardinality(TokensOf(slots', P)) + Count(accs, P)
  <2>1. Fills(slots', slots, s)
    BY <1>0 DEF Fills
  <2> QED BY <2>1, TokenAdd
<1>2. \A P \in SUBSET Access : IsFiniteSet(TokensOf(slots, P))
  <2>1. \A P \in SUBSET Access : TokensOf(slots, P) \in SUBSET TokensOf(slots, Access)
    BY DEF TokensOf, SlotTokens
  <2> QED BY <2>1, FS_Subset DEF Index, CountsExact
<1>3. \A P : Count(accs, P) \in Nat
  BY <1>0, SlotCount
<1>4. \A P \in SUBSET Access :
         /\ Cardinality(TokensOf(slots', P)) \in Nat
         /\ Cardinality(TokensOf(slots', P)) = Cardinality(TokensOf(slots, P)) - Count(accs, P)
  BY <1>1, <1>2, <1>3
<1>5. \A c \in Components, k \in Kinds :
         total'[c][k] = Cardinality(TokensOf(slots', OfKind(c, k)))
  BY <1>4 DEF Release, RemoveAll, OfKind, Index, CountsExact
<1>6. \A a \in Access : reserved'[a] = Cardinality(TokensOf(slots', {a}))
  BY <1>4 DEF Release, RemoveAll, Index, CountsExact
<1>7. IsFiniteSet(TokensOf(slots', Access))
  BY <1>1, <1>2
<1>8. CounterTypes'
  <2>1. /\ total' = [c \in Components |-> [k \in Kinds |-> total[c][k] - Count(accs, OfKind(c, k))]]
        /\ reserved' = [a \in Access |-> reserved[a] - Count(accs, {a})]
    BY DEF Release, RemoveAll
  <2>2. \A c \in Components, k \in Kinds : total[c][k] - Count(accs, OfKind(c, k)) \in Nat
    BY <1>4, <1>5, <2>1 DEF OfKind
  <2>3. \A a \in Access : reserved[a] - Count(accs, {a}) \in Nat
    BY <1>4, <1>6, <2>1
  <2> QED BY <2>1, <2>2, <2>3 DEF CounterTypes
<1> QED BY <1>5, <1>6, <1>7, <1>8 DEF Index, CountsExact

-----------------------------------------------------------------------------
(* Reservations::admit.                                                    *)

\* An admission into slot s, without the counters and the queues.
Placed(o, accs, s) ==
    /\ owners[o] = NoRun
    /\ TakeSlot(s)
    /\ slots' = [slots EXCEPT ![s].owner = o, ![s].accesses = accs]
    /\ owners' = [owners EXCEPT ![o] = IdOf(s)]
    /\ UNCHANGED retired

\* The slot is empty, and none of its retired ids has its generation.
LEMMA PlacedSlot ==
  ASSUME Ledger, NEW o \in Owners, NEW accs \in Seq(Access), NEW s \in SlotIds,
         Placed(o, accs, s)
  PROVE  /\ s \notin Live /\ s <= used' /\ used <= used' /\ used' \in 0..MaxSlots
         /\ free' \in Seq(SlotIds)
         /\ \A i \in DOMAIN free' : i \in DOMAIN free /\ free'[i] = free[i] /\ free'[i] # s
         /\ \A id \in retired : id.slot = s => id.generation < slots[s].generation
         /\ slots' \in [SlotIds -> Slot]
         /\ slots'[s] = [generation |-> slots[s].generation, owner |-> o, accesses |-> accs]
         /\ \A t \in SlotIds : t # s => slots'[t] = slots[t]
         /\ Live' = Live \cup {s}
<1>1. /\ slots \in [SlotIds -> Slot] /\ used \in 0..MaxSlots /\ free \in Seq(SlotIds)
      /\ FreeListSound /\ RetiredBehind
  BY DEF Ledger, LedgerTypes
<1>2. /\ s \notin Live /\ s <= used' /\ used <= used' /\ used' \in 0..MaxSlots
      /\ free' \in Seq(SlotIds)
      /\ \A i \in DOMAIN free' : i \in DOMAIN free /\ free'[i] = free[i] /\ free'[i] # s
      /\ \A id \in retired : id.slot = s => id.generation < slots[s].generation
  <2>1. CASE free # <<>>
    <3>1. /\ s = free[Len(free)] /\ free' = SubSeq(free, 1, Len(free) - 1) /\ used' = used
      BY <2>1 DEF Placed, TakeSlot
    <3>2. /\ Len(free) \in Nat /\ Len(free) > 0 /\ DOMAIN free = 1..Len(free)
      BY <1>1, <2>1
    <3>3. /\ free' \in Seq(SlotIds) /\ DOMAIN free' = 1..(Len(free) - 1)
          /\ \A i \in 1..(Len(free) - 1) : free'[i] = free[i]
      BY <1>1, <3>1, <3>2
    <3>4. \A i \in DOMAIN free' : i \in DOMAIN free /\ free'[i] = free[i] /\ free'[i] # s
      BY <1>1, <3>1, <3>2, <3>3 DEF FreeListSound
    <3>5. s \notin Live /\ s <= used /\ \E i \in DOMAIN free : free[i] = s
      BY <1>1, <3>1, <3>2 DEF FreeListSound
    <3>6. \A id \in retired : id.slot = s => id.generation < slots[s].generation
      BY <1>1, <3>5 DEF RetiredBehind
    <3> QED BY <1>1, <3>1, <3>3, <3>4, <3>5, <3>6
  <2>2. CASE free = <<>>
    <3>1. s = used + 1 /\ used < MaxSlots /\ used' = s /\ free' = free
      BY <2>2 DEF Placed, TakeSlot
    <3>2. slots[s] = FreshSlot
      BY <1>1, <3>1, SlotsAssumption DEF FreeListSound
    <3>3. s \notin Live
      BY <3>2 DEF Live, FreshSlot
    <3>4. \A id \in retired : id.slot # s
      BY <1>1, <3>1, SlotsAssumption DEF RetiredBehind
    <3> QED BY <1>1, <2>2, <3>1, <3>3, <3>4, SlotsAssumption
  <2> QED BY <2>1, <2>2
<1>3. /\ slots'[s] = [generation |-> slots[s].generation, owner |-> o, accesses |-> accs]
      /\ \A t \in SlotIds : t # s => slots'[t] = slots[t]
      /\ slots' \in [SlotIds -> Slot]
  <2>1. slots[s] = [generation |-> slots[s].generation, owner |-> slots[s].owner,
                    accesses |-> slots[s].accesses]
    BY <1>1 DEF Slot
  <2>2. slots' = [slots EXCEPT ![s].owner = o, ![s].accesses = accs]
    BY DEF Placed
  <2>3. /\ slots'[s] = [generation |-> slots[s].generation, owner |-> o, accesses |-> accs]
        /\ \A t \in SlotIds : t # s => slots'[t] = slots[t]
    BY <1>1, <2>1, <2>2
  <2>4. slots'[s] \in Slot
    BY <1>1, <2>3 DEF Slot
  <2>5. slots' = [t \in SlotIds |-> slots'[t]]
    BY <1>1, <2>2
  <2> QED BY <1>1, <2>3, <2>4, <2>5
<1>4. Live' = Live \cup {s}
  BY <1>3, SlotsAssumption DEF Live
<1> QED BY <1>2, <1>3, <1>4

\* Admission keeps the records, the key index, the free stack and the ids.
LEMMA PlacedLedger ==
  ASSUME Ledger, NEW o \in Owners, NEW accs \in Seq(Access), NEW s \in SlotIds,
         Placed(o, accs, s)
  PROVE  Ledger'
<1>0. /\ s \notin Live /\ s <= used' /\ used <= used' /\ used' \in 0..MaxSlots
      /\ free' \in Seq(SlotIds)
      /\ \A i \in DOMAIN free' : i \in DOMAIN free /\ free'[i] = free[i] /\ free'[i] # s
      /\ \A id \in retired : id.slot = s => id.generation < slots[s].generation
      /\ slots' \in [SlotIds -> Slot]
      /\ slots'[s] = [generation |-> slots[s].generation, owner |-> o, accesses |-> accs]
      /\ \A t \in SlotIds : t # s => slots'[t] = slots[t]
      /\ Live' = Live \cup {s}
  BY PlacedSlot
<1>a. owners[o] = NoRun /\ owners' = [owners EXCEPT ![o] = IdOf(s)] /\ retired' = retired
  BY DEF Placed
<1>b. IdOf(s) \in RunId /\ IdOf(s) # NoRun /\ IdOf(s).slot = s
      /\ IdOf(s).generation = slots[s].generation
  BY SlotsAssumption DEF Ledger, LedgerTypes, Slot, IdOf, RunId, NoRun, SlotIds
<1>1. LedgerTypes'
  BY <1>0, <1>a, <1>b DEF Ledger, LedgerTypes
<1>2. EmptySlots'
  BY <1>0, SlotsAssumption DEF Ledger, EmptySlots
<1>3. OwnersIndexed'
  <2>1. ASSUME NEW p \in Holding'
        PROVE  Contains(owners[p])' /\ slots'[owners'[p].slot].owner = p
    <3>1. CASE p = o
      BY <1>0, <1>a, <1>b, <3>1 DEF Ledger, LedgerTypes, Contains
    <3>2. CASE p # o
      <4>1. p \in Holding /\ owners'[p] = owners[p]
        BY <1>a, <2>1, <3>2 DEF Holding, Ledger, LedgerTypes
      <4>2. owners[p].slot \in Live /\ owners[p].slot \in SlotIds
        BY <4>1 DEF Ledger, OwnersIndexed, Contains, Live
      <4> QED BY <1>0, <4>1, <4>2 DEF Ledger, OwnersIndexed, Contains
    <3> QED BY <3>1, <3>2
  <2>2. ASSUME NEW t \in Live'
        PROVE  owners'[slots'[t].owner] = IdOf(t)'
    <3>1. CASE t = s
      BY <1>0, <1>a, <3>1 DEF Ledger, LedgerTypes, IdOf
    <3>2. CASE t # s
      <4>1. t \in Live /\ t \in SlotIds /\ slots'[t] = slots[t]
        BY <1>0, <2>2, <3>2 DEF Live
      <4>2. owners[slots[t].owner] = IdOf(t) /\ IdOf(t) # NoRun /\ IdOf(t)' = IdOf(t)
        BY <4>1 DEF Ledger, OwnersIndexed, IdOf, NoRun, SlotIds
      <4> QED BY <1>a, <4>1, <4>2 DEF Ledger, LedgerTypes
    <3> QED BY <3>1, <3>2
  <2> QED BY <2>1, <2>2 DEF OwnersIndexed
<1>4. FreeListSound'
  <2>0. used \in Nat /\ used' \in Nat /\ \A t \in SlotIds : t \in Nat
    BY <1>0, SlotsAssumption DEF Ledger, LedgerTypes, SlotIds
  <2>1. \A i \in DOMAIN free' : free'[i] <= used' /\ free'[i] \notin Live'
    <3> SUFFICES ASSUME NEW i \in DOMAIN free'
                 PROVE  free'[i] <= used' /\ free'[i] \notin Live'
      OBVIOUS
    <3>1. free'[i] = free[i] /\ i \in DOMAIN free /\ free'[i] # s
      BY <1>0
    <3>2. free[i] <= used /\ free[i] \notin Live
      BY <3>1 DEF Ledger, FreeListSound
    <3>3. free[i] \in SlotIds
      BY <3>1, ElementOfSeq, LenProperties DEF Ledger, LedgerTypes
    <3> QED BY <1>0, <2>0, <3>1, <3>2, <3>3
  <2>2. \A i, j \in DOMAIN free' : free'[i] = free'[j] => i = j
    BY <1>0 DEF Ledger, FreeListSound
  <2>3. ASSUME NEW t \in SlotIds, t > used' PROVE slots'[t] = FreshSlot
    <3>1. t # s /\ t > used
      BY <1>0, <2>0, <2>3
    <3> QED BY <1>0, <3>1 DEF Ledger, FreeListSound
  <2> QED BY <2>1, <2>2, <2>3 DEF FreeListSound
<1>5. RetiredBehind'
  <2> SUFFICES ASSUME NEW id \in retired
               PROVE  /\ id.slot \in SlotIds /\ id.slot <= used'
                      /\ \/ id.generation < slots'[id.slot].generation
                         \/ id.slot \notin Live' /\ \A i \in DOMAIN free' : free'[i] # id.slot
    BY <1>a DEF RetiredBehind
  <2>1. id.slot \in SlotIds /\ id.slot <= used'
    BY <1>0, SlotsAssumption DEF Ledger, LedgerTypes, RetiredBehind, SlotIds
  <2>2. CASE id.slot = s
    BY <1>0, <2>1, <2>2
  <2>3. CASE id.slot # s
    BY <1>0, <2>1, <2>3 DEF Ledger, RetiredBehind
  <2> QED BY <2>1, <2>2, <2>3
<1> QED BY <1>1, <1>2, <1>3, <1>4, <1>5 DEF Ledger

\* Admission keeps the counters exact.
LEMMA PlacedIndex ==
  ASSUME Ledger, Index, NEW o \in Owners, NEW accs \in Seq(Access), NEW s \in SlotIds,
         Placed(o, accs, s), AddAll(accs)
  PROVE  Index'
<1>1. Fills(slots, slots', s) /\ slots'[s].accesses = accs
  <2>1. /\ s \notin Live
        /\ slots'[s] = [generation |-> slots[s].generation, owner |-> o, accesses |-> accs]
        /\ \A t \in SlotIds : t # s => slots'[t] = slots[t]
    BY PlacedSlot
  <2>2. slots[s].accesses = <<>>
    BY <2>1 DEF Ledger, EmptySlots, Live
  <2> QED BY <2>1, <2>2 DEF Fills
<1>2. \A P \in SUBSET Access : IsFiniteSet(TokensOf(slots, P))
  <2>1. \A P \in SUBSET Access : TokensOf(slots, P) \in SUBSET TokensOf(slots, Access)
    BY DEF TokensOf, SlotTokens
  <2> QED BY <2>1, FS_Subset DEF Index, CountsExact
<1>3. \A P \in SUBSET Access :
         /\ IsFiniteSet(TokensOf(slots', P))
         /\ Cardinality(TokensOf(slots', P)) = Cardinality(TokensOf(slots, P)) + Count(accs, P)
  BY <1>1, <1>2, TokenAdd
<1>4. /\ total' = [c \in Components |-> [k \in Kinds |-> total[c][k] + Count(accs, OfKind(c, k))]]
      /\ reserved' = [a \in Access |-> reserved[a] + Count(accs, {a})]
  BY DEF AddAll
<1>5. \A P : Count(accs, P) \in Nat
  BY SlotCount
<1>6. \A c \in Components, k \in Kinds :
         total'[c][k] = Cardinality(TokensOf(slots', OfKind(c, k)))
  BY <1>3, <1>4 DEF OfKind, Index, CountsExact
<1>7. \A a \in Access : reserved'[a] = Cardinality(TokensOf(slots', {a}))
  BY <1>3, <1>4 DEF Index, CountsExact
<1>8. CounterTypes'
  BY <1>4, <1>5 DEF Index, CounterTypes
<1> QED BY <1>3, <1>6, <1>7, <1>8 DEF Index, CountsExact
\* Admission against the counters keeps the records free of conflicts.
LEMMA PlacedConflicts ==
  ASSUME Ledger, Index, AdmittedNeverConflict,
         NEW o \in Owners, NEW accs \in Seq(Access), NEW s \in SlotIds,
         Placed(o, accs, s), \A i \in DOMAIN accs : ~Conflicts(accs[i])
  PROVE  AdmittedNeverConflict'
<1>1. /\ slots'[s].accesses = accs /\ s \notin Live
      /\ \A t \in SlotIds : t # s => slots'[t] = slots[t]
      /\ Live' = Live \cup {s}
  <2>1. /\ s \notin Live /\ Live' = Live \cup {s}
        /\ slots'[s] = [generation |-> slots[s].generation, owner |-> o, accesses |-> accs]
        /\ \A t \in SlotIds : t # s => slots'[t] = slots[t]
    BY PlacedSlot
  <2> QED BY <2>1
<1>2. \A a \in AccessesOf(s)' : a \in Access /\ ~Conflicts(a)
  BY <1>1, ElementOfSeq, LenProperties DEF AccessesOf
<1>3. \A t \in Live : AccessesOf(t)' = AccessesOf(t) /\ t \in SlotIds /\ t # s
  BY <1>1 DEF AccessesOf, Live
<1>4. \A a \in AccessesOf(s)' : \A t \in Live : \A b \in AccessesOf(t) :
         ~RL!Conflict(a, b) /\ ~RL!Conflict(b, a)
  <2>1. \A a \in AccessesOf(s)' : \A t \in Live : \A b \in AccessesOf(t) : ~RL!Conflict(a, b)
    BY <1>2, IndexOracle DEF IndexMatchesOracle
  <2>2. \A a, b : RL!Conflict(a, b) <=> RL!Conflict(b, a)
    BY DEF RL!Conflict
  <2> QED BY <2>1, <2>2
<1> SUFFICES ASSUME NEW t \in Live', NEW u \in Live', t # u,
                    NEW a \in AccessesOf(t)', NEW b \in AccessesOf(u)'
             PROVE  ~RL!Conflict(a, b)
  BY DEF AdmittedNeverConflict, RL!Conflict
<1>5. CASE t # s /\ u # s
  BY <1>1, <1>3, <1>5 DEF AdmittedNeverConflict
<1>6. CASE t = s
  BY <1>1, <1>3, <1>4, <1>6
<1>7. CASE u = s
  BY <1>1, <1>3, <1>4, <1>7
<1> QED BY <1>5, <1>6, <1>7

\* A release leaves the other records as they are.
LEMMA ReleaseConflicts ==
  ASSUME Ledger, AdmittedNeverConflict, NEW s \in Live, Release(s)
  PROVE  AdmittedNeverConflict'
<1>1. \A t \in Live' : t \in Live /\ AccessesOf(t)' = AccessesOf(t)
  BY ReleaseSlots DEF AccessesOf, Live
<1> QED BY <1>1 DEF AdmittedNeverConflict, RL!Conflict

-----------------------------------------------------------------------------
(* The phase.                                                              *)

\* A fresh phase satisfies the invariant.
LEMMA FreshPhase == Init => IInv
<1> SUFFICES ASSUME Init PROVE IInv
  OBVIOUS
<1> USE SlotsAssumption
<1>1. LedgerTypes
  BY DEF Init, LedgerTypes, NoRun, RunId, FreshSlot, Slot
<1>2. Live = {} /\ Holding = {}
  BY DEF Init, Live, Holding, FreshSlot
<1>3. EmptySlots /\ FreeListSound /\ RetiredBehind /\ OwnersIndexed
  BY <1>2 DEF Init, EmptySlots, FreeListSound, RetiredBehind, OwnersIndexed, FreshSlot
<1>4. \A P : TokensOf(slots, P) = {}
  BY DEF Init, TokensOf, SlotTokens, FreshSlot
<1>5. IsFiniteSet({}) /\ Cardinality({}) = 0
  BY FS_EmptySet
<1>6. Index
  BY <1>4, <1>5 DEF Init, Index, CounterTypes, CountsExact
<1>7. QueueTypes /\ ReadersDropped /\ CompletionsValid /\ AdmittedNeverConflict
  BY <1>2 DEF Init, QueueTypes, ReadersDropped, CompletionsValid, AdmittedNeverConflict
<1> QED BY <1>1, <1>3, <1>6, <1>7 DEF IInv, Ledger
\* The same of the state NewPhase leads to.
LEMMA FreshPhaseNext == Init' => IInv'
BY FreshPhase, PTL

\* Admit keeps the invariant.
LEMMA AdmitStep ==
  ASSUME IInv, NEW o \in Owners, NEW accs \in Requests, Admit(o, accs)
  PROVE  IInv'
<1>1. accs \in Seq(Access)
  BY RequestsAssumption
<1>2. PICK s \in SlotIds :
         /\ Placed(o, accs, s)
         /\ IF Writes(accs)
            THEN writeRuns' = writeRuns \cup {IdOf(s)} /\ UNCHANGED readRuns
            ELSE readRuns' = readRuns \cup {IdOf(s)} /\ UNCHANGED writeRuns
  BY DEF Admit, Placed
<1>3. mode = "running" /\ mode' = mode /\ AddAll(accs)
      /\ \A i \in DOMAIN accs : ~Conflicts(accs[i])
  BY DEF Admit
<1>4. Ledger' /\ Index' /\ AdmittedNeverConflict'
  BY <1>1, <1>2, <1>3, PlacedLedger, PlacedIndex, PlacedConflicts DEF IInv
<1>5. /\ s \notin Live /\ Live' = Live \cup {s}
      /\ slots'[s] = [generation |-> slots[s].generation, owner |-> o, accesses |-> accs]
      /\ \A t \in SlotIds : t # s => slots'[t] = slots[t]
  BY <1>1, <1>2, PlacedSlot DEF IInv
<1>6. IdOf(s) \in RunId /\ IdOf(s) = IdOf(s)' /\ IdOf(s).slot = s
      /\ IdOf(s).generation = slots[s].generation
  BY <1>5, SlotsAssumption DEF IInv, Ledger, LedgerTypes, Slot, IdOf, RunId, SlotIds
<1>7. QueueTypes' /\ ReadersDropped'
  BY <1>2, <1>3, <1>6 DEF IInv, QueueTypes, ReadersDropped
<1>8. \A id : Contains(id) =>
         /\ id.slot \in Live' /\ slots'[id.slot] = slots[id.slot] /\ Contains(id)'
  BY <1>5 DEF Contains, Live
<1>9. Contains(IdOf(s))' /\ slots'[s].accesses = accs
  BY <1>5, <1>6 DEF Contains
<1>10. /\ \A id \in readRuns' : Contains(id)' /\ ~Writes(slots'[id.slot].accesses)
       /\ \A id \in writeRuns' : Contains(id)' /\ Writes(slots'[id.slot].accesses)
  <2>1. \A id \in readRuns : Contains(id)' /\ ~Writes(slots'[id.slot].accesses)
    BY <1>8 DEF IInv, CompletionsValid
  <2>2. \A id \in writeRuns : Contains(id)' /\ Writes(slots'[id.slot].accesses)
    BY <1>8 DEF IInv, CompletionsValid
  <2>3. \A id : id = IdOf(s) => Contains(id)' /\ slots'[id.slot].accesses = accs
    BY <1>6, <1>9
  <2> QED BY <1>2, <2>1, <2>2, <2>3
<1>11. ASSUME NEW t \in Live' PROVE IdOf(t)' \in readRuns' \cup writeRuns'
  <2>1. CASE t = s
    BY <1>2, <1>6, <2>1
  <2>2. CASE t # s
    <3>1. t \in Live /\ IdOf(t)' = IdOf(t)
      BY <1>5, <1>11, <2>2 DEF IdOf, Live
    <3> QED BY <1>2, <1>3, <3>1 DEF IInv, CompletionsValid
  <2> QED BY <2>1, <2>2
<1>12. CompletionsValid'
  BY <1>10, <1>11 DEF CompletionsValid, Writes
<1> QED BY <1>4, <1>7, <1>12 DEF IInv

\* Releasing a slot keeps the queued completions valid if the id of that
\* slot leaves the queues.
LEMMA ReleaseStep ==
  ASSUME IInv, NEW s \in Live, Release(s),
         readRuns' = readRuns \ {IdOf(s)}, writeRuns' = writeRuns \ {IdOf(s)},
         UNCHANGED mode
  PROVE  IInv'
<1>1. Ledger' /\ Index' /\ AdmittedNeverConflict'
  BY ReleaseLedger, ReleaseIndex, ReleaseConflicts DEF IInv
<1>2. QueueTypes' /\ ReadersDropped'
  BY DEF IInv, QueueTypes, ReadersDropped
<1>3. Live' = Live \ {s} /\ \A t \in SlotIds : t # s => slots'[t] = slots[t]
  BY ReleaseSlots DEF IInv
<1>4. \A id : Contains(id) /\ id.slot # s =>
         slots'[id.slot] = slots[id.slot] /\ Contains(id)'
  BY <1>3 DEF Contains, Live
<1>5. \A id \in readRuns' \cup writeRuns' : id.slot # s
  <2> SUFFICES ASSUME NEW id \in readRuns' \cup writeRuns', id.slot = s PROVE FALSE
    OBVIOUS
  <2>1. id \in RunId /\ Contains(id) /\ id # IdOf(s)
    BY DEF IInv, CompletionsValid, QueueTypes
  <2> QED BY <2>1 DEF Contains, IdOf, RunId
<1>6. /\ \A id \in readRuns' : Contains(id)' /\ ~Writes(slots'[id.slot].accesses)
      /\ \A id \in writeRuns' : Contains(id)' /\ Writes(slots'[id.slot].accesses)
  BY <1>4, <1>5 DEF IInv, CompletionsValid
<1>7. ASSUME NEW t \in Live'
      PROVE  \/ IdOf(t)' \in readRuns' \cup writeRuns'
             \/ mode' = "cancel" /\ t \in ToCancel'
  <2>1. t \in Live /\ t # s /\ slots'[t] = slots[t] /\ IdOf(t)' = IdOf(t) /\ IdOf(t) # IdOf(s)
    BY <1>3, <1>7 DEF IdOf, Live
  <2>2. t \in ToCancel => t \in ToCancel'
    BY <1>7, <2>1 DEF ToCancel, Writes
  <2> QED BY <2>1, <2>2 DEF IInv, CompletionsValid
<1>8. CompletionsValid'
  BY <1>6, <1>7 DEF CompletionsValid, Writes
<1> QED BY <1>1, <1>2, <1>8 DEF IInv

\* The induction step.
LEMMA InductionStep ==
  ASSUME IInv, [Next]_vars
  PROVE  IInv'
<1>1. ASSUME NEW o \in Owners, NEW accs \in Requests, Admit(o, accs) PROVE IInv'
  BY <1>1, AdmitStep
<1>2. ASSUME NEW id \in readRuns \cup writeRuns, Complete(id) PROVE IInv'
  <2>1. id.slot \in Live /\ id = IdOf(id.slot)
    BY <1>2 DEF Complete, Contains, IdOf, IInv, QueueTypes, RunId
  <2> QED BY <1>2, <2>1, ReleaseStep DEF Complete
<1>3. CASE Preempt
  <2> USE <1>3 DEF Preempt
  <2>1. Ledger'
    BY DEF IInv, Ledger, LedgerTypes, EmptySlots, OwnersIndexed, FreeListSound, RetiredBehind,
           Holding, Contains, Live, IdOf
  <2>2. Index'
    BY DEF IInv, Index, CounterTypes, CountsExact
  <2>3. QueueTypes' /\ ReadersDropped'
    BY DEF IInv, QueueTypes, ReadersDropped
  <2>4. AdmittedNeverConflict'
    BY DEF IInv, AdmittedNeverConflict, Live, AccessesOf, RL!Conflict
  <2>5. Live' = Live /\ \A t : IdOf(t)' = IdOf(t)
    BY DEF Live, IdOf
  <2>6. \A id : Contains(id)' <=> Contains(id)
    BY <2>5 DEF Contains
  <2>7. ASSUME NEW t \in Live
        PROVE  IdOf(t) \in writeRuns \/ t \in ToCancel
    <3>1. CASE IdOf(t) \in readRuns
      BY <2>7, <3>1 DEF IInv, CompletionsValid, ToCancel, IdOf
    <3>2. CASE IdOf(t) \notin readRuns
      BY <2>7, <3>2 DEF IInv, CompletionsValid
    <3> QED BY <3>1, <3>2
  <2>8. ToCancel' = ToCancel
    BY <2>5 DEF ToCancel, Writes
  <2>9. CompletionsValid'
    BY <2>5, <2>6, <2>7, <2>8 DEF IInv, CompletionsValid, Writes
  <2> QED BY <2>1, <2>2, <2>3, <2>4, <2>9 DEF IInv
<1>4. ASSUME NEW s \in SlotIds, CancelReader(s) PROVE IInv'
  <2>1. s \in Live /\ ~Writes(slots[s].accesses) /\ Release(s) /\ mode = "cancel"
        /\ readRuns' = readRuns /\ writeRuns' = writeRuns /\ UNCHANGED mode
    BY <1>4 DEF CancelReader, ToCancel
  <2>2. IdOf(s) \notin readRuns
    BY <2>1 DEF IInv, ReadersDropped
  <2>3. IdOf(s) \notin writeRuns
    BY <2>1 DEF IInv, CompletionsValid, IdOf
  <2> QED BY <2>1, <2>2, <2>3, ReleaseStep
<1>5. CASE CancelDone
  <2> USE <1>5 DEF CancelDone
  <2>1. Ledger'
    BY DEF IInv, Ledger, LedgerTypes, EmptySlots, OwnersIndexed, FreeListSound, RetiredBehind,
           Holding, Contains, Live, IdOf
  <2>2. Index'
    BY DEF IInv, Index, CounterTypes, CountsExact
  <2>3. QueueTypes' /\ ReadersDropped'
    BY DEF IInv, QueueTypes, ReadersDropped
  <2>4. AdmittedNeverConflict'
    BY DEF IInv, AdmittedNeverConflict, Live, AccessesOf, RL!Conflict
  <2>5. Live' = Live /\ \A t : IdOf(t)' = IdOf(t)
    BY DEF Live, IdOf
  <2>6. \A id : Contains(id)' <=> Contains(id)
    BY <2>5 DEF Contains
  <2>7. CompletionsValid'
    BY <2>5, <2>6 DEF IInv, CompletionsValid, Writes
  <2> QED BY <2>1, <2>2, <2>3, <2>4, <2>7 DEF IInv
<1>6. CASE NewPhase
  BY <1>6, FreshPhaseNext DEF NewPhase, Init
<1>7. CASE UNCHANGED vars
  <2> USE <1>7 DEF vars
  <2>1. Ledger'
    BY DEF IInv, Ledger, LedgerTypes, EmptySlots, OwnersIndexed, FreeListSound, RetiredBehind,
           Holding, Contains, Live, IdOf
  <2>2. Index'
    BY DEF IInv, Index, CounterTypes, CountsExact
  <2>3. QueueTypes' /\ ReadersDropped'
    BY DEF IInv, QueueTypes, ReadersDropped
  <2>4. AdmittedNeverConflict'
    BY DEF IInv, AdmittedNeverConflict, Live, AccessesOf, RL!Conflict
  <2>5. Live' = Live /\ ToCancel' = ToCancel /\ \A t : IdOf(t)' = IdOf(t)
    BY DEF Live, IdOf, ToCancel, Writes
  <2>6. \A id : Contains(id)' <=> Contains(id)
    BY <2>5 DEF Contains
  <2>7. CompletionsValid'
    BY <2>5, <2>6 DEF IInv, CompletionsValid, Writes
  <2> QED BY <2>1, <2>2, <2>3, <2>4, <2>7 DEF IInv
<1> QED BY <1>1, <1>2, <1>3, <1>4, <1>5, <1>6, <1>7 DEF Next

\* The inductive invariant holds in every reachable state.
THEOREM Inductive == Spec => []IInv
<1>1. IInv /\ [Next]_vars => IInv'
  BY InductionStep
<1> QED BY <1>1, FreshPhase, PTL DEF Spec

-----------------------------------------------------------------------------
(* What follows from it.                                                   *)

\* Every counter stays a natural number: ComponentAccess::remove never
\* underflows its usize counters.
THEOREM TypesHold == Spec => []TypeOK
<1>1. IInv => TypeOK
  BY DEF IInv, Ledger, LedgerTypes, Index, CounterTypes, QueueTypes, TypeOK
<1> QED BY <1>1, Inductive, PTL

\* Reservations::admit never lets two conflicting invocations be in flight.
THEOREM NoConflictAdmitted == Spec => []AdmittedNeverConflict
<1>1. IInv => AdmittedNeverConflict
  BY DEF IInv
<1> QED BY <1>1, Inductive, PTL

\* The counters of ComponentAccess::conflicts decide exactly the pairwise rule
\* of Access::conflicts over the records.
THEOREM CountersMatchOracle == Spec => []IndexMatchesOracle
<1>1. IInv => IndexMatchesOracle
  BY IndexOracle DEF IInv
<1> QED BY <1>1, Inductive, PTL

\* The driver's assertion that a completion belongs to an active invocation
\* holds, and every record has a completion to release it.
THEOREM CompletionsAreValid == Spec => []CompletionsValid
<1>1. IInv => CompletionsValid
  BY DEF IInv
<1> QED BY <1>1, Inductive, PTL

\* A RunId that Records::remove retired is never valid again.
THEOREM RetiredForGood == Spec => []RetiredStaysRetired
<1>1. IInv => RetiredStaysRetired
  <2> SUFFICES ASSUME IInv, NEW id \in retired, Contains(id) PROVE FALSE
    BY DEF RetiredStaysRetired
  <2>1. id.slot \in Live /\ id.generation = slots[id.slot].generation
    BY DEF Contains
  <2>2. id.generation < slots[id.slot].generation /\ id.generation \in Nat
    BY <2>1 DEF IInv, Ledger, LedgerTypes, RetiredBehind, RunId
  <2> QED BY <2>1, <2>2
<1> QED BY <1>1, Inductive, PTL
-----------------------------------------------------------------------------
(* The counters implement the pairwise rule.                               *)

\* An admission acquires its accesses.
LEMMA AdmitAcquires ==
  ASSUME IInv, NEW o \in Owners, NEW accs \in Requests, Admit(o, accs)
  PROVE  \E A \in SUBSET Access : RL!Acquire(o, A)
<1>1. accs \in Seq(Access)
  BY RequestsAssumption
<1>2. PICK s \in SlotIds : Placed(o, accs, s)
  BY DEF Admit, Placed
<1>3. /\ s \notin Live /\ slots'[s].accesses = accs
      /\ \A t \in SlotIds : t # s => slots'[t] = slots[t]
  <2>1. /\ s \notin Live
        /\ slots'[s] = [generation |-> slots[s].generation, owner |-> o, accesses |-> accs]
        /\ \A t \in SlotIds : t # s => slots'[t] = slots[t]
    BY <1>1, <1>2, PlacedSlot DEF IInv
  <2> QED BY <2>1
<1>4. /\ owners \in [Owners -> RunId] /\ owners[o] = NoRun
      /\ owners' = [owners EXCEPT ![o] = IdOf(s)]
      /\ IdOf(s) # NoRun /\ IdOf(s).slot = s
  BY <1>2 DEF Placed, IInv, Ledger, LedgerTypes, IdOf, NoRun, SlotIds
<1> DEFINE A == {accs[i] : i \in DOMAIN accs}
<1>5. A \subseteq Access /\ \A a \in A : ~Conflicts(a)
  BY <1>1, ElementOfSeq, LenProperties DEF Admit
<1>6. Holding' = Holding \cup {o} /\ o \notin Holding
  BY <1>4 DEF Holding
<1>7. \A p \in Holding : owners'[p] = owners[p] /\ owners[p].slot \in Live
                         /\ owners[p].slot \in SlotIds
  BY <1>4, <1>6 DEF IInv, Ledger, OwnersIndexed, Contains, Live, Holding
<1>8. \A p \in Holding : AccessesOf(owners[p].slot)' = AccessesOf(owners[p].slot)
  BY <1>3, <1>7 DEF AccessesOf
<1>9. AccessesOf(owners[o].slot)' = A
  BY <1>3, <1>4 DEF AccessesOf
<1>10. Held' = [Held EXCEPT ![o] = A]
  <2>1. Held = [p \in Owners |-> IF p \in Holding THEN AccessesOf(owners[p].slot) ELSE {}]
    BY DEF Held
  <2>2. Held' = [p \in Owners |-> IF p \in Holding' THEN AccessesOf(owners[p].slot)' ELSE {}]
    BY DEF Held
  <2> HIDE DEF A
  <2>3. \A p \in Owners : Held'[p] = IF p = o THEN A ELSE Held[p]
    BY <1>6, <1>8, <1>9, <2>1, <2>2
  <2> QED BY <2>1, <2>2, <2>3
<1>11. \A p \in Holding : \A a \in A, b \in Held[p] : ~RL!Conflict(a, b)
  <2>1. \A p \in Holding : Held[p] = AccessesOf(owners[p].slot)
    BY DEF Held, Holding
  <2>2. \A a \in A : \A t \in Live : \A b \in AccessesOf(t) : ~RL!Conflict(a, b)
    BY <1>5, IndexOracle DEF IInv, IndexMatchesOracle
  <2> QED BY <1>7, <2>1, <2>2
<1> HIDE DEF A
<1>12. RL!Acquire(o, A)
  BY <1>6, <1>10, <1>11 DEF RL!Acquire
<1> QED BY <1>5, <1>12

\* A release gives up what the record's owner holds.
LEMMA ReleaseReleases ==
  ASSUME IInv, NEW s \in Live, Release(s)
  PROVE  \E o \in Owners : RL!Release(o)
<1> DEFINE o == slots[s].owner
<1>1. /\ o \in Owners /\ owners[o] = IdOf(s) /\ owners \in [Owners -> RunId]
      /\ owners' = [owners EXCEPT ![o] = NoRun]
      /\ IdOf(s) # NoRun /\ IdOf(s).slot = s
  BY DEF IInv, Ledger, LedgerTypes, Slot, Live, OwnersIndexed, Release, IdOf, NoRun, SlotIds
<1>2. \A t \in SlotIds : t # s => slots'[t] = slots[t]
  BY ReleaseSlots DEF IInv
<1>3. \A p \in Holding : p # o => owners[p].slot # s /\ owners[p].slot \in SlotIds
  BY DEF IInv, Ledger, OwnersIndexed, Contains, Live
<1> HIDE DEF o
<1>4. Holding' = Holding \ {o} /\ o \in Holding
  BY <1>1 DEF Holding
<1>5. \A p \in Holding : p # o =>
         owners'[p] = owners[p] /\ AccessesOf(owners[p].slot)' = AccessesOf(owners[p].slot)
  BY <1>1, <1>2, <1>3 DEF AccessesOf, Holding
<1>6. Held' = [Held EXCEPT ![o] = {}]
  <2>1. Held = [p \in Owners |-> IF p \in Holding THEN AccessesOf(owners[p].slot) ELSE {}]
    BY DEF Held
  <2>2. Held' = [p \in Owners |-> IF p \in Holding' THEN AccessesOf(owners[p].slot)' ELSE {}]
    BY DEF Held
  <2>3. \A p \in Owners : Held'[p] = IF p = o THEN {} ELSE Held[p]
    BY <1>4, <1>5, <2>1, <2>2
  <2> QED BY <2>1, <2>2, <2>3
<1> QED BY <1>1, <1>4, <1>6 DEF RL!Release

\* Reservations implements RowLocks: admission against counters is admission
\* against every lock held, and every release path gives up what was held.
THEOREM RefinesRowLocks == Spec => ImplementsRowLocks
<1>1. Init => RL!Init
  BY DEF Init, RL!Init, Holding, Held
<1>2. ASSUME IInv, [Next]_vars PROVE [RL!Next]_(RL!vars)
  <2>1. ASSUME NEW o \in Owners, NEW accs \in Requests, Admit(o, accs) PROVE RL!Next
    BY <1>2, <2>1, AdmitAcquires DEF RL!Next, Access
  <2>2. ASSUME NEW id \in readRuns \cup writeRuns, Complete(id) PROVE RL!Next
    <3>1. id.slot \in Live /\ Release(id.slot)
      BY <2>2 DEF Complete, Contains
    <3> QED BY <1>2, <3>1, ReleaseReleases DEF RL!Next
  <2>3. ASSUME NEW s \in SlotIds, CancelReader(s) PROVE RL!Next
    <3>1. s \in Live /\ Release(s)
      BY <2>3 DEF CancelReader, ToCancel
    <3> QED BY <1>2, <3>1, ReleaseReleases DEF RL!Next
  <2>4. CASE Preempt \/ CancelDone \/ UNCHANGED vars
    BY <2>4 DEF Preempt, CancelDone, vars, RL!vars, Holding, Held, AccessesOf
  <2>5. CASE NewPhase
    BY <2>5 DEF NewPhase, RL!Next, RL!ReleaseAll, Holding, Held
  <2> QED BY <1>2, <2>1, <2>2, <2>3, <2>4, <2>5 DEF Next
<1> QED BY <1>1, <1>2, Inductive, PTL DEF Spec, ImplementsRowLocks, RL!Spec
=============================================================================
