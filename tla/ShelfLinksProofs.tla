--------------------------- MODULE ShelfLinksProofs ---------------------------
(***************************************************************************)
(* The link table of ShelfLinks stays within its capacity, and a link that *)
(* is gone has given way to newer ones: for any links, catalogs, capacity, *)
(* number of requests served at once, and ties and delays of their clocks. *)
(*                                                                         *)
(* LinksLast needs to be told apart from the table, whose entries come and *)
(* go: last and newest never lose what an evicted entry was compared with, *)
(* and newest only grows.                                                  *)
(***************************************************************************)
EXTENDS ShelfLinks, FiniteSetTheorems, TLAPS

Newer(l) == {k \in Links \ {l} : newest[k] >= last[l]}

\* A subset of the links is finite and has no more elements than a superset.
LEMMA Counting ==
    ASSUME NEW S, NEW T, S \subseteq T, T \subseteq Links
    PROVE  /\ IsFiniteSet(S) /\ IsFiniteSet(T)
           /\ Cardinality(S) \in Nat /\ Cardinality(T) \in Nat
           /\ Cardinality(S) <= Cardinality(T)
<1>1. IsFiniteSet(T) BY LinksAssumption, FS_Subset
<1>2. IsFiniteSet(S) /\ Cardinality(S) <= Cardinality(T) BY <1>1, FS_Subset
<1> QED BY <1>1, <1>2, FS_CardinalityType

THEOREM LinksInitOK == LinksInit => LinksInv
<1> SUFFICES ASSUME LinksInit PROVE LinksInv OBVIOUS
<1> USE DEF LinksInit
<1>1. Held = {} BY DEF Held
<1>2. LinksTypeOK
  <2>1. Cardinality(Held) = 0 BY <1>1, FS_EmptySet
  <2> QED BY <1>1, <2>1, CapacityAssumption DEF LinksTypeOK, Never
<1>3. TableOK BY <1>1 DEF TableOK
<1>4. PutOK BY DEF PutOK
<1>5. LinksLast BY DEF LinksLast, Never
<1> QED BY <1>2, <1>3, <1>4, <1>5 DEF LinksInv

\* What put() leaves in a table, and what it says of a link it drops.
LEMMA StayingFacts ==
    ASSUME LinksInv, NEW stay \in Staying
    PROVE  /\ stay \subseteq Held
           /\ Cardinality(stay) \in Nat /\ Cardinality(stay) <= Capacity - 1
           /\ \A o \in Held \ stay :
                 /\ stay = Held \ {o}
                 /\ Cardinality(stay) >= Capacity - 1
                 /\ \A k \in stay : table[o] <= table[k]
<1>1. /\ IsFiniteSet(Held) /\ Cardinality(Held) \in Nat
      /\ Cardinality(Held) <= Capacity /\ Capacity \in Nat
      /\ Held \subseteq Links
  BY Counting, CapacityAssumption DEF LinksInv, LinksTypeOK
<1>2. CASE Cardinality(Held) >= Capacity
  <2>1. PICK o \in Droppable : stay = Held \ {o}
    BY <1>2 DEF Staying
  <2>2. o \in Held /\ \A k \in Held : table[o] <= table[k]
    BY <2>1 DEF Droppable
  <2>3. Cardinality(stay) = Cardinality(Held) - 1
    BY <1>1, <2>1, <2>2, FS_RemoveElement
  <2>4. \A m \in Held \ stay : m = o BY <2>1
  <2>5. Cardinality(stay) <= Capacity - 1 /\ Cardinality(stay) >= Capacity - 1
    BY <1>1, <1>2, <2>3
  <2>6. stay \subseteq Held BY <2>1
  <2>7. Cardinality(stay) \in Nat BY <1>1, <2>6, Counting
  <2>8. \A k \in stay : table[o] <= table[k] BY <2>2, <2>6
  <2> QED BY <2>1, <2>4, <2>5, <2>6, <2>7, <2>8
<1>3. CASE ~(Cardinality(Held) >= Capacity)
  <2>1. stay = Held BY <1>3 DEF Staying
  <2> QED BY <1>1, <1>3, <2>1
<1> QED BY <1>2, <1>3

LEMMA PutKeeps ==
    ASSUME LinksInv, NEW r \in Proxies, Put(r) PROVE LinksInv'
<1> DEFINE l == Head(todo[r])
<1> USE DEF Put, Proceed
<1>1. /\ fetching[r] = "put" /\ todo[r] # <<>> /\ stamp[r] \in Nat \ {0}
      /\ l \in Links /\ Tail(todo[r]) \in Seq(Links)
  BY DEF LinksInv, LinksTypeOK, PutOK
<1>2. PICK stay \in Staying :
         table' = [k \in stay \union {l} |-> IF k = l THEN stamp[r] ELSE table[k]]
  OBVIOUS
<1>3. /\ stay \subseteq Held /\ Held \subseteq Links
      /\ Cardinality(stay) \in Nat /\ Cardinality(stay) <= Capacity - 1
      /\ \A o \in Held \ stay :
            /\ stay = Held \ {o}
            /\ Cardinality(stay) >= Capacity - 1
            /\ \A k \in stay : table[o] <= table[k]
  BY StayingFacts DEF LinksInv, LinksTypeOK
<1>4. Held' = stay \union {l} BY <1>2 DEF Held
<1>5. /\ last \in [Links -> Nat] /\ newest \in [Links -> Nat]
      /\ table \in [Held -> Nat \ {0}]
      /\ \A k \in Held : table[k] = last[k] /\ last[k] <= newest[k]
  BY DEF LinksInv, LinksTypeOK, TableOK
<1>6. /\ last' \in [Links -> Nat] /\ newest' \in [Links -> Nat]
      /\ last'[l] = stamp[r] /\ newest'[l] >= stamp[r]
      /\ \A k \in Links : newest'[k] >= newest[k]
      /\ \A k \in Links \ {l} : last'[k] = last[k]
  BY <1>1, <1>5
<1>7. LinksTypeOK'
  <2>1. Cardinality(stay \union {l}) <= Capacity
    <3>1. IsFiniteSet(stay) BY <1>3, Counting
    <3>2. \/ Cardinality(stay \union {l}) = Cardinality(stay)
          \/ Cardinality(stay \union {l}) = Cardinality(stay) + 1
      BY <3>1, FS_AddElement
    <3> HIDE DEF Put, Proceed, l
    <3> QED BY <1>3, <3>2, CapacityAssumption
  <2>2. table' \in [Held' -> Nat \ {0}]
    BY <1>1, <1>2, <1>3, <1>4, <1>5
  <2> QED BY <1>1, <1>3, <1>4, <1>6, <2>1, <2>2 DEF LinksInv, LinksTypeOK
<1>8. TableOK'
  <2> SUFFICES ASSUME NEW k \in Held' PROVE table'[k] = last'[k] /\ last'[k] <= newest'[k]
    BY DEF TableOK
  <2>1. CASE k = l BY <1>1, <1>2, <1>4, <1>6, <2>1
  <2>2. CASE k # l
    <3>1. k \in Held /\ k \in Links /\ table'[k] = table[k]
      BY <1>2, <1>3, <1>4, <2>2
    <3> QED BY <1>5, <1>6, <2>2, <3>1
  <2> QED BY <2>1, <2>2
<1>9. PutOK' BY DEF PutOK, LinksInv, LinksTypeOK
<1>10. LinksLast'
  <2> SUFFICES ASSUME NEW m \in Links, last'[m] # 0, m \notin Held'
               PROVE Cardinality(Newer(m)') >= Capacity - 1
    BY DEF LinksLast, Newer
  <2>1. m # l /\ m \notin stay /\ last'[m] = last[m] BY <1>4, <1>6
  <2>2. CASE m \in Held
    <3>1. /\ stay = Held \ {m} /\ Cardinality(stay) >= Capacity - 1
          /\ \A k \in stay : table[m] <= table[k]
      BY <1>3, <2>1, <2>2
    <3>2. \A k \in stay : k \in Links \ {m} /\ newest'[k] >= last'[m]
      BY <1>3, <1>5, <1>6, <2>1, <2>2, <3>1
    <3>3. stay \subseteq Newer(m)' /\ Newer(m)' \subseteq Links BY <3>2 DEF Newer
    <3>4. Cardinality(stay) <= Cardinality(Newer(m)') /\ Cardinality(Newer(m)') \in Nat
      BY <3>3, Counting
    <3> QED BY <1>3, <3>1, <3>4, CapacityAssumption
  <2>3. CASE m \notin Held
    <3>1. Cardinality(Newer(m)) >= Capacity - 1
      BY <2>1, <2>3 DEF LinksInv, LinksLast, Newer
    <3>2. Newer(m) \subseteq Newer(m)' /\ Newer(m)' \subseteq Links
      BY <1>5, <1>6, <2>1 DEF Newer
    <3>3. /\ Cardinality(Newer(m)) <= Cardinality(Newer(m)')
          /\ Cardinality(Newer(m)) \in Nat /\ Cardinality(Newer(m)') \in Nat
      BY <3>2, Counting
    <3> QED BY <3>1, <3>3, CapacityAssumption
  <2> QED BY <2>2, <2>3
<1> QED BY <1>7, <1>8, <1>9, <1>10 DEF LinksInv

\* No other step but a restart touches the table or its histories.
LEMMA OtherKeeps ==
    ASSUME LinksInv, UNCHANGED <<table, last, newest>>,
           LinksTypeOK', PutOK'
    PROVE  LinksInv'
<1>1. TableOK' BY DEF LinksInv, TableOK, Held
<1>2. LinksLast' BY DEF LinksInv, LinksLast, Held
<1> QED BY <1>1, <1>2 DEF LinksInv

LEMMA LinksStep == LinksInv /\ [LinksNext]_linkVars => LinksInv'
<1> SUFFICES ASSUME LinksInv, [LinksNext]_linkVars PROVE LinksInv' OBVIOUS
<1> USE DEF Proceed
<1>1. ASSUME NEW r \in Proxies, AskRoot(r) PROVE LinksInv'
  <2>1. LinksTypeOK' BY <1>1 DEF AskRoot, LinksInv, LinksTypeOK, Held
  <2>2. PutOK' BY <1>1 DEF AskRoot, LinksInv, LinksTypeOK, PutOK
  <2> QED BY <1>1, <2>1, <2>2, OtherKeeps DEF AskRoot
<1>2. ASSUME NEW r \in Proxies, NEW l \in Links, Follow(r, l) PROVE LinksInv'
  BY <1>1, <1>2 DEF Follow
<1>3. ASSUME NEW r \in Proxies, NEW f \in Feeds, Catalog(r, f) PROVE LinksInv'
  <2>1. LinksTypeOK' BY <1>3, FeedsAssumption DEF Catalog, LinksInv, LinksTypeOK, Held
  <2>2. PutOK' BY <1>3 DEF Catalog, LinksInv, LinksTypeOK, PutOK
  <2> QED BY <1>3, <2>1, <2>2, OtherKeeps DEF Catalog
<1>4. ASSUME NEW r \in Proxies, NoCatalog(r) PROVE LinksInv'
  <2>1. LinksTypeOK' BY <1>4 DEF NoCatalog, LinksInv, LinksTypeOK, Held
  <2>2. PutOK' BY <1>4 DEF NoCatalog, LinksInv, LinksTypeOK, PutOK
  <2> QED BY <1>4, <2>1, <2>2, OtherKeeps DEF NoCatalog
<1>5. ASSUME NEW r \in Proxies, Stamp(r) PROVE LinksInv'
  <2>1. LinksTypeOK' BY <1>5 DEF Stamp, LinksInv, LinksTypeOK, Held
  <2>2. PutOK' BY <1>5 DEF Stamp, LinksInv, LinksTypeOK, PutOK
  <2> QED BY <1>5, <2>1, <2>2, OtherKeeps DEF Stamp
<1>6. ASSUME NEW r \in Proxies, Put(r) PROVE LinksInv'
  BY <1>6, PutKeeps
<1>7. ASSUME NEW r \in Proxies, CatalogSent(r) PROVE LinksInv'
  <2>1. LinksTypeOK' BY <1>7 DEF CatalogSent, LinksInv, LinksTypeOK, Held
  <2>2. PutOK' BY <1>7 DEF CatalogSent, LinksInv, LinksTypeOK, PutOK
  <2> QED BY <1>7, <2>1, <2>2, OtherKeeps DEF CatalogSent
<1>8. CASE TimePasses
  <2>1. LinksTypeOK' BY <1>8 DEF TimePasses, LinksInv, LinksTypeOK, Held
  <2>2. PutOK' BY <1>8 DEF TimePasses, LinksInv, PutOK
  <2> QED BY <1>8, <2>1, <2>2, OtherKeeps DEF TimePasses
<1>9. CASE ProxyRestart
  <2>1. Held' = {} /\ last' = Never BY <1>9 DEF ProxyRestart, Held
  <2>2. LinksTypeOK'
    <3>1. Cardinality(Held') = 0 BY <2>1, FS_EmptySet
    <3> QED BY <1>9, <2>1, <3>1, CapacityAssumption
        DEF ProxyRestart, LinksInv, LinksTypeOK, Never
  <2>3. TableOK' BY <2>1 DEF TableOK
  <2>4. PutOK' BY <1>9 DEF ProxyRestart, PutOK
  <2>5. LinksLast' BY <2>1 DEF LinksLast, Never
  <2> QED BY <2>2, <2>3, <2>4, <2>5 DEF LinksInv
<1>10. CASE UNCHANGED linkVars
  BY <1>10 DEF linkVars, LinksInv, LinksTypeOK, TableOK, PutOK, LinksLast, Held
<1> QED
  BY <1>1, <1>2, <1>3, <1>4, <1>5, <1>6, <1>7, <1>8, <1>9, <1>10 DEF LinksNext

\* The inductive invariant of the table.
THEOREM LinksInvariant == LinksSpec => []LinksInv
<1>1. LinksInit => LinksInv BY LinksInitOK
<1>2. LinksInv /\ [LinksNext]_linkVars => LinksInv' BY LinksStep
<1> QED BY <1>1, <1>2, PTL DEF LinksSpec

\* The table stays within its capacity: put() with its eviction.
THEOREM LinksTyped == LinksSpec => []LinksTypeOK
<1>1. LinksInv => LinksTypeOK BY DEF LinksInv
<1> QED BY <1>1, LinksInvariant, PTL

\* A link is only forgotten for Capacity - 1 others at least as new.
THEOREM LinksAreLast == LinksSpec => []LinksLast
<1>1. LinksInv => LinksLast BY DEF LinksInv
<1> QED BY <1>1, LinksInvariant, PTL
=============================================================================
