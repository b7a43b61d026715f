-------------------------- MODULE ConnectPage_proofs --------------------------
(***************************************************************************)
(* Proofs about the connect page, for every set of pools, every order of  *)
(* their symbols and every set of port maps.                              *)
(*                                                                         *)
(* The port order first: Before is a strict total order, the ranks of the *)
(* ports are distinct and cover 0..n-1, so the sorted portEntries exists, *)
(* and its entry at index floor(n / 2) is the port of rank floor(n / 2)   *)
(* (MidPortIsMiddle), a listed port. The counting uses FiniteSetTheorems: an injection   *)
(* between sets of equal size is onto.                                    *)
(*                                                                         *)
(* SettledSelection rests on PoolsHeld and PortHeld, which say what each  *)
(* effect leaves behind until the next change makes it due again.         *)
(*                                                                         *)
(* ManualPortSticky is proved for a page opened without ?pool= (the       *)
(* connect_url run shows that with it the pool effect takes the pool      *)
(* back). It is not inductive as it stands: between a refresh and the     *)
(* effects the page is not settled, and the effects keep the picked pool  *)
(* and port only because they are still listed and still selected.        *)
(* ManualHeld says so: the picked port is always that of the selected     *)
(* pool and still listed, settled or not.                                 *)
(***************************************************************************)
EXTENDS ConnectPage, FiniteSetTheorems, WellFoundedInduction, TLAPS

-----------------------------------------------------------------------------
(* The port order. A port list is a finite set of port numbers whose      *)
(* minima are numbers or missing. The rank of a port is the number of     *)
(* ports before it; ranks are distinct and cover 0..n-1, so a sorted      *)
(* arrangement exists, and in every one the i-th port has rank i-1.       *)

PortList(P, md) ==
    /\ IsFiniteSet(P) /\ P \subseteq Nat
    /\ \A k \in P : md[k] \in Nat \cup {NoMin}

Earlier(P, md, k) == {j \in P : Before(md, j, k)}

PortRank(P, md, k) == Cardinality(Earlier(P, md, k))

\* Before is a strict total order on port numbers.
LEMMA BeforeOrder ==
    ASSUME NEW md, NEW a \in Nat, NEW b \in Nat, NEW c \in Nat,
           md[a] \in Nat \cup {NoMin}, md[b] \in Nat \cup {NoMin},
           md[c] \in Nat \cup {NoMin}
    PROVE  /\ ~Before(md, a, a)
           /\ Before(md, a, b) => ~Before(md, b, a)
           /\ a # b => Before(md, a, b) \/ Before(md, b, a)
           /\ Before(md, a, b) /\ Before(md, b, c) => Before(md, a, c)
<1>1. GetMin(md, a) \in Nat /\ GetMin(md, b) \in Nat /\ GetMin(md, c) \in Nat
  BY PortOrderAssumption DEF GetMin
<1>2. QED
  BY <1>1 DEF Before

\* A port's rank is below the number of ports.
LEMMA RankRange ==
    ASSUME NEW P, NEW md, PortList(P, md), NEW k \in P
    PROVE  /\ IsFiniteSet(Earlier(P, md, k))
           /\ PortRank(P, md, k) \in 0..Cardinality(P) - 1
<1>1. Earlier(P, md, k) \subseteq P \ {k}
  BY BeforeOrder DEF PortList, Earlier
<1>2. IsFiniteSet(P \ {k}) /\ Cardinality(P \ {k}) = Cardinality(P) - 1
  BY FS_RemoveElement DEF PortList
<1>3. IsFiniteSet(Earlier(P, md, k))
      /\ Cardinality(Earlier(P, md, k)) <= Cardinality(P \ {k})
  BY <1>1, <1>2, FS_Subset
<1>4. Cardinality(Earlier(P, md, k)) \in Nat
  BY <1>3, FS_CardinalityType
<1>5. QED
  BY <1>2, <1>3, <1>4 DEF PortRank

\* A port before another has a smaller rank.
LEMMA RankMonotone ==
    ASSUME NEW P, NEW md, PortList(P, md), NEW a \in P, NEW b \in P,
           Before(md, a, b)
    PROVE  PortRank(P, md, a) < PortRank(P, md, b)
<1>1. Earlier(P, md, a) \subseteq Earlier(P, md, b)
  BY BeforeOrder DEF PortList, Earlier
<1>2. a \in Earlier(P, md, b) /\ a \notin Earlier(P, md, a)
  BY BeforeOrder DEF PortList, Earlier
<1>3. IsFiniteSet(Earlier(P, md, b))
  BY RankRange
<1>4. /\ Cardinality(Earlier(P, md, a)) <= Cardinality(Earlier(P, md, b))
      /\ Cardinality(Earlier(P, md, a)) # Cardinality(Earlier(P, md, b))
  BY <1>1, <1>2, <1>3, FS_Subset
<1>5. PortRank(P, md, a) \in Nat /\ PortRank(P, md, b) \in Nat
  BY RankRange
<1>6. QED
  BY <1>4, <1>5 DEF PortRank

\* Distinct ports have distinct ranks.
LEMMA RankInjective ==
    ASSUME NEW P, NEW md, PortList(P, md), NEW a \in P, NEW b \in P,
           PortRank(P, md, a) = PortRank(P, md, b)
    PROVE  a = b
<1> SUFFICES ASSUME a # b PROVE FALSE
  OBVIOUS
<1>1. Before(md, a, b) \/ Before(md, b, a)
  BY BeforeOrder DEF PortList
<1>2. PortRank(P, md, a) \in Nat /\ PortRank(P, md, b) \in Nat
  BY RankRange
<1>3. CASE Before(md, a, b)
  BY <1>2, <1>3, RankMonotone
<1>4. CASE Before(md, b, a)
  BY <1>2, <1>4, RankMonotone
<1>5. QED
  BY <1>1, <1>3, <1>4

\* Every rank below the number of ports is the rank of a port.
LEMMA RankOnto ==
    ASSUME NEW P, NEW md, PortList(P, md), NEW i \in 0..Cardinality(P) - 1
    PROVE  \E k \in P : PortRank(P, md, k) = i
<1> DEFINE n == Cardinality(P)
           r == [k \in P |-> PortRank(P, md, k)]
<1>1. n \in Nat /\ n >= 1
  BY FS_CardinalityType DEF PortList
<1>2. IsFiniteSet(0..n-1) /\ Cardinality(0..n-1) = n
  BY <1>1, FS_Interval
<1>3. r \in Injection(P, 0..n-1)
  BY RankRange, RankInjective DEF Injection, IsInjective
<1>4. r \in Surjection(P, 0..n-1)
  BY <1>2, <1>3, FS_Injection
<1>5. QED
  BY <1>4 DEF Surjection


\* e lists n ports, each Before every later one.
SortedPorts(md, e, n) == \A i, j \in 1..n : i < j => Before(md, e[i], e[j])

\* Listing the ports by rank sorts them.
LEMMA SortedExists ==
    ASSUME NEW P, NEW md, PortList(P, md)
    PROVE  \E e \in [1..Cardinality(P) -> P] : SortedPorts(md, e, Cardinality(P))
<1> DEFINE n == Cardinality(P)
           e == [i \in 1..n |-> CHOOSE k \in P : PortRank(P, md, k) = i - 1]
<1>1. n \in Nat
  BY FS_CardinalityType DEF PortList
<1>2. ASSUME NEW i \in 1..n
      PROVE  e[i] \in P /\ PortRank(P, md, e[i]) = i - 1
  <2>1. \E k \in P : PortRank(P, md, k) = i - 1
    BY <1>1, RankOnto
  <2>2. QED
    BY <2>1
<1>3. e \in [1..n -> P]
  BY <1>2
<1>4. SortedPorts(md, e, n)
  <2> SUFFICES ASSUME NEW i \in 1..n, NEW j \in 1..n, i < j
               PROVE  Before(md, e[i], e[j])
    BY DEF SortedPorts
  <2>1. e[i] \in P /\ e[j] \in P /\ PortRank(P, md, e[i]) = i - 1
        /\ PortRank(P, md, e[j]) = j - 1
    BY <1>2
  <2>2. e[i] # e[j]
    BY <2>1
  <2>3. ~Before(md, e[j], e[i])
    BY <2>1, RankMonotone
  <2>4. QED
    BY <2>1, <2>2, <2>3, BeforeOrder DEF PortList
<1>5. QED
  BY <1>3, <1>4

\* In a sorted list of the ports, the i-th port has rank i-1.
LEMMA SortedRank ==
    ASSUME NEW P, NEW md, PortList(P, md),
           NEW e \in [1..Cardinality(P) -> P], SortedPorts(md, e, Cardinality(P)),
           NEW i \in 1..Cardinality(P)
    PROVE  PortRank(P, md, e[i]) = i - 1
<1> DEFINE n == Cardinality(P)
           Img == {e[j] : j \in 1..i-1}
           g == [j \in 1..i-1 |-> e[j]]
<1>1. n \in Nat /\ IsFiniteSet(1..n) /\ Cardinality(1..n) = n
  BY FS_CardinalityType, FS_Interval DEF PortList
<1>2. \A j, l \in 1..n : j < l => Before(md, e[j], e[l])
  BY DEF SortedPorts
<1>3. e \in Injection(1..n, P)
  <2>1. ASSUME NEW j \in 1..n, NEW l \in 1..n, j # l PROVE e[j] # e[l]
    <3>1. e[j] \in P /\ e[l] \in P
      OBVIOUS
    <3>2. e[j] \in Nat /\ e[l] \in Nat /\ md[e[j]] \in Nat \cup {NoMin}
          /\ md[e[l]] \in Nat \cup {NoMin}
      BY <3>1 DEF PortList
    <3>3. Before(md, e[j], e[l]) \/ Before(md, e[l], e[j])
      BY <1>1, <1>2, <2>1
    <3>4. QED
      BY <3>2, <3>3, BeforeOrder
  <2>2. QED
    BY <2>1 DEF Injection, IsInjective
<1>4. e \in Surjection(1..n, P)
  BY <1>1, <1>3, FS_Injection DEF PortList
<1>5. Earlier(P, md, e[i]) = Img
  <2>1. ASSUME NEW j \in 1..i-1 PROVE Before(md, e[j], e[i])
    BY <1>1, <1>2
  <2>2. ASSUME NEW x \in P, Before(md, x, e[i]) PROVE x \in Img
    <3>1. PICK j \in 1..n : e[j] = x
      BY <1>4 DEF Surjection
    <3>2. ~(j >= i)
      <4>1. CASE j = i
        BY <2>2, <3>1, <4>1, BeforeOrder DEF PortList
      <4>2. CASE j > i
        BY <1>2, <2>2, <3>1, <4>2, BeforeOrder DEF PortList
      <4>3. QED
        BY <4>1, <4>2
    <3>3. QED
      BY <3>1, <3>2
  <2>3. Img \subseteq P
    BY <1>1
  <2>4. QED
    BY <2>1, <2>2, <2>3 DEF Earlier
<1>6. IsFiniteSet(1..i-1) /\ Cardinality(1..i-1) = i - 1
  BY FS_Interval
<1>7. g \in Surjection(1..i-1, Img) /\ g \in Injection(1..i-1, Img)
  <2>1. 1..i-1 \subseteq 1..n
    BY <1>1
  <2>2. g \in [1..i-1 -> Img]
    OBVIOUS
  <2>3. \A y \in Img : \E j \in 1..i-1 : g[j] = y
    OBVIOUS
  <2>4. \A j, l \in 1..i-1 : g[j] = g[l] => j = l
    BY <1>3, <2>1 DEF Injection, IsInjective
  <2>5. QED
    BY <2>2, <2>3, <2>4 DEF Surjection, Injection, IsInjective
<1>8. Cardinality(Img) = i - 1
  BY <1>6, <1>7, FS_Surjection
<1>9. QED
  BY <1>5, <1>8 DEF PortRank

\* portEntries lists every port once, sorted.
LEMMA PortEntriesSorted ==
    ASSUME NEW P, NEW md, PortList(P, md)
    PROVE  /\ PortEntries(P, md) \in [1..Cardinality(P) -> P]
           /\ SortedPorts(md, PortEntries(P, md), Cardinality(P))
BY SortedExists DEF PortEntries, SortedPorts

\* The default port is listed, and it is the port with half of the ports
\* (rounded down) before it.
LEMMA MidPortIsMiddle ==
    ASSUME NEW P, NEW md, PortList(P, md), P # {}
    PROVE  /\ MidPort(P, md) \in P
           /\ PortRank(P, md, MidPort(P, md)) = Cardinality(P) \div 2
<1> DEFINE n == Cardinality(P)
           e == PortEntries(P, md)
           m == n \div 2
<1>1. n \in Nat /\ n >= 1
  <2>1. n \in Nat /\ (n = 0 <=> P = {})
    BY FS_CardinalityType, FS_EmptySet DEF PortList
  <2>2. QED
    BY <2>1
<1>2. e \in [1..n -> P] /\ SortedPorts(md, e, n)
  BY PortEntriesSorted
<1>3. Len(e) = n
  <2>1. e \in Seq(P)
    BY <1>1, <1>2
  <2>2. DOMAIN e = 1..n
    BY <1>2
  <2>3. QED
    BY <1>1, <2>1, <2>2
<1>4. m \in Nat /\ m + 1 \in 1..n /\ (IF m < n - 1 THEN m ELSE n - 1) = m
  BY <1>1
<1>5. MidPort(P, md) = e[m + 1]
  BY <1>3, <1>4 DEF MidPort
<1>6. e[m + 1] \in P /\ PortRank(P, md, e[m + 1]) = m
  <2>1. e[m + 1] \in P
    BY <1>2, <1>4
  <2>2. PortRank(P, md, e[m + 1]) = (m + 1) - 1
    BY <1>2, <1>4, SortedRank, Zenon
  <2>3. QED
    BY <1>4, <2>1, <2>2
<1>7. QED
  BY <1>5, <1>6

-----------------------------------------------------------------------------
(* The pools and the two effects' updaters.                               *)

\* Every listed pool has a port list of numbers with numeric or missing minima.
LEMMA ListedFacts ==
    ASSUME TypeOK, NEW p \in present
    PROVE  /\ p \in PoolIds /\ p # None
           /\ listed[p] \in PortMaps
           /\ PortList(PortsOf(p), listed[p])
           /\ PortsOf(p) \subseteq Ports
<1>1. PICK S \in SUBSET PoolIds : listed \in [S -> PortMaps]
  BY DEF TypeOK
<1>2. p \in PoolIds /\ listed[p] \in PortMaps
  BY <1>1 DEF present
<1>3. QED
  BY <1>2, ConnectAssumption DEF PortList, PortsOf, Ports

\* orderedPools[0] is a listed pool: the symbols' order has a least element.
LEMMA FirstPoolIn ==
    ASSUME NEW S \in SUBSET PoolIds, S # {}
    PROVE  FirstPool(S) \in S
<1> DEFINE R == {Rank[q] : q \in S}
<1>1. R \subseteq Nat /\ R # {}
  BY ConnectAssumption
<1>2. PICK r \in R : \A x \in R : ~(<<x, r>> \in OpToRel(<, Nat))
  BY <1>1, NatLessThanWellFounded, WFMin
<1>3. PICK p \in S : Rank[p] = r
  OBVIOUS
<1>4. \A q \in S : Rank[p] <= Rank[q]
  <2> SUFFICES ASSUME NEW q \in S PROVE Rank[p] <= Rank[q]
    OBVIOUS
  <2>1. Rank[q] \in R /\ Rank[q] \in Nat /\ r \in Nat
    BY <1>1
  <2>2. ~(Rank[q] < r)
    BY <1>2, <2>1 DEF OpToRel
  <2>3. QED
    BY <1>3, <2>1, <2>2
<1>5. QED
  BY <1>4 DEF FirstPool

\* The pool effect picks a listed pool.
LEMMA PickPoolIn ==
    ASSUME TypeOK, present # {}, NEW prev
    PROVE  PickPool(prev) \in present
<1>1. present \subseteq PoolIds
  BY ListedFacts
<1>2. QED
  BY <1>1, FirstPoolIn DEF PickPool

\* The port effect picks a port of the pool, null only when it has none.
LEMMA PickPortIn ==
    ASSUME TypeOK, NEW pool \in present \cup {None}, NEW prev
    PROVE  /\ PickPort(pool, prev) = None <=> (pool = None \/ PortsOf(pool) = {})
           /\ PickPort(pool, prev) # None => PickPort(pool, prev) \in PortsOf(pool)
<1>1. CASE pool = None
  BY <1>1 DEF PickPort
<1>2. CASE pool # None /\ PortsOf(pool) = {}
  BY <1>2 DEF PickPort
<1>3. CASE pool # None /\ PortsOf(pool) # {}
  <2>1. pool \in present /\ PortList(PortsOf(pool), listed[pool])
    BY <1>3, ListedFacts
  <2>2. MidPort(PortsOf(pool), listed[pool]) \in PortsOf(pool)
    BY <1>3, <2>1, MidPortIsMiddle
  <2>3. PickPort(pool, prev) \in PortsOf(pool)
    BY <1>3, <2>2 DEF PickPort
  <2>4. None \notin PortsOf(pool)
    BY <2>1, ConnectAssumption DEF PortList
  <2>5. QED
    BY <1>3, <2>3, <2>4
<1>4. QED
  BY <1>1, <1>2, <1>3

\* The active pool is a listed pool or null.
LEMMA ActivePoolIn ==
    ASSUME NEW id PROVE ActiveOf(id) \in present \cup {None}
BY DEF ActiveOf

\* The user's last pick is listed and still what the page selects.
ManualHeld ==
    manual # None =>
        /\ manual[1] # None /\ manual[1] \in present
        /\ manual[2] \in PortsOf(manual[1])
        /\ activePoolId = manual[1] /\ selectedPort = manual[2]

LEMMA InitManualHeld == Init => ManualHeld
BY DEF Init, ManualHeld

LEMMA RefreshManualHeld ==
    ASSUME ManualHeld, NEW S \in SUBSET PoolIds, NEW f \in [S -> PortMaps], Refresh(f)
    PROVE  ManualHeld'
<1>1. CASE manual' = None
  BY <1>1 DEF ManualHeld
<1>2. CASE manual' # None
  <2>1. /\ manual' = manual /\ manual # None
        /\ manual[1] \in DOMAIN f /\ manual[2] \in DOMAIN f[manual[1]]
    BY <1>2 DEF Refresh
  <2>2. listed' = f /\ UNCHANGED <<activePoolId, selectedPort>>
    BY DEF Refresh
  <2>3. QED
    BY <2>1, <2>2 DEF ManualHeld, present, PortsOf
<1>3. QED
  BY <1>1, <1>2

\* Without ?pool= the effects keep a pool and a port that are listed.
LEMMA RunEffectsManualHeld ==
    ASSUME Requested = None, ManualHeld, RunEffects
    PROVE  ManualHeld'
<1> SUFFICES ASSUME manual' # None PROVE ManualHeld'
  BY DEF ManualHeld
<1>1. manual' = manual /\ listed' = listed /\ manual # None
  BY DEF RunEffects
<1>2. /\ activePoolId = manual[1] /\ activePoolId \in present /\ activePoolId # None
      /\ selectedPort = manual[2] /\ selectedPort \in PortsOf(activePoolId)
  BY <1>1 DEF ManualHeld
<1>3. PickPool(activePoolId) = activePoolId
  BY <1>2 DEF PickPool
<1>4. activePoolId' = activePoolId
  BY <1>2, <1>3 DEF RunEffects
<1>5. ActivePool = activePoolId
  BY <1>2 DEF ActivePool, ActiveOf
<1>6. PickPort(ActivePool, selectedPort) = selectedPort
  BY <1>2, <1>5 DEF PickPort
<1>7. selectedPort' = selectedPort
  BY <1>6 DEF RunEffects
<1>8. QED
  BY <1>1, <1>2, <1>4, <1>7 DEF ManualHeld, present, PortsOf

LEMMA ClickPortManualHeld ==
    ASSUME NEW k, ClickPort(k)
    PROVE  ManualHeld'
<1>1. ActivePool # None /\ k \in PortsOf(ActivePool)
  BY DEF ClickPort
<1>2. activePoolId \in present /\ ActivePool = activePoolId
  BY <1>1 DEF ActivePool, ActiveOf
<1>3. /\ manual' = <<activePoolId, k>> /\ selectedPort' = k
      /\ UNCHANGED <<listed, activePoolId>>
  BY <1>2 DEF ClickPort
<1>4. QED
  BY <1>1, <1>2, <1>3 DEF ManualHeld, present, PortsOf

LEMMA ManualHeldStep ==
    ASSUME Requested = None, ManualHeld, [Next]_vars
    PROVE  ManualHeld'
<1>1. CASE \E S \in SUBSET PoolIds : \E f \in [S -> PortMaps] : Refresh(f)
  BY <1>1, RefreshManualHeld
<1>2. CASE RunEffects
  BY <1>2, RunEffectsManualHeld
<1>3. CASE \E p \in PoolIds : ClickPool(p)
  BY <1>3 DEF ClickPool, ManualHeld
<1>4. CASE \E p \in present : \E k \in PortsOf(p) : ClickPort(k)
  BY <1>4, ClickPortManualHeld
<1>5. CASE UNCHANGED vars
  BY <1>5 DEF vars, ManualHeld, present, PortsOf
<1>6. QED
  BY <1>1, <1>2, <1>3, <1>4, <1>5 DEF Next

(* On a page opened without ?pool=, a port the user picked stays selected, *)
(* with its pool, across every poll that still lists it and every run of  *)
(* the two effects (ManualPortSticky): the pool effect keeps a listed     *)
(* previous pool, and the port effect a listed previous port.             *)
THEOREM ManualPortStickyHolds ==
    ASSUME Requested = None
    PROVE  Spec => []ManualPortSticky
<1>1. Init => ManualHeld
  BY InitManualHeld
<1>2. ManualHeld /\ [Next]_vars => ManualHeld'
  BY ManualHeldStep
<1>3. ManualHeld => ManualPortSticky
  BY DEF ManualHeld, ManualPortSticky
<1>4. QED
  BY <1>1, <1>2, <1>3, PTL DEF Spec

-----------------------------------------------------------------------------
(* SettledSelection. The effects run in two commits, so the invariant    *)
(* says what each one leaves behind: once the pool effect has run, a      *)
(* listed pool is active (PoolsHeld), and once the port effect has run    *)
(* over the active pool's portEntries, the selected port is one of its    *)
(* ports (PortHeld). A refresh or a change of the active pool marks the   *)
(* effect due again, except when the active pool stays unlisted.          *)

\* The selected port s agrees with the pool a.
PortFits(s, a) ==
    /\ s = None <=> (a = None \/ PortsOf(a) = {})
    /\ s # None => s \in PortsOf(a)

PoolsHeld == (~poolsDirty /\ present # {}) => activePoolId \in present

PortHeld == ~portsDirty => PortFits(selectedPort, ActivePool)

IInv == TypeOK /\ PoolsHeld /\ PortHeld

LEMMA InitIInv == Init => IInv
<1> SUFFICES ASSUME Init PROVE IInv
  OBVIOUS
<1>1. listed \in [{} -> PortMaps]
  BY DEF Init
<1>2. TypeOK
  BY <1>1, ConnectAssumption DEF Init, TypeOK
<1>3. QED
  BY <1>2 DEF Init, IInv, PoolsHeld, PortHeld

LEMMA RefreshIInv ==
    ASSUME IInv, NEW S \in SUBSET PoolIds, NEW f \in [S -> PortMaps], Refresh(f)
    PROVE  IInv'
<1>0. TypeOK /\ PortHeld /\ Settled
  BY DEF IInv, Refresh
<1>1. /\ listed' = f /\ poolsDirty' = TRUE
      /\ portsDirty' = (activePoolId \in present \/ activePoolId \in DOMAIN f)
      /\ manual' \in {None, manual}
      /\ UNCHANGED <<activePoolId, selectedPort>>
  BY DEF Refresh
<1>2. TypeOK'
  BY <1>0, <1>1 DEF TypeOK
<1>3. PortHeld'
  <2> SUFFICES ASSUME ~portsDirty' PROVE PortFits(selectedPort, ActivePool)'
    BY DEF PortHeld
  <2>1. activePoolId \notin present /\ activePoolId \notin DOMAIN listed'
    BY <1>1
  <2>2. ActivePool = None /\ ActivePool' = None
    BY <1>1, <2>1 DEF ActivePool, ActiveOf, present
  <2>3. selectedPort = None
    BY <1>0, <2>2 DEF PortHeld, Settled, PortFits
  <2>4. QED
    BY <1>1, <2>2, <2>3 DEF PortFits
<1>4. QED
  BY <1>1, <1>2, <1>3 DEF IInv, PoolsHeld

LEMMA RunEffectsIInv ==
    ASSUME IInv, RunEffects
    PROVE  IInv'
<1> DEFINE newActive == IF poolsDirty /\ present # {}
                        THEN PickPool(activePoolId) ELSE activePoolId
<1>0. TypeOK /\ PoolsHeld /\ PortHeld
  BY DEF IInv
<1>1. /\ activePoolId' = newActive
      /\ selectedPort' = IF portsDirty THEN PickPort(ActivePool, selectedPort)
                         ELSE selectedPort
      /\ poolsDirty' = FALSE
      /\ portsDirty' = (ActiveOf(newActive) # ActivePool)
      /\ UNCHANGED <<listed, manual>>
  BY DEF RunEffects
<1>2. present # {} => newActive \in present
  BY <1>0, PickPoolIn DEF PoolsHeld
<1>3. newActive \in PoolIds \cup {None}
  BY <1>0, <1>2, ListedFacts DEF TypeOK
<1>4. ActivePool \in present \cup {None}
  BY ActivePoolIn DEF ActivePool
<1>5. PortFits(selectedPort', ActivePool)
  <2>1. CASE portsDirty
    BY <1>0, <1>1, <1>4, <2>1, PickPortIn DEF PortFits
  <2>2. CASE ~portsDirty
    BY <1>0, <1>1, <2>2 DEF PortHeld
  <2>3. QED
    BY <2>1, <2>2
<1>6. ActivePool' = ActiveOf(newActive) /\ present' = present
      /\ \A p : PortsOf(p)' = PortsOf(p)
  BY <1>1 DEF ActivePool, ActiveOf, present, PortsOf
<1>7. TypeOK'
  <2>1. selectedPort' \in Ports \cup {None}
    <3>1. CASE ActivePool = None
      BY <1>5, <3>1 DEF PortFits
    <3>2. CASE ActivePool # None
      BY <1>0, <1>4, <1>5, <3>2, ListedFacts DEF PortFits
    <3>3. QED
      BY <3>1, <3>2
  <2>2. \E S \in SUBSET PoolIds : listed' \in [S -> PortMaps]
    BY <1>0, <1>1 DEF TypeOK
  <2>3. manual' \in {None} \cup {<<p, k>> : p \in PoolIds, k \in Ports}
    BY <1>0, <1>1 DEF TypeOK
  <2>4. poolsDirty' \in BOOLEAN /\ portsDirty' \in BOOLEAN
    BY <1>1
  <2>5. QED
    BY <1>3, <1>1, <2>1, <2>2, <2>3, <2>4 DEF TypeOK
<1>8. PoolsHeld'
  BY <1>1, <1>2, <1>6 DEF PoolsHeld
<1>9. PortHeld'
  <2> SUFFICES ASSUME ~portsDirty' PROVE PortFits(selectedPort, ActivePool)'
    BY DEF PortHeld
  <2>1. ActivePool' = ActivePool
    BY <1>1, <1>6
  <2>2. PortsOf(ActivePool)' = PortsOf(ActivePool)
    BY <1>1, <2>1 DEF PortsOf
  <2>3. QED
    BY <1>5, <2>1, <2>2 DEF PortFits
<1>10. QED
  BY <1>7, <1>8, <1>9 DEF IInv

LEMMA ClickPoolIInv ==
    ASSUME IInv, NEW p \in PoolIds, ClickPool(p)
    PROVE  IInv'
<1>0. TypeOK /\ PortHeld /\ Settled /\ p \in present
  BY DEF IInv, ClickPool
<1>1. /\ activePoolId' = p /\ portsDirty' = (p # activePoolId) /\ manual' = None
      /\ UNCHANGED <<listed, selectedPort, poolsDirty>>
  BY DEF ClickPool
<1>2. TypeOK'
  BY <1>0, <1>1 DEF TypeOK
<1>3. PoolsHeld'
  BY <1>0, <1>1 DEF PoolsHeld, present
<1>4. PortHeld'
  <2> SUFFICES ASSUME ~portsDirty' PROVE PortFits(selectedPort, ActivePool)'
    BY DEF PortHeld
  <2>1. UNCHANGED <<listed, activePoolId, selectedPort>>
    BY <1>1
  <2>2. PortFits(selectedPort, ActivePool)
    BY <1>0 DEF PortHeld, Settled
  <2>3. QED
    BY <2>1, <2>2 DEF PortFits, ActivePool, ActiveOf, present, PortsOf
<1>5. QED
  BY <1>2, <1>3, <1>4 DEF IInv

LEMMA ClickPortIInv ==
    ASSUME IInv, NEW k, ClickPort(k)
    PROVE  IInv'
<1>0. TypeOK /\ PoolsHeld /\ ActivePool # None /\ k \in PortsOf(ActivePool)
  BY DEF IInv, ClickPort
<1>1. /\ selectedPort' = k /\ manual' = <<ActivePool, k>>
      /\ UNCHANGED <<listed, activePoolId, poolsDirty, portsDirty>>
  BY DEF ClickPort
<1>2. ActivePool \in present /\ ActivePool' = ActivePool
  BY <1>0, <1>1, ActivePoolIn DEF ActivePool, ActiveOf, present
<1>3. ActivePool \in PoolIds /\ k \in Ports /\ k \in Nat
  BY <1>0, <1>2, ListedFacts DEF PortList
<1>4. TypeOK'
  BY <1>0, <1>1, <1>3 DEF TypeOK
<1>5. PortFits(selectedPort, ActivePool)'
  <2>1. k # None
    BY <1>3, ConnectAssumption
  <2>2. QED
    BY <1>0, <1>1, <1>2, <2>1 DEF PortFits, PortsOf
<1>6. QED
  BY <1>1, <1>4, <1>5 DEF IInv, PoolsHeld, PortHeld, present

LEMMA IInvStep == IInv /\ [Next]_vars => IInv'
<1> SUFFICES ASSUME IInv, [Next]_vars PROVE IInv'
  OBVIOUS
<1>1. CASE \E S \in SUBSET PoolIds : \E f \in [S -> PortMaps] : Refresh(f)
  BY <1>1, RefreshIInv
<1>2. CASE RunEffects
  BY <1>2, RunEffectsIInv
<1>3. CASE \E p \in PoolIds : ClickPool(p)
  BY <1>3, ClickPoolIInv
<1>4. CASE \E p \in present : \E k \in PortsOf(p) : ClickPort(k)
  BY <1>4, ClickPortIInv
<1>5. CASE UNCHANGED vars
  BY <1>5 DEF vars, IInv, TypeOK, PoolsHeld, PortHeld, PortFits, ActivePool,
            ActiveOf, present, PortsOf
<1>6. QED
  BY <1>1, <1>2, <1>3, <1>4, <1>5 DEF Next

LEMMA IInvHolds == Spec => []IInv
BY InitIInv, IInvStep, PTL DEF Spec

\* The page's pool, port and history variables keep their types in every
\* reachable state (TypeOK).
THEOREM TypeCorrect == Spec => []TypeOK
BY IInvHolds, PTL DEF IInv

(* Whatever the polls list and whatever the user clicks, whenever both    *)
(* effects have run a listed pool is active if any is listed, and the     *)
(* selected port is one of its ports, null only when it has none          *)
(* (SettledSelection): the port effect of the second commit sees the pool *)
(* the pool effect chose in the first.                                    *)
THEOREM SettledSelectionInvariant == Spec => []SettledSelection
<1>1. IInv => SettledSelection
  BY DEF IInv, PoolsHeld, PortHeld, PortFits, Settled, SettledSelection
<1>2. QED
  BY <1>1, IInvHolds, PTL

=============
