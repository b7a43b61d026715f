----------------------- MODULE PoolPageWidgets_proofs -----------------------
(***************************************************************************)
(* Proofs about the pool page's widgets, for every set of pools, coins,    *)
(* search terms, copy fields and wallets, and every bound.                 *)
(*                                                                         *)
(* NoPriceWithoutId is not inductive. A price answer commits the coin of   *)
(* its load, so the proof needs that a load of the live instance is for   *)
(* the coin the instance was started with, and that once the effects have *)
(* run that coin is the pool's (IInv). An instance started without a coin *)
(* has cleared the price, and a new instance number is never that of a    *)
(* load already in flight. The type invariant needs one counting fact:    *)
(* the effect runs left before the next navigation (EffectRunsLeft) fit   *)
(* in the bound the navigations leave.                                    *)
(***************************************************************************)
EXTENDS PoolPageWidgets, TLAPS

USE WidgetsAssumption
USE DEF EffectRunsLeft

LoadRecs == [ep: 1..MaxEpochs, coin: GeckoIds, n: 1..MaxLoads]

\* The coin of the shown pool is a coin id or none.
LEMMA CoingeckoIdType ==
    ASSUME TypeOK
    PROVE  CoingeckoId \in GeckoIds \cup {None}
BY DEF TypeOK, CoingeckoId

\* The effect-run budget is 0, 1 or 2, before and after a step.
LEMMA EffectRunsLeftType == EffectRunsLeft \in 0..2 /\ EffectRunsLeft' \in 0..2
BY DEF EffectRunsLeft

\* The steps that change none of the price effect's state nor where the
\* page is keep the four facts about the price effect.
LEMMA PriceFactsKept ==
    ASSUME IInv, UNCHANGED <<poolId, loaded, dirty, left>>,
           UNCHANGED priceVars
    PROVE  /\ epoch' + EffectRunsLeft' <= MaxEpochs
           /\ effectCoin' \in GeckoIds => epoch' >= 1
           /\ \A l \in loads' : l.ep <= epoch' /\ (l.ep = epoch' => l.coin = effectCoin')
           /\ (~dirty' /\ left' = None) => effectCoin' = CoingeckoId'
           /\ effectCoin' = None => priceInfo' = None
BY DEF IInv, priceVars, EffectRunsLeft, CoingeckoId

LEMMA InitIInv == Init => IInv
<1> SUFFICES ASSUME Init PROVE IInv
  OBVIOUS
<1>1. /\ poolId \in PoolIds /\ loaded \in BOOLEAN /\ dirty \in BOOLEAN
      /\ clipboard \in BOOLEAN
  BY Zenon DEF Init
<1>2. /\ poolSearch \in Terms \cup {Empty} /\ minerLookupValue \in Queries
      /\ left \in {None} \cup [wallet: Wallets, pool: PoolIds]
  BY DEF Init, Queries
<1>3. /\ epoch \in 0..MaxEpochs /\ effectCoin \in GeckoIds \cup {None, NoEffect}
      /\ loads \subseteq LoadRecs /\ loadCount \in 0..MaxLoads
      /\ priceInfo \in {None} \cup [coin: GeckoIds, ep: 1..MaxEpochs]
  BY DEF Init
<1>4. /\ copiedField \in Fields \cup {None} /\ timers \in Nat
      /\ writes \in [Fields -> Nat]
  BY DEF Init, NoWrites
<1>5. TypeOK
  BY <1>1, <1>2, <1>3, <1>4 DEF TypeOK, LoadRecs
<1>6. epoch + EffectRunsLeft <= MaxEpochs
  BY DEF Init, EffectRunsLeft, CoingeckoId
<1>7. QED
  BY <1>5, <1>6 DEF Init, IInv

\* A step of the price effect keeps the types when its five variables get
\* values of their types.
LEMMA PriceStepType ==
    ASSUME TypeOK,
           UNCHANGED <<poolId, loaded, poolSearch, minerLookupValue, left, clipboard>>,
           UNCHANGED <<copiedField, timers, writes>>,
           dirty' \in BOOLEAN,
           epoch' \in 0..MaxEpochs,
           effectCoin' \in GeckoIds \cup {None, NoEffect},
           loads' \subseteq LoadRecs,
           loadCount' \in 0..MaxLoads,
           priceInfo' \in {None} \cup [coin: GeckoIds, ep: 1..MaxEpochs]
    PROVE  TypeOK'
BY DEF TypeOK, LoadRecs

\* A step of the copy badge, the search box or the hero input keeps the
\* types when the variables it writes get values of their types.
LEMMA CopyStepType ==
    ASSUME TypeOK,
           UNCHANGED <<poolId, loaded, dirty, left, clipboard>>,
           UNCHANGED <<epoch, effectCoin, loads, loadCount, priceInfo>>,
           poolSearch' \in Terms \cup {Empty},
           minerLookupValue' \in Queries,
           copiedField' \in Fields \cup {None},
           timers' \in Nat,
           writes' \in [Fields -> Nat]
    PROVE  TypeOK'
BY DEF TypeOK

\* The facts about the numbers that the steps below keep using.
LEMMA IInvNumbers ==
    ASSUME IInv
    PROVE  /\ epoch \in 0..MaxEpochs /\ loadCount \in 0..MaxLoads
           /\ epoch + EffectRunsLeft <= MaxEpochs
           /\ EffectRunsLeft \in 0..2
BY EffectRunsLeftType DEF IInv, TypeOK

LEMMA PoolsArriveIInv == IInv /\ PoolsArrive => IInv'
<1> SUFFICES ASSUME IInv, PoolsArrive PROVE IInv'
  OBVIOUS
<1>0. /\ epoch \in 0..MaxEpochs /\ epoch + EffectRunsLeft <= MaxEpochs
      /\ EffectRunsLeft \in 0..2 /\ EffectRunsLeft' \in 0..2
  BY IInvNumbers, EffectRunsLeftType
<1>1. loaded = FALSE /\ loaded' = TRUE /\ dirty' = TRUE
      /\ UNCHANGED <<poolId, poolSearch, minerLookupValue, left, clipboard>>
      /\ UNCHANGED <<epoch, effectCoin, loads, loadCount, priceInfo>>
      /\ UNCHANGED <<copiedField, timers, writes>>
  BY DEF PoolsArrive, priceVars, copyVars
<1>2. TypeOK'
  BY <1>1 DEF IInv, TypeOK
<1>3. epoch' + EffectRunsLeft' <= MaxEpochs
  <2>1. EffectRunsLeft' <= EffectRunsLeft
    BY <1>1 DEF EffectRunsLeft, CoingeckoId
  <2>2. QED
    BY <1>0, <1>1, <2>1
<1>4. QED
  BY <1>1, <1>2, <1>3 DEF IInv

LEMMA RunEffectsIInv == IInv /\ RunEffects => IInv'
<1> SUFFICES ASSUME IInv, RunEffects PROVE IInv'
  OBVIOUS
<1>0. /\ epoch \in 0..MaxEpochs /\ epoch + EffectRunsLeft <= MaxEpochs
      /\ EffectRunsLeft \in 0..2 /\ EffectRunsLeft' \in 0..2
  BY IInvNumbers, EffectRunsLeftType
<1>1. /\ dirty' = FALSE /\ left = None
      /\ UNCHANGED <<poolId, loaded, poolSearch, minerLookupValue, left, clipboard>>
      /\ UNCHANGED <<copiedField, timers, writes>>
  BY DEF RunEffects, copyVars
<1>2. CoingeckoId \in GeckoIds \cup {None} /\ CoingeckoId' = CoingeckoId
  BY <1>1, CoingeckoIdType DEF IInv, CoingeckoId
<1>3. CASE CoingeckoId = effectCoin
  <2>1. UNCHANGED <<epoch, effectCoin, loads, loadCount, priceInfo>>
    BY <1>3 DEF RunEffects, priceVars
  <2>2. TypeOK'
    BY <1>1, <2>1 DEF IInv, TypeOK
  <2>3. EffectRunsLeft' <= EffectRunsLeft
    BY <1>1, <1>2, <2>1 DEF EffectRunsLeft
  <2>4. epoch' + EffectRunsLeft' <= MaxEpochs
    BY <1>0, <2>1, <2>3
  <2>5. (~dirty' /\ left' = None) => effectCoin' = CoingeckoId'
    BY <1>2, <1>3, <2>1
  <2>6. QED
    BY <1>1, <2>1, <2>2, <2>4, <2>5 DEF IInv
<1>4. CASE CoingeckoId # effectCoin
  <2>1. epoch' = epoch + 1 /\ effectCoin' = CoingeckoId
    BY <1>4 DEF RunEffects
  <2>2. EffectRunsLeft = 1 + EffectRunsLeft'
    BY <1>1, <1>2, <1>4, <2>1 DEF EffectRunsLeft
  <2>3. epoch' + EffectRunsLeft' <= MaxEpochs /\ epoch' \in 1..MaxEpochs
    BY <1>0, <2>1, <2>2
  <2>4. CASE CoingeckoId = None
    <3>1. priceInfo' = None /\ UNCHANGED <<loads, loadCount>>
      BY <1>4, <2>4 DEF RunEffects
    <3>2. TypeOK'
      <4>1. loads' \subseteq LoadRecs /\ loadCount' \in 0..MaxLoads
        BY <3>1 DEF IInv, TypeOK, LoadRecs
      <4>2. dirty' \in BOOLEAN
        BY <1>1
      <4>3. epoch' \in 0..MaxEpochs
        BY <2>3
      <4>4. effectCoin' \in GeckoIds \cup {None, NoEffect}
        BY <2>1, <2>4
      <4>5. priceInfo' \in {None} \cup [coin: GeckoIds, ep: 1..MaxEpochs]
        BY <3>1
      <4>6. QED
        BY <1>1, <4>1, <4>2, <4>3, <4>4, <4>5, PriceStepType DEF IInv
    <3>3. \A l \in loads' : l.ep <= epoch' /\ (l.ep = epoch' => l.coin = effectCoin')
      BY <2>1, <3>1 DEF IInv, TypeOK
    <3>4. QED
      BY <1>1, <1>2, <2>1, <2>3, <2>4, <3>1, <3>2, <3>3 DEF IInv
  <2>5. CASE CoingeckoId # None
    <3> DEFINE new == [ep |-> epoch + 1, coin |-> CoingeckoId, n |-> 1]
    <3>1. loads' = loads \cup {new} /\ loadCount' = 1 /\ UNCHANGED priceInfo
      BY <1>4, <2>5 DEF RunEffects
    <3>2. new \in LoadRecs
      <4>1. epoch + 1 \in 1..MaxEpochs /\ CoingeckoId \in GeckoIds /\ 1 \in 1..MaxLoads
        BY <1>2, <2>1, <2>3, <2>5
      <4>2. QED
        BY <4>1 DEF LoadRecs
    <3>3. TypeOK'
      <4>1. loads' \subseteq LoadRecs /\ loadCount' \in 0..MaxLoads
        BY <3>1, <3>2 DEF IInv, TypeOK, LoadRecs
      <4>2. effectCoin' \in GeckoIds \cup {None, NoEffect}
        BY <1>2, <2>1
      <4>3. priceInfo' \in {None} \cup [coin: GeckoIds, ep: 1..MaxEpochs]
        BY <3>1 DEF IInv, TypeOK
      <4>4. dirty' \in BOOLEAN
        BY <1>1
      <4>5. epoch' \in 0..MaxEpochs
        BY <2>3
      <4>6. QED
        BY <1>1, <4>1, <4>2, <4>3, <4>4, <4>5, PriceStepType DEF IInv
    <3>4. \A l \in loads' : l.ep <= epoch' /\ (l.ep = epoch' => l.coin = effectCoin')
      <4>1. SUFFICES ASSUME NEW l \in loads'
                     PROVE  l.ep <= epoch' /\ (l.ep = epoch' => l.coin = effectCoin')
        OBVIOUS
      <4>2. CASE l = new
        BY <2>1, <4>2
      <4>3. CASE l \in loads
        <5>1. l.ep \in Nat /\ l.ep <= epoch
          BY <4>3 DEF IInv, TypeOK
        <5>2. QED
          BY <1>0, <2>1, <5>1
      <4>4. QED
        BY <3>1, <4>2, <4>3
    <3>5. QED
      BY <1>1, <1>2, <2>1, <2>3, <2>5, <3>1, <3>3, <3>4 DEF IInv
  <2>6. QED
    BY <2>4, <2>5
<1>5. QED
  BY <1>3, <1>4

LEMMA PriceTickIInv == IInv /\ PriceTick => IInv'
<1> SUFFICES ASSUME IInv, PriceTick PROVE IInv'
  OBVIOUS
<1> DEFINE new == [ep |-> epoch, coin |-> effectCoin, n |-> loadCount + 1]
<1>0. /\ epoch \in 0..MaxEpochs /\ loadCount \in 0..MaxLoads
  BY IInvNumbers
<1>1. /\ effectCoin \in GeckoIds /\ loadCount < MaxLoads
      /\ loadCount' = loadCount + 1 /\ loads' = loads \cup {new}
      /\ UNCHANGED <<poolId, loaded, dirty, poolSearch, minerLookupValue, left,
                     epoch, effectCoin, priceInfo, clipboard>>
      /\ UNCHANGED <<copiedField, timers, writes>>
  BY DEF PriceTick, copyVars
<1>2. epoch >= 1
  BY <1>1 DEF IInv
<1>3. new \in LoadRecs
  BY <1>0, <1>1, <1>2 DEF LoadRecs
<1>4. TypeOK'
  <2>1. loads' \subseteq LoadRecs
    BY <1>1, <1>3 DEF IInv, TypeOK, LoadRecs
  <2>2. loadCount' \in 0..MaxLoads
    BY <1>0, <1>1
  <2>3. /\ dirty' \in BOOLEAN /\ epoch' \in 0..MaxEpochs
        /\ effectCoin' \in GeckoIds \cup {None, NoEffect}
        /\ priceInfo' \in {None} \cup [coin: GeckoIds, ep: 1..MaxEpochs]
    BY <1>1 DEF IInv, TypeOK
  <2>4. QED
    BY <1>1, <2>1, <2>2, <2>3, PriceStepType DEF IInv
<1>5. \A l \in loads' : l.ep <= epoch' /\ (l.ep = epoch' => l.coin = effectCoin')
  BY <1>0, <1>1 DEF IInv
<1>6. QED
  BY <1>1, <1>4, <1>5 DEF IInv, CoingeckoId

LEMMA PriceAnswerIInv ==
    ASSUME IInv, NEW l \in loads, NEW o \in {"ok", "noentry", "failed"},
           PriceAnswer(l, o)
    PROVE  IInv'
<1>1. /\ loads' = loads \ {l}
      /\ UNCHANGED <<poolId, loaded, dirty, poolSearch, minerLookupValue, left,
                     epoch, effectCoin, loadCount, clipboard>>
      /\ UNCHANGED <<copiedField, timers, writes>>
  BY DEF PriceAnswer, copyVars
<1>2. l \in LoadRecs /\ l.ep <= epoch /\ (l.ep = epoch => l.coin = effectCoin)
  BY DEF IInv, TypeOK, LoadRecs
<1>3. priceInfo' \in {priceInfo, None}
      \/ (l.ep = epoch /\ priceInfo' = [coin |-> l.coin, ep |-> l.ep])
  BY DEF PriceAnswer
<1>4. priceInfo' \in {None} \cup [coin: GeckoIds, ep: 1..MaxEpochs]
  BY <1>2, <1>3 DEF IInv, TypeOK, LoadRecs
<1>5. effectCoin = None => priceInfo' = None
  <2>1. l.coin # None
    BY <1>2 DEF LoadRecs
  <2>2. QED
    BY <1>2, <1>3, <2>1 DEF IInv
<1>6. TypeOK'
  <2>1. loads' \subseteq LoadRecs /\ loadCount' \in 0..MaxLoads
    BY <1>1 DEF IInv, TypeOK, LoadRecs
  <2>2. /\ dirty' \in BOOLEAN /\ epoch' \in 0..MaxEpochs
        /\ effectCoin' \in GeckoIds \cup {None, NoEffect}
    BY <1>1 DEF IInv, TypeOK
  <2>3. QED
    BY <1>1, <1>4, <2>1, <2>2, PriceStepType DEF IInv
<1>7. QED
  BY <1>1, <1>5, <1>6 DEF IInv, CoingeckoId

LEMMA SetPoolSearchIInv ==
    ASSUME IInv, NEW t \in Terms \cup {Empty}, SetPoolSearch(t)
    PROVE  IInv'
<1>1. /\ poolSearch' = t
      /\ UNCHANGED <<poolId, loaded, dirty, minerLookupValue, left, clipboard>>
      /\ UNCHANGED priceVars /\ UNCHANGED copyVars
  BY DEF SetPoolSearch
<1>2. TypeOK'
  BY <1>1, CopyStepType DEF IInv, TypeOK, priceVars, copyVars
<1>3. QED
  BY <1>1, <1>2, PriceFactsKept DEF IInv

LEMMA SetMinerLookupValueIInv ==
    ASSUME IInv, NEW q \in Queries, SetMinerLookupValue(q)
    PROVE  IInv'
<1>1. /\ minerLookupValue' = q
      /\ UNCHANGED <<poolId, loaded, dirty, poolSearch, left, clipboard>>
      /\ UNCHANGED priceVars /\ UNCHANGED copyVars
  BY DEF SetMinerLookupValue
<1>2. TypeOK'
  BY <1>1, CopyStepType DEF IInv, TypeOK, priceVars, copyVars
<1>3. QED
  BY <1>1, <1>2, PriceFactsKept DEF IInv

LEMMA SwitchPoolIInv ==
    ASSUME IInv, NEW p \in PoolIds, NEW fresh \in BOOLEAN, SwitchPool(p, fresh)
    PROVE  IInv'
<1>0. /\ epoch \in 0..MaxEpochs /\ epoch + 3 <= MaxEpochs
      /\ left = None /\ loaded
  BY IInvNumbers DEF SwitchPool
<1>1. /\ poolId' = p /\ dirty' = TRUE
      /\ UNCHANGED <<left, loads, clipboard>>
  BY DEF SwitchPool
<1>2. CASE fresh
  <2>1. /\ epoch' = epoch + 1 /\ effectCoin' = NoEffect /\ loadCount' = 0
        /\ loaded' = FALSE /\ priceInfo' = None
        /\ poolSearch' = Empty /\ minerLookupValue' = Empty
        /\ copiedField' = None /\ timers' = 0 /\ writes' = NoWrites
    BY <1>2 DEF SwitchPool
  <2>2. TypeOK'
    <3>1. /\ poolId' \in PoolIds /\ loaded' \in BOOLEAN /\ dirty' \in BOOLEAN
          /\ clipboard' \in BOOLEAN
      BY <1>1, <2>1 DEF IInv, TypeOK
    <3>2. poolSearch' \in Terms \cup {Empty} /\ minerLookupValue' \in Queries
      BY <2>1 DEF Queries
    <3>3. /\ left' \in {None} \cup [wallet: Wallets, pool: PoolIds]
          /\ loads' \subseteq [ep: 1..MaxEpochs, coin: GeckoIds, n: 1..MaxLoads]
      BY <1>1 DEF IInv, TypeOK
    <3>4. /\ epoch' \in 0..MaxEpochs /\ effectCoin' \in GeckoIds \cup {None, NoEffect}
          /\ loadCount' \in 0..MaxLoads
      BY <1>0, <2>1
    <3>5. /\ priceInfo' \in {None} \cup [coin: GeckoIds, ep: 1..MaxEpochs]
          /\ copiedField' \in Fields \cup {None} /\ timers' \in Nat
      BY <2>1
    <3>6. writes' \in [Fields -> Nat]
      BY <2>1 DEF NoWrites
    <3>7. QED
      BY <3>1, <3>2, <3>3, <3>4, <3>5, <3>6 DEF TypeOK
  <2>3. epoch' + EffectRunsLeft' <= MaxEpochs
    BY <1>0, <1>1, <2>1
  <2>4. \A l \in loads' : l.ep <= epoch' /\ (l.ep = epoch' => l.coin = effectCoin')
    <3>1. SUFFICES ASSUME NEW l \in loads PROVE l.ep <= epoch + 1 /\ l.ep # epoch + 1
      BY <1>1, <2>1
    <3>2. l.ep \in Nat /\ l.ep <= epoch
      BY DEF IInv, TypeOK
    <3>3. QED
      BY <1>0, <3>2
  <2>5. QED
    BY <1>1, <2>1, <2>2, <2>3, <2>4 DEF IInv
<1>3. CASE ~fresh
  <2>1. UNCHANGED <<epoch, effectCoin, loadCount, loaded, priceInfo, poolSearch,
                    minerLookupValue, copiedField, timers, writes>>
    BY <1>3 DEF SwitchPool
  <2>2. TypeOK'
    BY <1>1, <2>1 DEF IInv, TypeOK
  <2>3. epoch' + EffectRunsLeft' <= MaxEpochs
    BY <1>0, <1>1, <2>1
  <2>4. QED
    BY <1>1, <2>1, <2>2, <2>3 DEF IInv
<1>4. QED
  BY <1>2, <1>3

LEMMA HandleMinerLookupSubmitIInv == IInv /\ HandleMinerLookupSubmit => IInv'
<1> SUFFICES ASSUME IInv, HandleMinerLookupSubmit PROVE IInv'
  OBVIOUS
<1>0. /\ epoch \in 0..MaxEpochs /\ epoch + 3 <= MaxEpochs
  BY IInvNumbers DEF HandleMinerLookupSubmit
<1>1. /\ left' = [wallet |-> Trim(minerLookupValue), pool |-> poolId]
      /\ Trim(minerLookupValue) # Empty
      /\ epoch' = epoch + 1 /\ effectCoin' = NoEffect /\ loadCount' = 0
      /\ UNCHANGED <<poolId, loaded, dirty, poolSearch, minerLookupValue,
                     loads, priceInfo, clipboard>>
      /\ UNCHANGED <<copiedField, timers, writes>>
  BY DEF HandleMinerLookupSubmit, copyVars
<1>2. left' \in [wallet: Wallets, pool: PoolIds] /\ left' # None
  <2>1. Trim(minerLookupValue) \in Wallets
    BY <1>1 DEF Trim
  <2>2. left' \in [wallet: Wallets, pool: PoolIds]
    BY <1>1, <2>1 DEF IInv, TypeOK
  <2>3. QED
    BY <2>2
<1>3. TypeOK'
  <2>1. /\ poolId' \in PoolIds /\ loaded' \in BOOLEAN /\ dirty' \in BOOLEAN
        /\ clipboard' \in BOOLEAN /\ poolSearch' \in Terms \cup {Empty}
        /\ minerLookupValue' \in Queries
    BY <1>1 DEF IInv, TypeOK
  <2>2. /\ loads' \subseteq [ep: 1..MaxEpochs, coin: GeckoIds, n: 1..MaxLoads]
        /\ priceInfo' \in {None} \cup [coin: GeckoIds, ep: 1..MaxEpochs]
    BY <1>1 DEF IInv, TypeOK
  <2>3. /\ copiedField' \in Fields \cup {None} /\ timers' \in Nat
        /\ writes' \in [Fields -> Nat]
    BY <1>1 DEF IInv, TypeOK
  <2>4. /\ epoch' \in 0..MaxEpochs /\ effectCoin' \in GeckoIds \cup {None, NoEffect}
        /\ loadCount' \in 0..MaxLoads
    BY <1>0, <1>1
  <2>5. QED
    BY <1>2, <2>1, <2>2, <2>3, <2>4 DEF TypeOK
<1>4. \A l \in loads' : l.ep <= epoch' /\ (l.ep = epoch' => l.coin = effectCoin')
  <2>1. SUFFICES ASSUME NEW l \in loads PROVE l.ep <= epoch + 1 /\ l.ep # epoch + 1
    BY <1>1
  <2>2. l.ep \in Nat /\ l.ep <= epoch
    BY DEF IInv, TypeOK
  <2>3. QED
    BY <1>0, <2>2
<1>5. epoch' + EffectRunsLeft' <= MaxEpochs
  BY <1>0, <1>1, <1>2
<1>6. QED
  BY <1>1, <1>2, <1>3, <1>4, <1>5 DEF IInv

LEMMA BackIInv == IInv /\ Back => IInv'
<1> SUFFICES ASSUME IInv, Back PROVE IInv'
  OBVIOUS
<1>0. /\ epoch \in 0..MaxEpochs /\ epoch + EffectRunsLeft <= MaxEpochs
  BY IInvNumbers
<1>1. /\ left # None /\ left' = None /\ loaded' = FALSE /\ dirty' = TRUE
      /\ poolSearch' = Empty /\ minerLookupValue' = Empty /\ priceInfo' = None
      /\ copiedField' = None /\ timers' = 0 /\ writes' = NoWrites
      /\ UNCHANGED <<poolId, epoch, effectCoin, loads, loadCount, clipboard>>
  BY DEF Back
<1>2. TypeOK'
  BY <1>1 DEF IInv, TypeOK, NoWrites, Queries
<1>3. epoch' + EffectRunsLeft' <= MaxEpochs
  BY <1>0, <1>1
<1>4. QED
  BY <1>1, <1>2, <1>3 DEF IInv

LEMMA HandleCopyIInv ==
    ASSUME IInv, NEW f \in Fields, NEW throws \in BOOLEAN, HandleCopy(f, throws)
    PROVE  IInv'
<1>1. /\ UNCHANGED <<poolId, loaded, dirty, poolSearch, minerLookupValue, left,
                     clipboard>>
      /\ UNCHANGED priceVars
  BY DEF HandleCopy
<1>2. /\ copiedField' \in Fields \cup {None} /\ timers' \in Nat
      /\ writes' \in [Fields -> Nat]
  <2>1. CASE clipboard
    <3>1. writes' = [writes EXCEPT ![f] = @ + 1]
          /\ UNCHANGED <<copiedField, timers>>
      BY <2>1 DEF HandleCopy
    <3>2. QED
      BY <3>1 DEF IInv, TypeOK
  <2>2. CASE ~clipboard /\ throws
    <3>1. UNCHANGED <<writes, copiedField, timers>>
      BY <2>2 DEF HandleCopy
    <3>2. QED
      BY <3>1 DEF IInv, TypeOK
  <2>3. CASE ~clipboard /\ ~throws
    <3>1. /\ UNCHANGED writes /\ copiedField' = f
          /\ timers' = timers + 1
      BY <2>3 DEF HandleCopy
    <3>2. timers \in Nat
      BY DEF IInv, TypeOK
    <3>3. QED
      BY <3>1, <3>2 DEF IInv, TypeOK
  <2>4. QED
    BY <2>1, <2>2, <2>3
<1>3. TypeOK'
  BY <1>1, <1>2, CopyStepType DEF IInv, TypeOK, priceVars
<1>4. QED
  BY <1>1, <1>3, PriceFactsKept DEF IInv

LEMMA WriteSettleIInv ==
    ASSUME IInv, NEW f \in Fields, NEW ok \in BOOLEAN, WriteSettle(f, ok)
    PROVE  IInv'
<1>1. /\ UNCHANGED <<poolId, loaded, dirty, poolSearch, minerLookupValue, left,
                     clipboard>>
      /\ UNCHANGED priceVars
      /\ writes[f] > 0 /\ writes' = [writes EXCEPT ![f] = @ - 1]
      /\ copiedField' = f
      /\ timers' = IF ok THEN timers + 1 ELSE timers
  BY DEF WriteSettle
<1>2. /\ copiedField' \in Fields \cup {None} /\ timers' \in Nat
      /\ writes' \in [Fields -> Nat]
  <2>1. writes \in [Fields -> Nat] /\ timers \in Nat
    BY DEF IInv, TypeOK
  <2>2. writes[f] - 1 \in Nat
    BY <1>1, <2>1
  <2>3. writes' \in [Fields -> Nat]
    BY <1>1, <2>1, <2>2
  <2>4. QED
    BY <1>1, <2>1, <2>3
<1>3. TypeOK'
  BY <1>1, <1>2, CopyStepType DEF IInv, TypeOK, priceVars
<1>4. QED
  BY <1>1, <1>3, PriceFactsKept DEF IInv

LEMMA ClearCopiedIInv == IInv /\ ClearCopied => IInv'
<1> SUFFICES ASSUME IInv, ClearCopied PROVE IInv'
  OBVIOUS
<1>1. /\ UNCHANGED <<poolId, loaded, dirty, poolSearch, minerLookupValue, left,
                     clipboard>>
      /\ UNCHANGED priceVars
      /\ timers > 0 /\ timers' = timers - 1 /\ copiedField' = None
      /\ UNCHANGED writes
  BY DEF ClearCopied
<1>2. /\ copiedField' \in Fields \cup {None} /\ timers' \in Nat
      /\ writes' \in [Fields -> Nat]
  <2>1. timers \in Nat /\ writes \in [Fields -> Nat]
    BY DEF IInv, TypeOK
  <2>2. timers' \in Nat
    <3>1. timers > 0 /\ timers' = timers - 1
      BY <1>1
    <3>2. QED
      BY <2>1, <3>1
  <2>3. copiedField' \in Fields \cup {None}
    BY <1>1
  <2>4. writes' \in [Fields -> Nat]
    BY <1>1, <2>1
  <2>5. QED
    BY <2>2, <2>3, <2>4
<1>3. TypeOK'
  BY <1>1, <1>2, CopyStepType DEF IInv, TypeOK, priceVars
<1>4. QED
  BY <1>1, <1>3, PriceFactsKept DEF IInv

LEMMA IInvStep == IInv /\ [Next]_vars => IInv'
<1> SUFFICES ASSUME IInv, [Next]_vars PROVE IInv'
  OBVIOUS
<1>1. CASE PoolsArrive
  BY <1>1, PoolsArriveIInv
<1>2. CASE RunEffects
  BY <1>2, RunEffectsIInv
<1>3. CASE PriceTick
  BY <1>3, PriceTickIInv
<1>4. CASE \E l \in loads, o \in {"ok", "noentry", "failed"} : PriceAnswer(l, o)
  BY <1>4, PriceAnswerIInv
<1>5. CASE \E t \in Terms \cup {Empty} : SetPoolSearch(t)
  BY <1>5, SetPoolSearchIInv
<1>6. CASE \E p \in PoolIds, fresh \in BOOLEAN : SwitchPool(p, fresh)
  BY <1>6, SwitchPoolIInv
<1>7. CASE \E q \in Queries : SetMinerLookupValue(q)
  BY <1>7, SetMinerLookupValueIInv
<1>8. CASE HandleMinerLookupSubmit
  BY <1>8, HandleMinerLookupSubmitIInv
<1>9. CASE Back
  BY <1>9, BackIInv
<1>10. CASE \E f \in Fields, throws \in BOOLEAN : HandleCopy(f, throws)
  BY <1>10, HandleCopyIInv
<1>11. CASE \E f \in Fields, ok \in BOOLEAN : WriteSettle(f, ok)
  BY <1>11, WriteSettleIInv
<1>12. CASE ClearCopied
  BY <1>12, ClearCopiedIInv
<1>13. CASE UNCHANGED vars
  <2>1. UNCHANGED <<poolId, loaded, dirty, left>> /\ UNCHANGED priceVars
    BY <1>13 DEF vars, priceVars
  <2>2. TypeOK'
    BY <1>13, CopyStepType DEF vars, IInv, TypeOK
  <2>3. QED
    BY <2>1, <2>2, PriceFactsKept DEF IInv
<1>14. QED
  BY <1>1, <1>2, <1>3, <1>4, <1>5, <1>6, <1>7, <1>8, <1>9, <1>10, <1>11,
     <1>12, <1>13 DEF Next

\* Type correctness of the pool page widgets (TypeOK): in particular no
\* effect instance is numbered past MaxEpochs, which needs the budget of
\* effect runs a pending commit still owes (EffectRunsLeft in IInv).
THEOREM TypeCorrect == Spec => []TypeOK
<1>1. Spec => []IInv
  BY InitIInv, IInvStep, PTL DEF Spec
<1>2. QED
  BY <1>1, PTL DEF IInv

\* Once the effects have run on the pool page, a pool whose coin has no
\* coingeckoId shows no price (NoPriceWithoutId): the `cancelled` flag of
\* the price effect keeps a late answer for an earlier coin from being
\* committed, and the effect itself clears the price when there is no id.
THEOREM NoPriceWithoutIdInvariant == Spec => []NoPriceWithoutId
<1>1. Spec => []IInv
  BY InitIInv, IInvStep, PTL DEF Spec
<1>2. IInv => NoPriceWithoutId
  BY DEF IInv, NoPriceWithoutId
<1>3. QED
  BY <1>1, <1>2, PTL

=============================================================================
