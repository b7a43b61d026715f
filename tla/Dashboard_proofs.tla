--------------------------- MODULE Dashboard_proofs ---------------------------
(***************************************************************************)
(* Proofs about the Navigation dashboard, for every finite set of pool ids *)
(* and every bound on the effect runs.                                     *)
(*                                                                         *)
(* DetailsForSelected is not inductive: an answer of the live instance     *)
(* commits its pool, and that this is the selected pool needs two more    *)
(* facts. A load of the live instance fetches the pool the instance       *)
(* captured, and once the effects have run the captured pool is the       *)
(* selected one (IInv). A new instance must also find no load already    *)
(* tagged with its number: every load is of an instance started so far.   *)
(* Until a pool is first selected nothing is loaded or shown.             *)
(*                                                                         *)
(* The same invariant gives the refinement of SectionView: every step is  *)
(* a Select, a ShowBlocks, a ShowPayments or leaves the view alone.       *)
(***************************************************************************)
EXTENDS Dashboard, WellFoundedInduction, TLAPS

USE DashboardAssumption

\* poolList[0].id is a listed pool: a finite set of naturals has a least
\* element (PoolsLoaded selects it).
LEMMA FirstPoolListed ==
    ASSUME NEW ps \in SUBSET PoolIds, ps # {}
    PROVE  FirstPool(ps) \in ps
<1>1. \E x \in ps : \A y \in ps : ~(<<y, x>> \in OpToRel(<, Nat))
  BY NatLessThanWellFounded, WFMin, DashboardAssumption
<1>2. PICK x \in ps : \A y \in ps : ~(<<y, x>> \in OpToRel(<, Nat))
  BY <1>1
<1>3. \A y \in ps : x <= y
  <2>1. SUFFICES ASSUME NEW y \in ps PROVE x <= y
    OBVIOUS
  <2>2. x \in Nat /\ y \in Nat
    OBVIOUS
  <2>3. ~(<<y, x>> \in OpToRel(<, Nat))
    BY <1>2
  <2>4. ~(y < x)
    BY <2>2, <2>3 DEF OpToRel
  <2>5. QED
    BY <2>2, <2>4
<1>4. QED
  BY <1>3, Zenon DEF FirstPool

LEMMA InitIInv == Init => IInv
<1> SUFFICES ASSUME Init PROVE IInv
  OBVIOUS
<1>1. /\ pools \subseteq PoolIds /\ selectedPoolId \in PoolIds \cup {NoPool}
      /\ effectPool \in PoolIds \cup {NoPool}
      /\ lookup \in PoolIds \cup {NoPool}
  BY DEF Init
<1>2. /\ loading \in BOOLEAN /\ poolsError \in BOOLEAN
      /\ dirty \in BOOLEAN /\ minerLoading \in BOOLEAN
  BY Zenon DEF Init
<1>3. /\ epoch \in 0..MaxEpochs /\ poolLoads \subseteq 1..MaxEpochs
      /\ details \subseteq DetailLoads
  BY DashboardAssumption DEF Init
<1>4. /\ blocksFor \in Shown /\ paymentsFor \in Shown
      /\ minerFor \in PoolIds \cup {None}
  BY DEF Init, Shown
<1>5. QED
  BY <1>1, <1>2, <1>3, <1>4 DEF Init, IInv, TypeOK, DetailsForSelected

LEMMA RunEffectsIInv == IInv /\ RunEffects => IInv'
<1> SUFFICES ASSUME IInv, RunEffects PROVE IInv'
  OBVIOUS
<1>1. /\ epoch' = epoch + 1 /\ epoch + 1 \in 1..MaxEpochs
      /\ effectPool' = selectedPoolId /\ dirty' = FALSE
      /\ loading' = TRUE /\ poolLoads' = poolLoads \cup {epoch + 1}
      /\ UNCHANGED <<pools, selectedPoolId, poolsError, minerLoading, lookup,
                     minerFor>>
  BY DEF RunEffects, IInv, TypeOK
<1>2. CASE selectedPoolId = NoPool
  <2>0. details = {} /\ effectPool = NoPool /\ blocksFor = NoData /\ paymentsFor = NoData
    BY <1>2 DEF IInv
  <2>1. blocksFor' = NoData /\ paymentsFor' = NoData /\ UNCHANGED details
    BY <1>2, <2>0 DEF RunEffects, Emptied
  <2>2. TypeOK'
    <3>1. blocksFor' \in Shown /\ paymentsFor' \in Shown
      BY <2>1 DEF Shown
    <3>2. poolLoads' \subseteq 1..MaxEpochs /\ epoch' \in 0..MaxEpochs
      BY <1>1 DEF IInv, TypeOK
    <3>3. QED
      BY <1>1, <2>1, <3>1, <3>2 DEF IInv, TypeOK
  <2>3. \A d \in details' : d.ep <= epoch' /\ (d.ep = epoch' => d.pool = effectPool')
    BY <1>1, <2>1 DEF IInv, TypeOK, DetailLoads
  <2>4. DetailsForSelected'
    BY <2>1 DEF DetailsForSelected
  <2>5. QED
    BY <1>1, <1>2, <2>0, <2>1, <2>2, <2>3, <2>4 DEF IInv

<1>3. CASE selectedPoolId # NoPool
  <2> DEFINE new == [ep |-> epoch + 1, pool |-> selectedPoolId, stage |-> "blocks"]
  <2>1. details' = details \cup {new} /\ UNCHANGED <<blocksFor, paymentsFor>>
    BY <1>3 DEF RunEffects
  <2>2. new \in DetailLoads
    BY <1>1, <1>3 DEF IInv, TypeOK, DetailLoads, Stages
  <2>3. TypeOK'
    <3>1. details' \subseteq DetailLoads /\ poolLoads' \subseteq 1..MaxEpochs
      BY <1>1, <2>1, <2>2 DEF IInv, TypeOK
    <3>2. epoch' \in 0..MaxEpochs /\ effectPool' \in PoolIds \cup {NoPool}
      BY <1>1 DEF IInv, TypeOK
    <3>3. QED
      BY <1>1, <2>1, <3>1, <3>2 DEF IInv, TypeOK
  <2>4. \A d \in details' : d.ep <= epoch' /\ (d.ep = epoch' => d.pool = effectPool')
    <3>1. SUFFICES ASSUME NEW d \in details'
                   PROVE  d.ep <= epoch' /\ (d.ep = epoch' => d.pool = effectPool')
      OBVIOUS
    <3>2. CASE d = new
      BY <1>1, <3>2
    <3>3. CASE d \in details
      <4>1. d.ep \in Nat /\ d.ep <= epoch
        BY <3>3 DEF IInv, TypeOK, DetailLoads
      <4>2. QED
        BY <1>1, <4>1 DEF IInv, TypeOK
    <3>4. QED
      BY <2>1, <3>2, <3>3
  <2>5. \E d \in details' : d.ep = epoch' /\ d.stage = "blocks"
    <3>1. new \in details' /\ new.ep = epoch' /\ new.stage = "blocks"
      BY <1>1, <2>1
    <3>2. QED
      BY <3>1
  <2>6. QED
    BY <1>1, <1>3, <2>3, <2>4, <2>5 DEF IInv, DetailsForSelected, DetailsRunning
<1>4. QED
  BY <1>2, <1>3

LEMMA PoolsTickIInv == IInv /\ PoolsTick => IInv'
BY DEF PoolsTick, IInv, TypeOK, DetailsForSelected, DetailsRunning

LEMMA PoolsLoadedIInv ==
    ASSUME IInv, NEW e \in 1..MaxEpochs, NEW ps \in SUBSET PoolIds,
           PoolsLoaded(e, ps)
    PROVE  IInv'
<1>1. UNCHANGED <<epoch, effectPool, details, blocksFor, paymentsFor,
                  minerLoading, lookup, minerFor>>
  BY DEF PoolsLoaded
<1>2. CASE e = epoch /\ effectPool = NoPool /\ ps # {}
  <2>1. selectedPoolId' = FirstPool(ps) /\ FirstPool(ps) \in PoolIds
    BY <1>2, FirstPoolListed DEF PoolsLoaded
  <2>2. dirty'
    <3>1. dirty' = (dirty \/ FirstPool(ps) # selectedPoolId)
      BY <1>2 DEF PoolsLoaded
    <3>2. ~dirty => selectedPoolId = NoPool
      BY <1>2 DEF IInv
    <3>3. QED
      BY <2>1, <3>1, <3>2
  <2>3. /\ pools' = ps /\ poolsError' = FALSE /\ loading' = FALSE
        /\ poolLoads' = poolLoads \ {e}
    BY <1>2 DEF PoolsLoaded
  <2>4. TypeOK'
    BY <1>1, <2>1, <2>2, <2>3 DEF IInv, TypeOK
  <2>5. selectedPoolId' # NoPool
    BY <2>1, DashboardAssumption
  <2>6. QED
    BY <1>1, <2>2, <2>4, <2>5 DEF IInv, DetailsForSelected
<1>3. CASE ~(e = epoch /\ effectPool = NoPool /\ ps # {})
  <2>1. UNCHANGED <<selectedPoolId, dirty>>
    BY <1>3 DEF PoolsLoaded
  <2>2. /\ pools' \in SUBSET PoolIds /\ poolsError' \in BOOLEAN
        /\ loading' \in BOOLEAN /\ poolLoads' = poolLoads \ {e}
    BY <1>3 DEF PoolsLoaded, IInv, TypeOK
  <2>3. TypeOK'
    BY <1>1, <2>1, <2>2 DEF IInv, TypeOK
  <2>4. QED
    BY <1>1, <2>1, <2>3 DEF IInv, DetailsForSelected, DetailsRunning
<1>4. QED
  BY <1>2, <1>3

LEMMA PoolsFailedIInv ==
    ASSUME IInv, NEW e \in 1..MaxEpochs, PoolsFailed(e)
    PROVE  IInv'
BY DEF PoolsFailed, IInv, TypeOK, DetailsForSelected, DetailsRunning

LEMMA DetailsTickIInv == IInv /\ DetailsTick => IInv'
<1> SUFFICES ASSUME IInv, DetailsTick PROVE IInv'
  OBVIOUS
<1> DEFINE new == [ep |-> epoch, pool |-> effectPool, stage |-> "blocks"]
<1>1. details' = details \cup {new}
      /\ UNCHANGED <<pools, selectedPoolId, loading, poolsError, epoch,
                     effectPool, dirty, poolLoads, blocksFor, paymentsFor,
                     minerLoading, lookup, minerFor>>
  BY DEF DetailsTick
<1>2. new \in DetailLoads
  BY DEF DetailsTick, IInv, TypeOK, DetailLoads, Stages
<1>3. selectedPoolId # NoPool
  BY DEF DetailsTick, IInv
<1>4. QED
  BY <1>1, <1>2, <1>3 DEF IInv, TypeOK, DetailsForSelected, DetailsRunning

LEMMA DetailsAnswerIInv ==
    ASSUME IInv, NEW d \in DetailLoads, NEW ok \in BOOLEAN, DetailsAnswer(d, ok)
    PROVE  IInv'
<1> DEFINE active == d.ep = epoch
           result == [pool |-> d.pool, ok |-> ok]
<1>1. UNCHANGED <<pools, selectedPoolId, loading, poolsError, epoch, effectPool,
                  dirty, poolLoads, minerLoading, lookup, minerFor>>
  BY DEF DetailsAnswer
<1>2. /\ d \in details /\ d.ep <= epoch /\ (active => d.pool = effectPool)
      /\ selectedPoolId # NoPool
  BY DEF DetailsAnswer, IInv
<1>3. result \in Shown /\ result # NoData /\ result.pool = d.pool
  BY DashboardAssumption DEF DetailLoads, Shown
<1>4. CASE d.stage = "blocks"
  <2> DEFINE next == [d EXCEPT !.stage = "payments"]
  <2>1. blocksFor' = (IF active THEN result ELSE blocksFor)
        /\ details' = (details \ {d}) \cup {next} /\ UNCHANGED paymentsFor
    BY <1>4 DEF DetailsAnswer
  <2>2. next \in DetailLoads /\ next.ep = d.ep /\ next.pool = d.pool
        /\ next.stage = "payments"
    BY DEF DetailLoads, Stages
  <2>3. TypeOK'
    BY <1>1, <1>3, <2>1, <2>2 DEF IInv, TypeOK
  <2>4. \A x \in details' : x.ep <= epoch' /\ (x.ep = epoch' => x.pool = effectPool')
    BY <1>1, <1>2, <2>1, <2>2 DEF IInv
  <2>5. DetailsForSelected'
    <3>1. CASE active
      BY <1>1, <1>2, <2>1, <2>2, <3>1 DEF IInv, DetailsForSelected, DetailsRunning
    <3>2. CASE ~active
      BY <1>1, <1>4, <2>1, <2>2, <3>2 DEF IInv, DetailsForSelected, DetailsRunning
    <3>3. QED
      BY <3>1, <3>2
  <2>6. QED
    BY <1>1, <1>2, <2>3, <2>4, <2>5 DEF IInv
<1>5. CASE d.stage # "blocks"
  <2>1. paymentsFor' = (IF active THEN result ELSE paymentsFor)
        /\ details' = details \ {d} /\ UNCHANGED blocksFor
    BY <1>5 DEF DetailsAnswer
  <2>2. TypeOK'
    BY <1>1, <1>3, <2>1 DEF IInv, TypeOK
  <2>3. \A x \in details' : x.ep <= epoch' /\ (x.ep = epoch' => x.pool = effectPool')
    BY <1>1, <2>1 DEF IInv
  <2>4. DetailsForSelected'
    <3>1. CASE active
      BY <1>1, <1>2, <1>5, <2>1, <3>1 DEF IInv, DetailsForSelected, DetailsRunning
    <3>2. CASE ~active
      BY <1>1, <1>5, <2>1, <3>2 DEF IInv, DetailsForSelected, DetailsRunning
    <3>3. QED
      BY <3>1, <3>2
  <2>5. QED
    BY <1>1, <1>2, <2>2, <2>3, <2>4 DEF IInv
<1>6. QED
  BY <1>4, <1>5

LEMMA SelectPoolIInv ==
    ASSUME IInv, NEW p \in PoolIds, SelectPool(p)
    PROVE  IInv'
<1>1. CASE p = selectedPoolId
  BY <1>1 DEF SelectPool, IInv, TypeOK, DetailsForSelected, DetailsRunning
<1>2. CASE p # selectedPoolId
  BY <1>2 DEF SelectPool, IInv, TypeOK, DetailsForSelected, DetailsRunning
<1>3. QED
  BY <1>1, <1>2

LEMMA MinerLookupIInv ==
    ASSUME IInv, NEW q \in BOOLEAN, MinerLookup(q)
    PROVE  IInv'
BY DEF MinerLookup, IInv, TypeOK, DetailsForSelected, DetailsRunning

LEMMA MinerAnswerIInv ==
    ASSUME IInv, NEW f \in BOOLEAN, MinerAnswer(f)
    PROVE  IInv'
BY DEF MinerAnswer, IInv, TypeOK, DetailsForSelected, DetailsRunning

LEMMA IInvStep == IInv /\ [Next]_vars => IInv'
<1> SUFFICES ASSUME IInv, [Next]_vars PROVE IInv'
  OBVIOUS
<1>1. CASE RunEffects
  BY <1>1, RunEffectsIInv
<1>2. CASE PoolsTick
  BY <1>2, PoolsTickIInv
<1>3. CASE \E e \in 1..MaxEpochs, ps \in SUBSET PoolIds : PoolsLoaded(e, ps)
  BY <1>3, PoolsLoadedIInv
<1>4. CASE \E e \in 1..MaxEpochs : PoolsFailed(e)
  BY <1>4, PoolsFailedIInv
<1>5. CASE DetailsTick
  BY <1>5, DetailsTickIInv
<1>6. CASE \E d \in DetailLoads, ok \in BOOLEAN : DetailsAnswer(d, ok)
  BY <1>6, DetailsAnswerIInv
<1>7. CASE \E p \in PoolIds : SelectPool(p)
  BY <1>7, SelectPoolIInv
<1>8. CASE \E q \in BOOLEAN : MinerLookup(q)
  BY <1>8, MinerLookupIInv
<1>9. CASE \E f \in BOOLEAN : MinerAnswer(f)
  BY <1>9, MinerAnswerIInv
<1>10. CASE UNCHANGED vars
  BY <1>10 DEF vars, IInv, TypeOK, DetailsForSelected, DetailsRunning
<1>11. QED
  BY <1>1, <1>2, <1>3, <1>4, <1>5, <1>6, <1>7, <1>8, <1>9, <1>10 DEF Next

LEMMA IInvHolds == Spec => []IInv
BY InitIInv, IInvStep, PTL DEF Spec

\* Type correctness of the dashboard (TypeOK): in particular the pool that
\* PoolsLoaded selects is always a listed pool id.
THEOREM TypeCorrect == Spec => []TypeOK
<1>1. Spec => []IInv
  BY IInvHolds
<1>2. QED
  BY <1>1, PTL DEF IInv

\* Once the effects have run, the blocks and payments shown are those of
\* the selected pool or empty, unless the live instance's own load has yet
\* to replace them (DetailsForSelected): the `active` flag of loadDetails
\* keeps every answer of a pool the user has left from being committed.
THEOREM DetailsForSelectedInvariant == Spec => []DetailsForSelected
<1>1. Spec => []IInv
  BY IInvHolds
<1>2. QED
  BY <1>1, PTL DEF IInv

-----------------------------------------------------------------------------
(* Refinement of SectionView. The current pool is effectPool; a new       *)
(* selection's effect run is Select, a committed answer of the live       *)
(* instance is ShowBlocks or ShowPayments, and every other step leaves    *)
(* the view alone. IInv gives what the answers need: a load of the live   *)
(* instance fetches effectPool. Before the first selection nothing is    *)
(* shown, so the effect run without a pool changes nothing in the view.   *)

LEMMA InitView == Init => View!Init
BY DEF Init, View!Init

LEMMA RunEffectsView ==
    ASSUME IInv, RunEffects
    PROVE  [View!Next]_View!avars
<1>1. effectPool' = selectedPoolId
  BY DEF RunEffects
<1>2. CASE selectedPoolId = NoPool
  <2>1. effectPool = NoPool /\ blocksFor = NoData /\ paymentsFor = NoData
    BY <1>2 DEF IInv
  <2>2. blocksFor' = NoData /\ paymentsFor' = NoData
    BY <1>2, <2>1 DEF RunEffects, Emptied
  <2>3. QED
    BY <1>1, <1>2, <2>1, <2>2 DEF View!avars
<1>3. CASE selectedPoolId # NoPool
  <2>1. selectedPoolId \in PoolIds
    BY <1>3 DEF IInv, TypeOK
  <2>2. View!Select(selectedPoolId)
    BY <1>1, <1>3 DEF RunEffects, View!Select
  <2>3. QED
    BY <2>1, <2>2 DEF View!Next
<1>4. QED
  BY <1>2, <1>3

LEMMA DetailsAnswerView ==
    ASSUME IInv, NEW d \in DetailLoads, NEW ok \in BOOLEAN, DetailsAnswer(d, ok)
    PROVE  [View!Next]_View!avars
<1>1. UNCHANGED effectPool /\ d \in details
  BY DEF DetailsAnswer
<1>2. CASE d.ep = epoch
  <2>1. d.pool = effectPool /\ effectPool \in PoolIds /\ effectPool # NoPool
    BY <1>1, <1>2, DashboardAssumption DEF IInv, DetailLoads
  <2>2. CASE d.stage = "blocks"
    <3>1. View!ShowBlocks(ok)
      BY <1>1, <1>2, <2>1, <2>2 DEF DetailsAnswer, View!ShowBlocks
    <3>2. QED
      BY <3>1 DEF View!Next
  <2>3. CASE d.stage # "blocks"
    <3>1. View!ShowPayments(ok)
      BY <1>1, <1>2, <2>1, <2>3 DEF DetailsAnswer, View!ShowPayments
    <3>2. QED
      BY <3>1 DEF View!Next
  <2>4. QED
    BY <2>2, <2>3
<1>3. CASE d.ep # epoch
  <2>1. UNCHANGED <<blocksFor, paymentsFor>>
    BY <1>3 DEF DetailsAnswer
  <2>2. QED
    BY <1>1, <2>1 DEF View!avars
<1>4. QED
  BY <1>2, <1>3

LEMMA StepView == IInv /\ [Next]_vars => [View!Next]_View!avars
<1> SUFFICES ASSUME IInv, [Next]_vars PROVE [View!Next]_View!avars
  OBVIOUS
<1>1. CASE RunEffects
  BY <1>1, RunEffectsView
<1>2. CASE \E d \in DetailLoads, ok \in BOOLEAN : DetailsAnswer(d, ok)
  BY <1>2, DetailsAnswerView
<1>3. CASE \/ PoolsTick \/ DetailsTick
           \/ \E e \in 1..MaxEpochs, ps \in SUBSET PoolIds : PoolsLoaded(e, ps)
           \/ \E e \in 1..MaxEpochs : PoolsFailed(e)
           \/ \E p \in PoolIds : SelectPool(p)
           \/ \E q \in BOOLEAN : MinerLookup(q)
           \/ \E f \in BOOLEAN : MinerAnswer(f)
  <2>1. UNCHANGED <<effectPool, blocksFor, paymentsFor>>
    BY <1>3 DEF PoolsTick, DetailsTick, PoolsLoaded, PoolsFailed, SelectPool,
                MinerLookup, MinerAnswer
  <2>2. QED
    BY <2>1 DEF View!avars
<1>4. CASE UNCHANGED vars
  BY <1>4 DEF vars, View!avars
<1>5. QED
  BY <1>1, <1>2, <1>3, <1>4 DEF Next

(* The dashboard's blocks and payments implement SectionView, the promise *)
(* the pool page's loader keeps (ImplementsView): with effectPool as the  *)
(* current pool, a section only ever changes to a result fetched for it.  *)
(* The `active` checks of loadDetails are what drop the answers of a pool *)
(* the user has left.                                                     *)
THEOREM Refinement == Spec => ImplementsView
<1>1. Spec => []IInv
  BY IInvHolds
<1>2. QED
  BY <1>1, InitView, StepView, PTL DEF Spec, ImplementsView, View!Spec

=====
