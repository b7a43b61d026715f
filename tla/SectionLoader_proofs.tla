------------------------ MODULE SectionLoader_proofs ------------------------
(***************************************************************************)
(* Proofs about the pool page's blocks and payments loader, for every set *)
(* of pools and every bound on the effect instances.                      *)
(*                                                                         *)
(* The refinement rests on one fact of the inductive invariant IInv: a    *)
(* load of the live instance fetches the pool that instance captured. So  *)
(* an answer that passes the `active` check is a result for the view's    *)
(* current pool, and every other answer leaves the view unchanged.        *)
(***************************************************************************)
EXTENDS SectionLoader, TLAPS

-----------------------------------------------------------------------------
(* The inductive invariant.                                               *)

LEMMA InitIInv == Init => IInv
BY LoaderAssumption DEF Init, IInv, TypeOK, LoadsOfInstance, Shown

LEMMA RunEffectsIInv == IInv /\ RunEffects => IInv'
<1> SUFFICES ASSUME IInv, RunEffects PROVE IInv'
  OBVIOUS
<1> DEFINE new == [ep |-> epoch + 1, pool |-> poolId, stage |-> "blocks"]
<1>1. epoch \in 0..(MaxEpochs - 1) /\ epoch' = epoch + 1
  BY LoaderAssumption DEF IInv, TypeOK, LoadsOfInstance, RunEffects
<1>2. new \in Loads
  <2>1. epoch + 1 \in 1..MaxEpochs
    BY <1>1, LoaderAssumption
  <2>2. poolId \in PoolIds
    BY DEF IInv, TypeOK
  <2>3. QED
    BY <2>1, <2>2 DEF Loads
<1>3. loads' = loads \cup {new}
  BY DEF RunEffects
<1>4. TypeOK'
  <2>1. epoch' \in 0..MaxEpochs /\ effectPool' \in PoolIds \cup {None}
    BY <1>1, LoaderAssumption DEF IInv, TypeOK, RunEffects
  <2>2. loads' \subseteq Loads
    BY <1>2, <1>3 DEF IInv, TypeOK
  <2>3. QED
    BY <2>1, <2>2 DEF IInv, TypeOK, RunEffects
<1>5. ASSUME NEW m \in loads'
      PROVE  m.ep <= epoch' /\ (m.ep = epoch' => m.pool = effectPool')
  <2>1. CASE m \in loads
    <3>1. m \in Loads /\ m.ep <= epoch
      BY <2>1 DEF IInv, TypeOK, LoadsOfInstance
    <3>2. QED
      BY <1>1, <3>1 DEF Loads
  <2>2. CASE m = new
    BY <1>1, <2>2 DEF RunEffects
  <2>3. QED
    BY <1>3, <2>1, <2>2
<1>6. QED
  BY <1>1, <1>4, <1>5 DEF IInv, LoadsOfInstance, Active, RunEffects

LEMMA TickIInv == IInv /\ Tick => IInv'
<1> SUFFICES ASSUME IInv, Tick PROVE IInv'
  OBVIOUS
<1> DEFINE new == [ep |-> epoch, pool |-> effectPool, stage |-> "blocks"]
<1>1. effectPool \in PoolIds /\ epoch \in 1..MaxEpochs
  BY LoaderAssumption DEF IInv, TypeOK, LoadsOfInstance, Tick
<1>2. new \in Loads
  BY <1>1 DEF Loads
<1>3. loads' = loads \cup {new}
  BY DEF Tick
<1>4. TypeOK'
  <2>1. loads' \subseteq Loads
    BY <1>2, <1>3 DEF IInv, TypeOK
  <2>2. QED
    BY <2>1 DEF IInv, TypeOK, Tick
<1>5. ASSUME NEW m \in loads'
      PROVE  m.ep <= epoch' /\ (m.ep = epoch' => m.pool = effectPool')
  <2>1. CASE m \in loads
    BY <2>1 DEF IInv, LoadsOfInstance, Active, Tick
  <2>2. CASE m = new
    BY <1>1, <2>2 DEF Tick
  <2>3. QED
    BY <1>3, <2>1, <2>2
<1>6. QED
  BY <1>4, <1>5 DEF IInv, LoadsOfInstance, Active, Tick

LEMMA AnswerIInv ==
    ASSUME IInv, NEW l \in loads, NEW ok \in BOOLEAN, Answer(l, ok)
    PROVE  IInv'
<1> DEFINE next == [l EXCEPT !.stage = "payments"]
<1>1. l \in Loads /\ l.ep <= epoch /\ (Active(l) => l.pool = effectPool)
  BY DEF IInv, TypeOK, LoadsOfInstance
<1>2. next \in Loads /\ next.ep = l.ep /\ next.pool = l.pool
  BY <1>1 DEF Loads
<1>3. loads' \subseteq loads \cup {next}
  BY DEF Answer
<1>4. UNCHANGED <<poolId, epoch, effectPool, dirty>>
  BY DEF Answer
<1>5. blocks' \in Shown /\ payments' \in Shown
  <2>1. [pool |-> l.pool, ok |-> ok] \in Shown
    BY <1>1 DEF Loads, Shown
  <2>2. QED
    BY <2>1 DEF IInv, TypeOK, Answer
<1>6. TypeOK'
  <2>1. loads' \subseteq Loads
    BY <1>2, <1>3 DEF IInv, TypeOK
  <2>2. QED
    BY <1>4, <1>5, <2>1 DEF IInv, TypeOK
<1>7. ASSUME NEW m \in loads'
      PROVE  m.ep <= epoch' /\ (m.ep = epoch' => m.pool = effectPool')
  <2>1. CASE m \in loads
    BY <1>4, <2>1 DEF IInv, LoadsOfInstance, Active
  <2>2. CASE m = next
    BY <1>1, <1>2, <1>4, <2>2 DEF Active
  <2>3. QED
    BY <1>3, <2>1, <2>2
<1>8. QED
  BY <1>4, <1>6, <1>7 DEF IInv, LoadsOfInstance, Active

LEMMA NavigateIInv ==
    ASSUME IInv, NEW p \in PoolIds, Navigate(p)
    PROVE  IInv'
<1>1. epoch \in 0..(MaxEpochs - 2) /\ poolId' \in PoolIds /\ dirty' = TRUE
      /\ loads' = loads
  BY LoaderAssumption DEF IInv, TypeOK, Navigate
<1>2. CASE UNCHANGED <<epoch, effectPool, blocks, payments>>
  <2>1. TypeOK'
    BY <1>1, <1>2 DEF IInv, TypeOK
  <2>2. LoadsOfInstance'
    BY <1>1, <1>2, LoaderAssumption DEF IInv, LoadsOfInstance, Active
  <2>3. QED
    BY <2>1, <2>2 DEF IInv
<1>3. CASE epoch' = epoch + 1 /\ effectPool' = None
           /\ blocks' = NoData /\ payments' = NoData
  <2>1. TypeOK'
    BY <1>1, <1>3, LoaderAssumption DEF IInv, TypeOK, Shown
  <2>2. ASSUME NEW m \in loads'
        PROVE  m.ep <= epoch' /\ m.ep # epoch'
    <3>1. m \in Loads /\ m.ep <= epoch
      BY <1>1, <2>2 DEF IInv, TypeOK, LoadsOfInstance
    <3>2. QED
      BY <1>1, <1>3, <3>1 DEF Loads
  <2>3. LoadsOfInstance'
    BY <1>1, <1>3, <2>2, LoaderAssumption DEF LoadsOfInstance, Active
  <2>4. QED
    BY <2>1, <2>3 DEF IInv
<1>4. QED
  BY <1>2, <1>3 DEF Navigate

LEMMA IInvStep == IInv /\ [Next]_vars => IInv'
<1> SUFFICES ASSUME IInv, [Next]_vars PROVE IInv'
  OBVIOUS
<1>1. CASE RunEffects
  BY <1>1, RunEffectsIInv
<1>2. CASE Tick
  BY <1>2, TickIInv
<1>3. CASE \E l \in loads, ok \in BOOLEAN : Answer(l, ok)
  BY <1>3, AnswerIInv
<1>4. CASE \E p \in PoolIds : Navigate(p)
  BY <1>4, NavigateIInv
<1>5. CASE UNCHANGED vars
  BY <1>5 DEF vars, IInv, TypeOK, LoadsOfInstance, Active
<1>6. QED
  BY <1>1, <1>2, <1>3, <1>4, <1>5 DEF Next

\* The type invariant and the instance invariant LoadsOfInstance hold in
\* every state: the effect run, the interval, the fetch answers and the
\* pool switcher of the pool page preserve them.
THEOREM LoadsInvariant == Spec => []IInv
BY InitIInv, IInvStep, PTL DEF Spec

-----------------------------------------------------------------------------
(* Refinement of SectionView.                                             *)

LEMMA InitView == Init => View!Init
BY DEF Init, View!Init

LEMMA StepView == IInv /\ [Next]_vars => [View!Next]_View!avars
<1> SUFFICES ASSUME IInv, [Next]_vars PROVE [View!Next]_View!avars
  OBVIOUS
<1>1. CASE RunEffects
  <2>1. poolId \in PoolIds
    BY DEF IInv, TypeOK
  <2>2. View!Select(poolId)
    BY <1>1 DEF RunEffects, View!Select
  <2>3. QED
    BY <2>1, <2>2 DEF View!Next
<1>2. CASE Tick
  BY <1>2 DEF Tick, View!avars
<1>3. CASE \E l \in loads, ok \in BOOLEAN : Answer(l, ok)
  <2> PICK l \in loads, ok \in BOOLEAN : Answer(l, ok)
    BY <1>3
  <2>1. l \in Loads /\ (Active(l) => l.pool = effectPool)
    BY DEF IInv, TypeOK, LoadsOfInstance
  <2>2. Active(l) => effectPool # None
    BY <2>1, LoaderAssumption DEF Loads
  <2>3. CASE l.stage = "blocks" /\ Active(l)
    <3>1. View!ShowBlocks(ok)
      BY <2>1, <2>2, <2>3 DEF Answer, View!ShowBlocks
    <3>2. QED
      BY <3>1 DEF View!Next
  <2>4. CASE l.stage = "payments" /\ Active(l)
    <3>1. View!ShowPayments(ok)
      BY <2>1, <2>2, <2>4 DEF Answer, View!ShowPayments
    <3>2. QED
      BY <3>1 DEF View!Next
  <2>5. CASE ~Active(l)
    BY <2>5 DEF Answer, View!avars
  <2>6. QED
    BY <2>1, <2>3, <2>4, <2>5 DEF Loads
<1>4. CASE \E p \in PoolIds : Navigate(p)
  <2> PICK p \in PoolIds : Navigate(p)
    BY <1>4
  <2>1. CASE UNCHANGED <<epoch, effectPool, blocks, payments>>
    BY <2>1 DEF View!avars
  <2>2. CASE epoch' = epoch + 1 /\ effectPool' = None
             /\ blocks' = NoData /\ payments' = NoData
    BY <2>2 DEF View!Next, View!Leave
  <2>3. QED
    BY <2>1, <2>2 DEF Navigate
<1>5. CASE UNCHANGED vars
  BY <1>5 DEF vars, View!avars
<1>6. QED
  BY <1>1, <1>2, <1>3, <1>4, <1>5 DEF Next

\* The pool page implements SectionView (ImplementsView): with the view's
\* current pool read as the pool the live effect instance captured, every
\* step of the loader either shows a result for that pool, switches it,
\* clears the page, or leaves the view unchanged.
THEOREM Refinement == Spec => ImplementsView
<1>1. Spec => []IInv
  BY LoadsInvariant
<1>2. QED
  BY <1>1, InitView, StepView, PTL DEF Spec, ImplementsView, View!Spec

=============================================================================
