----------------------- MODULE PoolConnections_proofs -----------------------
(***************************************************************************)
(* Proofs about the connection panel of the pool page, for every set of   *)
(* ports, every port configuration and every bound.                      *)
(*                                                                         *)
(* The safety invariants are not inductive as they stand. IInv adds two  *)
(* facts about the probe bookkeeping: a row that was never measured has   *)
(* had no probe sent (so the probe effect's first probe is number 1 and   *)
(* stays within the bound), and a measured row never shows "idle" again   *)
(* (so a listed row stays probed when a refresh or a reply changes it).   *)
(***************************************************************************)
EXTENDS PoolConnections, WellFoundedInduction, TLAPS

\* A row never measured has had no probe sent.
UnmeasuredUnprobed == \A r \in RowIds \ measured : issued[r] = 0

\* A measured row never goes back to "idle".
MeasuredNotIdle == \A r \in measured : latencyMap[r].status # "idle"

IInv ==
    /\ TypeOK
    /\ UnmeasuredUnprobed
    /\ MeasuredNotIdle
    /\ TestingHasProbe
    /\ SettledSelection
    /\ ListedRowsProbed

-----------------------------------------------------------------------------
(* Lemmas about the row helpers.                                          *)

\* A non-empty set of ports has a least one: < is well-founded on Nat.
LEMMA LeastPort ==
    ASSUME NEW S \in SUBSET Ports, S # {}
    PROVE  \E m \in S : \A s \in S : m <= s
<1>1. S \subseteq Nat
  BY PortsAssumption
<1>2. PICK m \in S : \A s \in S : ~(<<s, m>> \in OpToRel(<, Nat))
  BY <1>1, NatLessThanWellFounded, WFMin
<1>3. \A s \in S : m <= s
  <2>1. SUFFICES ASSUME NEW s \in S PROVE m <= s
    OBVIOUS
  <2>2. m \in Nat /\ s \in Nat
    BY <1>1
  <2>3. ~(s < m)
    BY <1>2, <2>2 DEF OpToRel
  <2>4. QED
    BY <2>2, <2>3
<1>4. QED
  BY <1>3

LEMMA FirstRowIn ==
    ASSUME NEW S \in SUBSET RowIds, S # {},
           FallbackRow \in S \/ S \subseteq Ports
    PROVE  FirstRow(S) \in S
<1>1. CASE FallbackRow \in S
  BY <1>1 DEF FirstRow
<1>2. CASE FallbackRow \notin S
  <2>1. S \subseteq Ports
    BY <1>2
  <2>2. \E m \in S : \A s \in S : m <= s
    BY <2>1, LeastPort
  <2>3. QED
    BY <1>2, <2>2 DEF FirstRow
<1>3. QED
  BY <1>1, <1>2

LEMMA DefaultInRows ==
    ASSUME NEW ps \in SUBSET Ports
    PROVE  DefaultEndpointRow(ps) \in RowsOf(ps)
<1> DEFINE rows == RowsOf(ps)
           mid  == {r \in rows : Name(r) \in MidTierNames}
           low  == {r \in rows : EffectiveDifficulty(r) \in 1..2048}
<1>1. rows \in SUBSET RowIds /\ rows # {} /\ (FallbackRow \in rows \/ rows \subseteq Ports)
  BY DEF RowsOf, RowIds
<1>2. \A S \in SUBSET rows : S # {} => FirstRow(S) \in S
  <2> TAKE S \in SUBSET rows
  <2>1. FallbackRow \in S \/ S \subseteq Ports
    BY <1>1, IdsAssumption DEF RowsOf
  <2>2. QED
    BY <1>1, <2>1, FirstRowIn
<1>3. DefaultEndpointRow(ps) = IF mid # {} THEN FirstRow(mid)
                              ELSE IF low # {} THEN FirstRow(low) ELSE FirstRow(rows)
  BY DEF DefaultEndpointRow
<1>4. CASE mid # {}
  BY <1>2, <1>3, <1>4
<1>5. CASE mid = {} /\ low # {}
  BY <1>2, <1>3, <1>5
<1>6. CASE mid = {} /\ low = {}
  BY <1>1, <1>2, <1>3, <1>6
<1>7. QED
  BY <1>4, <1>5, <1>6

LEMMA AutoIsDefault ==
    ASSUME NEW ps \in SUBSET Ports, NEW lm
    PROVE  PickEndpointForGroup(RowsOf(ps), ps, lm) = DefaultEndpointRow(ps)
BY DefaultInRows DEF PickEndpointForGroup

-----------------------------------------------------------------------------
(* Type correctness.                                                      *)

LEMMA TypeStep ==
    ASSUME TypeOK, UnmeasuredUnprobed, [Next]_vars
    PROVE  TypeOK' /\ UnmeasuredUnprobed'
<1> USE BoundsAssumption DEF TypeOK, UnmeasuredUnprobed, RowIds
<1>1. CASE Commit
  <2>1. AutoEndpoint \in RowIds
    BY DefaultInRows, AutoIsDefault DEF AutoEndpoint, Rows, RowsOf
  <2>2. \A r \in Unmeasured : issued[r] = 0
    BY DEF Unmeasured, Rows, RowsOf
  <2>3. QED
    BY <1>1, <2>1, <2>2 DEF Commit, TestLatency, Sample, Testing, Unmeasured,
                            Rows, RowsOf
<1>2. CASE \E ps \in SUBSET Ports : Refresh(ps)
  BY <1>2 DEF Refresh
<1>3. CASE \E r \in RowIds, n \in 1..MaxProbes, l \in Latencies : ProbeSucceed(r, n, l)
  BY <1>3 DEF ProbeSucceed, Sample
<1>4. CASE \E r \in RowIds, n \in 1..MaxProbes : ProbeFail(r, n)
  BY <1>4 DEF ProbeFail, Sample
<1>5. CASE RemeasureAll
  BY <1>5 DEF RemeasureAll, TestLatency, Sample, Testing, Rows, RowsOf
<1>6. CASE SelectGroup(Host)
  BY <1>6 DEF SelectGroup
<1>7. CASE \E e \in RowIds : SelectEndpoint(e)
  BY <1>7 DEF SelectEndpoint
<1>8. CASE UNCHANGED vars
  BY <1>8 DEF vars
<1>9. QED
  BY <1>1, <1>2, <1>3, <1>4, <1>5, <1>6, <1>7, <1>8 DEF Next

LEMMA InitType == Init => TypeOK /\ UnmeasuredUnprobed
  <2> SUFFICES ASSUME Init PROVE TypeOK /\ UnmeasuredUnprobed
    OBVIOUS
  <2>1. latencyMap \in [RowIds -> Sample]
    BY DEF Init, Sample, Idle
  <2>2. issued \in [RowIds -> 0..MaxProbes] /\ shownProbe \in [RowIds -> 0..MaxProbes]
    BY BoundsAssumption DEF Init
  <2>3. QED
    BY <2>1, <2>2 DEF Init, TypeOK, UnmeasuredUnprobed

(* The page's state always has its type: in particular no more probes    *)
(* than the bound are ever sent for a row, and the probe effect sends    *)
(* only the first probe of a row.                                         *)
THEOREM TypeCorrect == Spec => []TypeOK
BY InitType, TypeStep, PTL DEF Spec

-----------------------------------------------------------------------------
(* The safety invariants.                                                 *)

\* The endpoint the effects fall back to is the default row, a listed row.
LEMMA AutoEndpointListed ==
    ASSUME TypeOK
    PROVE  AutoEndpoint = DefaultEndpointRow(ports) /\ AutoEndpoint \in Rows
BY DefaultInRows, AutoIsDefault DEF TypeOK, AutoEndpoint, Rows

LEMMA CommitStep ==
    ASSUME IInv, Commit
    PROVE  IInv'
<1> USE DEF IInv
<1>1. TypeOK' /\ UnmeasuredUnprobed'
  BY TypeStep DEF Next
<1>2. MeasuredNotIdle'
  <2>1. Unmeasured \subseteq RowIds
    BY DEF TypeOK, Unmeasured, Rows, RowsOf, RowIds
  <2> SUFFICES ASSUME NEW r \in measured \cup Unmeasured
               PROVE  latencyMap'[r].status # "idle"
    BY DEF Commit, TestLatency, MeasuredNotIdle
  <2>2. r \in RowIds
    BY <2>1 DEF TypeOK
  <2>3. CASE r \in Unmeasured
    BY <2>2, <2>3 DEF Commit, TestLatency, Testing
  <2>4. CASE r \notin Unmeasured
    BY <2>2, <2>4 DEF Commit, TestLatency, MeasuredNotIdle
  <2>5. QED
    BY <2>3, <2>4
<1>3. TestingHasProbe'
  <2> SUFFICES ASSUME NEW r \in RowIds, latencyMap'[r].status = "testing"
               PROVE  \E n \in 1..MaxProbes : <<r, n>> \in inflight'
    BY DEF TestingHasProbe
  <2>1. CASE r \in Unmeasured
    <3>1. issued[r] = 0
      BY <2>1 DEF UnmeasuredUnprobed, Unmeasured
    <3>2. <<r, 1>> \in inflight'
      BY <2>1, <3>1 DEF Commit, TestLatency
    <3>3. QED
      BY <3>2, BoundsAssumption
  <2>2. CASE r \notin Unmeasured
    <3>1. latencyMap[r].status = "testing"
      BY <2>2 DEF Commit, TestLatency
    <3>2. QED
      BY <3>1 DEF TestingHasProbe, Commit, TestLatency
  <2>3. QED
    BY <2>1, <2>2
<1>4. SettledSelection'
  <2> SUFFICES ASSUME ~dirty' PROVE SettledSelection'
    BY DEF SettledSelection
  <2>1. ~GroupReset /\ ~EndpointReset
    BY DEF Commit
  <2>2. selectedGroupId' = Host
    BY <2>1 DEF Commit, GroupReset
  <2>3. selectedEndpointId \in Rows /\ (~manualEndpoint => selectedEndpointId = DefaultEndpointRow(ports))
    BY <2>1, AutoEndpointListed DEF EndpointReset
  <2>4. QED
    BY <2>1, <2>2, <2>3 DEF Commit, SettledSelection, Rows
<1>5. ListedRowsProbed'
  BY DEF Commit, TestLatency, ListedRowsProbed, MeasuredNotIdle, Unmeasured, Rows,
         Testing, TypeOK
<1>6. QED
  BY <1>1, <1>2, <1>3, <1>4, <1>5

LEMMA InvStep ==
    ASSUME IInv, [Next]_vars
    PROVE  IInv'
<1> USE DEF IInv
<1>1. TypeOK' /\ UnmeasuredUnprobed'
  BY TypeStep
<1>2. CASE Commit
  BY <1>2, CommitStep
<1>3. CASE \E ps \in SUBSET Ports : Refresh(ps)
  BY <1>1, <1>3 DEF Refresh, MeasuredNotIdle, TestingHasProbe, SettledSelection,
                    ListedRowsProbed
<1>4. CASE \E r \in RowIds, n \in 1..MaxProbes, l \in Latencies : ProbeSucceed(r, n, l)
  BY <1>1, <1>4 DEF ProbeSucceed, MeasuredNotIdle, TestingHasProbe, SettledSelection,
                    ListedRowsProbed, TypeOK
<1>5. CASE \E r \in RowIds, n \in 1..MaxProbes : ProbeFail(r, n)
  BY <1>1, <1>5 DEF ProbeFail, MeasuredNotIdle, TestingHasProbe, SettledSelection,
                    ListedRowsProbed, TypeOK
<1>6. CASE RemeasureAll
  BY <1>1, <1>6 DEF RemeasureAll, TestLatency, Testing, MeasuredNotIdle, TestingHasProbe,
                    SettledSelection, ListedRowsProbed, TypeOK, RowIds
<1>7. CASE SelectGroup(Host)
  <2>1. CASE Host # selectedGroupId
    BY <1>1, <1>7, <2>1 DEF SelectGroup, MeasuredNotIdle, TestingHasProbe,
                            SettledSelection, ListedRowsProbed
  <2>2. CASE Host = selectedGroupId
    <3>1. UNCHANGED <<ports, latencyMap, measured, inflight, manualEndpoint,
                      selectedEndpointId, selectedGroupId, dirty>>
      BY <1>7, <2>2 DEF SelectGroup
    <3>2. QED
      BY <1>1, <3>1 DEF MeasuredNotIdle, TestingHasProbe, SettledSelection,
                  ListedRowsProbed, Rows
  <2>3. QED
    BY <2>1, <2>2
<1>8. CASE \E e \in RowIds : SelectEndpoint(e)
  <2>1. PICK e \in RowIds : SelectEndpoint(e)
    BY <1>8
  <2>2. UNCHANGED <<ports, latencyMap, measured, inflight>>
    BY <2>1 DEF SelectEndpoint
  <2>3. MeasuredNotIdle' /\ TestingHasProbe' /\ ListedRowsProbed'
    BY <2>1, <2>2 DEF SelectEndpoint, MeasuredNotIdle, TestingHasProbe,
                      ListedRowsProbed, Rows
  <2>4. SettledSelection'
    BY <2>1, <2>2 DEF SelectEndpoint, SettledSelection, Rows
  <2>5. QED
    BY <1>1, <2>3, <2>4
<1>9. CASE UNCHANGED vars
  BY <1>1, <1>9 DEF vars, MeasuredNotIdle, TestingHasProbe, SettledSelection,
                    ListedRowsProbed, Rows
<1>10. QED
  BY <1>2, <1>3, <1>4, <1>5, <1>6, <1>7, <1>8, <1>9 DEF Next

LEMMA InitInv == Init => IInv
<1> SUFFICES ASSUME Init PROVE IInv
  OBVIOUS
<1>1. TypeOK /\ UnmeasuredUnprobed
  BY InitType
<1>2. QED
  BY <1>1 DEF Init, IInv, MeasuredNotIdle, TestingHasProbe, SettledSelection,
              ListedRowsProbed, Idle

(* A "testing" badge always has a probe on its way; once the page's      *)
(* effects have run the selection exists and is the default tier unless  *)
(* the user picked it; and every listed row has been probed.             *)
THEOREM SafetyInvariants ==
    Spec => [](TestingHasProbe /\ SettledSelection /\ ListedRowsProbed)
<1>1. IInv => TestingHasProbe /\ SettledSelection /\ ListedRowsProbed
  BY DEF IInv
<1>2. QED
  BY <1>1, InitInv, InvStep, PTL DEF Spec

(* No "testing" badge of the panel is stuck: testLatency sends a probe    *)
(* numbered within the bound with every badge it sets, and only that      *)
(* probe's answer removes it from the in-flight set (TestingHasProbe).   *)
THEOREM TestingHasProbeInvariant == Spec => []TestingHasProbe
BY SafetyInvariants, PTL

(* Once the effects have run, every listed row, also a port that a       *)
(* refresh dropped and a later one published again, has been measured    *)
(* and shows a sample or a probe in flight (ListedRowsProbed).           *)
THEOREM ListedRowsProbedInvariant == Spec => []ListedRowsProbed
BY SafetyInvariants, PTL

-----------------------------------------------------------------------------
(* The manual port choice is sticky.                                      *)

\* One step of the page keeps a manual port that is still published,
\* unless the step is the user's own click.
LEMMA StickyStep ==
    ASSUME TypeOK, [Next]_vars,
           manualEndpoint, selectedEndpointId \in RowsOf(ports'), ~UserSelects
    PROVE  selectedEndpointId' = selectedEndpointId
<1>1. CASE Commit
  <2>1. ports' = ports
    BY <1>1 DEF Commit
  <2>2. ~EndpointReset
    BY <2>1 DEF EndpointReset, Rows
  <2>3. QED
    BY <1>1, <2>2 DEF Commit
<1>2. CASE \E ps \in SUBSET Ports : Refresh(ps)
  BY <1>2 DEF Refresh
<1>3. CASE \E r \in RowIds, n \in 1..MaxProbes, l \in Latencies : ProbeSucceed(r, n, l)
  BY <1>3 DEF ProbeSucceed
<1>4. CASE \E r \in RowIds, n \in 1..MaxProbes : ProbeFail(r, n)
  BY <1>4 DEF ProbeFail
<1>5. CASE RemeasureAll
  BY <1>5 DEF RemeasureAll
<1>6. CASE UNCHANGED vars
  BY <1>6 DEF vars
<1>7. QED
  BY <1>1, <1>2, <1>3, <1>4, <1>5, <1>6 DEF Next, UserSelects

(* While the port the user picked is still published, no step but the    *)
(* user's own click changes the selected port: the endpoint effect only  *)
(* recomputes it when manualEndpointRef is unset or the port has gone    *)
(* (ManualEndpointSticky).                                               *)
THEOREM ManualEndpointStickyHolds == Spec => ManualEndpointSticky
<1>1. TypeOK /\ [Next]_vars =>
        [ (manualEndpoint /\ selectedEndpointId \in RowsOf(ports') /\ ~UserSelects)
            => selectedEndpointId' = selectedEndpointId ]_vars
  BY StickyStep
<1>2. QED
  BY <1>1, TypeCorrect, PTL DEF Spec, ManualEndpointSticky

=============================================================================
