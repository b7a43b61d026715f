------------------------- MODULE LatencyPanel_proofs -------------------------
(***************************************************************************)
(* Proofs about the latency panel of the home page, for every set of     *)
(* candidate locations, every list order and every bound.                 *)
(*                                                                         *)
(* TypeOK, TestingHasProbe and TestingOnlyListed are inductive together:  *)
(* a badge is set to "testing" only by testLatency, which sends a probe   *)
(* numbered within the bound with it and needs the location listed and    *)
(* the sync effect run; an answer writes a final status over exactly its  *)
(* own location; the sync effect only deletes keys of unlisted locations. *)
(* Which set of locations Derived computes never matters.                 *)
(***************************************************************************)
EXTENDS LatencyPanel, TLAPS

USE PanelAssumption

IInv == TypeOK /\ TestingHasProbe /\ TestingOnlyListed

LEMMA InitIInv == Init => IInv
<1> SUFFICES ASSUME Init PROVE IInv
  OBVIOUS
<1>1. latencyMap \in [LocIds -> Status \cup {Absent}]
  BY DEF Init, Status
<1>2. issued \in [LocIds -> 0..MaxProbes]
  BY DEF Init
<1>3. \A l \in LocIds : latencyMap[l] # "testing"
  BY DEF Init
<1>4. QED
  BY <1>1, <1>2, <1>3 DEF Init, IInv, TypeOK, TestingHasProbe, TestingOnlyListed

LEMMA SyncEffectIInv == IInv /\ SyncEffect => IInv'
<1> SUFFICES ASSUME IInv, SyncEffect PROVE IInv'
  OBVIOUS
<1>1. TypeOK'
  BY DEF IInv, TypeOK, SyncEffect, Status
<1>2. ASSUME NEW l \in LocIds, latencyMap'[l] = "testing"
      PROVE  latencyMap[l] = "testing" /\ l \in Locations
  BY <1>2 DEF SyncEffect
<1>3. QED
  BY <1>1, <1>2 DEF IInv, TestingHasProbe, TestingOnlyListed, SyncEffect, Locations

LEMMA RefreshIInv ==
    ASSUME IInv, NEW a \in SUBSET Candidates, Refresh(a)
    PROVE  IInv'
BY DEF IInv, TypeOK, TestingHasProbe, TestingOnlyListed, Refresh

LEMMA TestIInv ==
    ASSUME IInv, NEW l \in LocIds, Test(l)
    PROVE  IInv'
<1>1. /\ issued[l] \in 0..MaxProbes /\ issued[l] < MaxProbes
      /\ issued[l] + 1 \in 1..MaxProbes
  BY DEF IInv, TypeOK, Test
<1>2. TypeOK'
  BY <1>1 DEF IInv, TypeOK, Test, Status
<1>3. <<l, issued[l] + 1>> \in inflight'
  BY DEF Test
<1>4. TestingHasProbe'
  BY <1>1, <1>3 DEF IInv, TestingHasProbe, Test
<1>5. TestingOnlyListed'
  BY DEF IInv, TestingOnlyListed, Test, Locations
<1>6. QED
  BY <1>2, <1>4, <1>5 DEF IInv

LEMMA AnswerIInv ==
    ASSUME IInv, NEW l \in LocIds, NEW n \in 1..MaxProbes,
           NEW s \in {"success", "error"}, Answer(l, n, s)
    PROVE  IInv'
<1>1. TypeOK'
  BY DEF IInv, TypeOK, Answer, Status
<1>2. \A k \in LocIds : latencyMap'[k] = "testing" =>
        k # l /\ latencyMap[k] = "testing"
  BY DEF IInv, TypeOK, Answer
<1>3. TestingHasProbe'
  BY <1>2 DEF IInv, TestingHasProbe, Answer
<1>4. TestingOnlyListed'
  BY <1>2 DEF IInv, TestingOnlyListed, Answer, Locations
<1>5. QED
  BY <1>1, <1>3, <1>4 DEF IInv

LEMMA IInvStep == IInv /\ [Next]_vars => IInv'
<1> SUFFICES ASSUME IInv, [Next]_vars PROVE IInv'
  OBVIOUS
<1>1. CASE SyncEffect
  BY <1>1, SyncEffectIInv
<1>2. CASE \E a \in SUBSET Candidates : Refresh(a)
  BY <1>2, RefreshIInv
<1>3. CASE \E l \in LocIds : Test(l)
  BY <1>3, TestIInv
<1>4. CASE \E l \in LocIds, n \in 1..MaxProbes, s \in {"success", "error"} :
             Answer(l, n, s)
  BY <1>4, AnswerIInv
<1>5. CASE UNCHANGED vars
  BY <1>5 DEF vars, IInv, TypeOK, TestingHasProbe, TestingOnlyListed, Locations
<1>6. QED
  BY <1>1, <1>2, <1>3, <1>4, <1>5 DEF Next

\* Type correctness of the panel: in particular no location ever has more
\* than MaxProbes probes, and every probe number is within the bound.
THEOREM TypeCorrect == Spec => []TypeOK
BY InitIInv, IInvStep, PTL DEF Spec, IInv

\* A location shown as "testing", whose button is disabled, always has a
\* probe on its way (TestingHasProbe): testLatency writes a final status on
\* every path, and the sync effect never writes "testing".
THEOREM TestingHasProbeInvariant == Spec => []TestingHasProbe
BY InitIInv, IInvStep, PTL DEF Spec, IInv

\* Once the sync effect has run, only a listed location shows "testing"
\* (TestingOnlyListed), also when a refresh dropped a location under test
\* and its late answer wrote the deleted key again.
THEOREM TestingOnlyListedInvariant == Spec => []TestingOnlyListed
BY InitIInv, IInvStep, PTL DEF Spec, IInv

=============================================================================
