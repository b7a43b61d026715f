---------------------------- MODULE LatencyPanel ----------------------------
(***************************************************************************)
(* The latency panel of the home page (webui2 src/app/components/          *)
(* StratumLatencyPanel.tsx), rendered with the pools of usePoolsData and   *)
(* no explicit locations.                                                  *)
(*                                                                         *)
(* The panel derives up to six locations from the pools' ports (or one    *)
(* fallback location), keeps a latency sample per location id, and lets   *)
(* the user probe a location with a button that is disabled while that    *)
(* location shows "testing". A sync effect adds an idle sample for new    *)
(* locations and deletes the samples of locations that are gone. A probe  *)
(* answer writes its location's key whatever the map holds by then.       *)
(*                                                                         *)
(* A location is identified by its pool-port id; a sample by its status  *)
(* (the latency value is never compared by the panel).                     *)
(***************************************************************************)
EXTENDS Naturals, FiniteSets

CONSTANTS
    Candidates,     \* location ids `${pool.id}-${port}` the pools may publish
    ZeroPorts,      \* candidates whose port key is not a non-zero number
    Rank,           \* list order of the candidates (pools, then ports)
    MaxLocations,   \* generated.length >= 6 stops the list
    DefaultLoc,     \* 'default-5108', shown when no location is derived
    Absent,         \* no key in latencyMap
    MaxProbes       \* bound on the probes of one location

ASSUME PanelAssumption ==
    /\ IsFiniteSet(Candidates)
    /\ ZeroPorts \subseteq Candidates
    /\ Rank \in [Candidates -> Nat]
    /\ \A c, d \in Candidates : Rank[c] = Rank[d] => c = d
    /\ MaxLocations \in Nat \ {0}
    /\ DefaultLoc \notin Candidates
    /\ MaxProbes \in Nat \ {0}
    /\ Absent \notin {"idle", "testing", "success", "error"}

VARIABLES
    avail,       \* the candidates present in the pools as last rendered
    latencyMap,  \* location id -> status, or Absent
    issued,      \* location id -> probes dispatched so far
    inflight,    \* probes <<location, n>> not answered yet
    dirty        \* derivedLocations changed and the sync effect has not run

vars == <<avail, latencyMap, issued, inflight, dirty>>

LocIds == Candidates \cup {DefaultLoc}

Status == {"idle", "testing", "success", "error"}

\* derivedLocations: the candidates with a non-zero port, in list order,
\* at most MaxLocations of them; the fallback location if none.
Derived(a) ==
    LET ok  == a \ ZeroPorts
        gen == {c \in ok : Cardinality({d \in ok : Rank[d] < Rank[c]}) < MaxLocations}
    IN  IF gen = {} THEN {DefaultLoc} ELSE gen

Locations == Derived(avail)

\* latencyMap[location.id] ?? DEFAULT_LATENCY
Entry(l) == IF latencyMap[l] = Absent THEN "idle" ELSE latencyMap[l]

Init ==
    /\ avail = {}
    /\ latencyMap = [l \in LocIds |-> IF l \in Derived({}) THEN "idle" ELSE Absent]
    /\ issued = [l \in LocIds |-> 0]
    /\ inflight = {}
    /\ dirty = TRUE

\* Mutant of SyncEffect: the deletion of vanished keys is skipped.
SyncEffectKeepsGone ==
    /\ dirty
    /\ latencyMap' = [l \in LocIds |->
                        IF l \in Locations /\ latencyMap[l] = Absent
                        THEN "idle" ELSE latencyMap[l]]
    /\ dirty' = FALSE
    /\ UNCHANGED <<avail, issued, inflight>>

\* The sync effect (lines 96-111): add an idle sample for every new
\* location, delete the key of every location no longer derived.
SyncEffect ==
    /\ dirty
    /\ latencyMap' = [l \in LocIds |->
                        IF l \notin Locations THEN Absent
                        ELSE IF latencyMap[l] = Absent THEN "idle"
                        ELSE latencyMap[l]]
    /\ dirty' = FALSE
    /\ UNCHANGED <<avail, issued, inflight>>

\* New pools arrive: a new pools array always gives a new derivedLocations.
Refresh(a) ==
    /\ ~dirty
    /\ avail' = a
    /\ dirty' = TRUE
    /\ UNCHANGED <<latencyMap, issued, inflight>>

\* Mutant of Test: the probe is numbered with the count before the increment.
TestOffByOne(l) ==
    /\ ~dirty
    /\ l \in Locations
    /\ Entry(l) # "testing"
    /\ issued[l] < MaxProbes
    /\ latencyMap' = [latencyMap EXCEPT ![l] = "testing"]
    /\ issued' = [issued EXCEPT ![l] = @ + 1]
    /\ inflight' = inflight \cup {<<l, issued[l]>>}
    /\ UNCHANGED <<avail, dirty>>

\* The "Test latency" button (lines 210-215) and the synchronous part of
\* testLatency (lines 113-117): disabled while the location is testing.
Test(l) ==
    /\ ~dirty
    /\ l \in Locations
    /\ Entry(l) # "testing"
    /\ issued[l] < MaxProbes
    /\ latencyMap' = [latencyMap EXCEPT ![l] = "testing"]
    /\ issued' = [issued EXCEPT ![l] = @ + 1]
    /\ inflight' = inflight \cup {<<l, issued[l] + 1>>}
    /\ UNCHANGED <<avail, dirty>>

\* Mutant of Answer: an error answer leaves the sample as it is.
AnswerErrorIgnored(l, n, s) ==
    /\ <<l, n>> \in inflight
    /\ latencyMap' = [latencyMap EXCEPT ![l] = IF s = "error" THEN @ ELSE s]
    /\ inflight' = inflight \ {<<l, n>>}
    /\ UNCHANGED <<avail, issued, dirty>>

\* Mutant of Answer: an error answer keeps the badge and sends the probe
\* again (numbers wrap around the bound).
AnswerErrorRetries(l, n, s) ==
    /\ <<l, n>> \in inflight
    /\ IF s = "error"
       THEN /\ inflight' = (inflight \ {<<l, n>>}) \cup
                           {<<l, IF n = MaxProbes THEN 1 ELSE n + 1>>}
            /\ UNCHANGED latencyMap
       ELSE /\ latencyMap' = [latencyMap EXCEPT ![l] = s]
            /\ inflight' = inflight \ {<<l, n>>}
    /\ UNCHANGED <<avail, issued, dirty>>

\* The answer of probe n (lines 119-148): success, or error for a failed
\* fetch, a non-ok response or a null latency. The key is written even if
\* the sync effect deleted it meanwhile.
Answer(l, n, s) ==
    /\ <<l, n>> \in inflight
    /\ latencyMap' = [latencyMap EXCEPT ![l] = s]
    /\ inflight' = inflight \ {<<l, n>>}
    /\ UNCHANGED <<avail, issued, dirty>>

Next ==
    \/ SyncEffect
    \/ \E a \in SUBSET Candidates : Refresh(a)
    \/ \E l \in LocIds : Test(l)
    \/ \E l \in LocIds, n \in 1..MaxProbes, s \in {"success", "error"} : Answer(l, n, s)

\* React runs the effect after the commit; every fetch to the latency
\* route settles (the route answers within its clamped timeout).
Fairness ==
    /\ WF_vars(SyncEffect)
    /\ \A l \in LocIds, n \in 1..MaxProbes :
          WF_vars(\E s \in {"success", "error"} : Answer(l, n, s))

Spec == Init /\ [][Next]_vars /\ Fairness

-----------------------------------------------------------------------------
(* Properties.                                                            *)

\* Type invariant.
TypeOK ==
    /\ avail \subseteq Candidates
    /\ latencyMap \in [LocIds -> Status \cup {Absent}]
    /\ issued \in [LocIds -> 0..MaxProbes]
    /\ inflight \subseteq LocIds \X (1..MaxProbes)
    /\ dirty \in BOOLEAN

\* A location shown as "testing" (button disabled) always has a probe on
\* its way whose answer will re-enable the button: testLatency writes a
\* final sample on every path, and the sync effect only deletes keys.
TestingHasProbe ==
    \A l \in LocIds : latencyMap[l] = "testing" =>
        \E n \in 1..MaxProbes : <<l, n>> \in inflight

\* Once the sync effect has run, a "testing" badge belongs to a listed
\* location: a refresh that drops a location under test makes the effect
\* delete its key, and a later answer writes a final status, never testing.
TestingOnlyListed ==
    ~dirty => \A l \in LocIds : latencyMap[l] = "testing" => l \in Locations

\* Every testing badge is eventually resolved or removed with its location.
TestingResolves ==
    \A l \in LocIds :
        latencyMap[l] = "testing" ~> latencyMap[l] # "testing"

\* Spec 5: one probe in flight per endpoint at a time. The disabled button
\* is meant to ensure it for this panel.
OneProbePerLocation ==
    \A l \in LocIds : \A m, n \in 1..MaxProbes :
        (<<l, m>> \in inflight /\ <<l, n>> \in inflight) => m = n

=============================================================================
