-------------------------- MODULE PoolConnections --------------------------
(***************************************************************************)
(* The "Connection endpoints" panel of the pool detail page               *)
(* (webui2 src/app/pools/[poolId]/page.tsx, PoolDetailPage).               *)
(*                                                                         *)
(* The page turns the published stratum ports of the pool into connection *)
(* rows, probes every row's TCP latency through POST /api/latency, and    *)
(* keeps a server (group) and a port (endpoint) selection that is either  *)
(* automatic or a sticky manual choice of the user.  Three kinds of       *)
(* event interleave:                                                       *)
(*   - React commits: after a render the page's effects run, in order,    *)
(*     the group effect, the endpoint effect and the probe effect;        *)
(*   - the answers of the latency probes, which arrive in any order;      *)
(*   - pool data refreshes and the user's clicks.                         *)
(*                                                                         *)
(* All rows carry the same host (NEXT_PUBLIC_STRATUM_HOST), so there is   *)
(* exactly one connection group, identified by Host.                      *)
(***************************************************************************)
EXTENDS Naturals, FiniteSets

CONSTANTS
    Ports,          \* port numbers a pool may publish
    FallbackRow,    \* id 'default' of the row shown when no port is published
    Host,           \* the stratum host, id of the only connection group
    NoId,           \* null selection
    Null,           \* a null field of a port config or of a latency sample
    Undefined,      \* an absent field of the fallback row
    Names,          \* port config names
    PortName,       \* port -> config.name
    PortDifficulty, \* port -> config.difficulty
    PortVarDiffMin, \* port -> config.varDiff.minDiff
    MidTierNames,   \* names whose condensed lower case has midrange|midtier|medium
    MidNames,       \* names whose lower case contains "mid"
    Latencies,      \* latencies (ms) a probe may report
    MaxProbes       \* bound on the probes dispatched per row

ASSUME PortsAssumption ==
    /\ Ports \subseteq Nat
    /\ IsFiniteSet(Ports)

ASSUME IdsAssumption ==
    /\ FallbackRow \notin Ports
    /\ NoId \notin Ports \cup {FallbackRow, Host}
    /\ Null \notin Nat /\ Undefined \notin Nat \cup {Null}

ASSUME ConfigAssumption ==
    /\ PortDifficulty \in [Ports -> Nat \cup {Null}]
    /\ PortVarDiffMin \in [Ports -> Nat \cup {Null}]
    /\ PortName \in [Ports -> Names \cup {Null}]
    /\ MidTierNames \subseteq Names /\ MidNames \subseteq Names
    /\ Null \notin Names /\ Undefined \notin Names

ASSUME BoundsAssumption ==
    /\ Latencies \subseteq Nat /\ Latencies # {}
    /\ MaxProbes \in Nat \ {0}

VARIABLES
    ports,              \* ports of the pool as last rendered
    latencyMap,         \* row id -> latency sample
    measured,           \* measuredRef: rows probed at least once
    issued,             \* row id -> number of probes dispatched so far
    inflight,           \* probes <<row, n>> whose answer has not been applied
    shownProbe,         \* row id -> probe whose answer latencyMap shows (history)
    selectedGroupId,
    selectedEndpointId,
    manualSelection,    \* manualSelectionRef
    manualEndpoint,     \* manualEndpointRef
    dirty               \* a render happened whose effects have not run yet

vars == <<ports, latencyMap, measured, issued, inflight, shownProbe,
          selectedGroupId, selectedEndpointId, manualSelection,
          manualEndpoint, dirty>>

RowIds == Ports \cup {FallbackRow}

Sample == [status : {"idle", "testing", "success", "error"},
           latency : Latencies \cup {Null}]

Idle    == [status |-> "idle", latency |-> Null]
Testing == [status |-> "testing", latency |-> Null]

-----------------------------------------------------------------------------
(* Connection rows (connectionRows, lines 496-533).                        *)

\* With no published port the page shows the single fallback row.
RowsOf(ps) == IF ps = {} THEN {FallbackRow} ELSE ps

\* Rows are listed in ascending port order (integer keys of Object.entries).
FirstRow(S) == IF FallbackRow \in S THEN FallbackRow
               ELSE CHOOSE r \in S : \A s \in S : r <= s

Name(r)       == IF r = FallbackRow THEN Undefined ELSE PortName[r]
Difficulty(r) == IF r = FallbackRow THEN Undefined ELSE PortDifficulty[r]
VarDiffMin(r) == IF r = FallbackRow THEN Undefined ELSE PortVarDiffMin[r]

Nullish(v) == v \in {Null, Undefined}

\* row.difficulty ?? row.varDiffMin ?? null
EffectiveDifficulty(r) ==
    IF ~Nullish(Difficulty(r)) THEN Difficulty(r)
    ELSE IF ~Nullish(VarDiffMin(r)) THEN VarDiffMin(r) ELSE Null

\* defaultEndpointRow: a mid-tier name, else a difficulty in (0, 2048],
\* else the first row.
DefaultEndpointRow(ps) ==
    LET rows == RowsOf(ps)
        mid  == {r \in rows : Name(r) \in MidTierNames}
        low  == {r \in rows : EffectiveDifficulty(r) \in 1..2048}
    IN  IF mid # {} THEN FirstRow(mid)
        ELSE IF low # {} THEN FirstRow(low) ELSE FirstRow(rows)

\* The rows of S with the smallest successful sample, NoId if none
\* (bestLatencyRow and fastestEndpointFor: strict <, so the first wins).
FastestRow(S, lm) ==
    LET ok == {r \in S : lm[r].status = "success"}
    IN  IF ok = {} THEN NoId
        ELSE FirstRow({r \in ok : \A s \in ok : lm[r].latency <= lm[s].latency})

\* pickEndpointForGroup(group) for the group whose endpoints are eps.
PickEndpointForGroup(eps, ps, lm) ==
    LET mid == {r \in eps : Name(r) \in MidNames}
        var == {r \in eps : Difficulty(r) = Null \/ VarDiffMin(r) # Null}
    IN  IF DefaultEndpointRow(ps) \in eps THEN DefaultEndpointRow(ps)
        ELSE IF mid # {} THEN FirstRow(mid)
        ELSE IF var # {} THEN FirstRow(var)
        ELSE IF FastestRow(eps, lm) # NoId THEN FastestRow(eps, lm)
        ELSE FirstRow(eps)

Rows == RowsOf(ports)

\* The endpoint the endpoint effect falls back to: the group of every row
\* is Host, so the fallback group's endpoints are all the rows.
AutoEndpoint == PickEndpointForGroup(Rows, ports, latencyMap)

-----------------------------------------------------------------------------
(* Variants with plausible bugs (off-by-one probe number, an effect that  *)
(* forgets the manual flag or the removal check, a failure path that does *)
(* not write the sample, a refresh that prunes samples like the latency   *)
(* panel's sync effect): each one breaks a property below.               *)
TestLatencyOffByOne(R) ==
    /\ measured' = measured \cup R
    /\ latencyMap' = [r \in RowIds |-> IF r \in R THEN Testing ELSE latencyMap[r]]
    /\ issued' = [r \in RowIds |-> IF r \in R THEN issued[r] + 1 ELSE issued[r]]
    /\ inflight' = inflight \cup {<<r, issued[r]>> : r \in R}

EndpointResetIgnoresRemoval ==
    /\ ~manualEndpoint
    /\ AutoEndpoint # selectedEndpointId

EndpointResetIgnoresManual ==
    AutoEndpoint # selectedEndpointId

(* testLatency(row), lines 712-718, for every row of R at once: mark the   *)
(* row measured, show it as testing and send one POST /api/latency.       *)
TestLatency(R) ==
    /\ measured' = measured \cup R
    /\ latencyMap' = [r \in RowIds |-> IF r \in R THEN Testing ELSE latencyMap[r]]
    /\ issued' = [r \in RowIds |-> IF r \in R THEN issued[r] + 1 ELSE issued[r]]
    /\ inflight' = inflight \cup {<<r, issued[r] + 1>> : r \in R}

(* The group effect (lines 656-675): recompute unless a manual choice     *)
(* still exists; the only group is Host.                                  *)
GroupReset ==
    /\ ~manualSelection \/ selectedGroupId # Host
    /\ selectedGroupId # Host

(* The endpoint effect (lines 677-710).                                   *)
EndpointReset ==
    /\ ~manualEndpoint \/ selectedEndpointId \notin Rows
    /\ AutoEndpoint # selectedEndpointId

(* The probe effect (lines 753-759): rows never probed in this session.  *)
Unmeasured == Rows \ measured

(* A commit: the effects of the last render run in declaration order.    *)
(* Their setState calls cause another render when a value changed.       *)
Commit ==
    /\ dirty
    /\ selectedGroupId' = IF GroupReset THEN Host ELSE selectedGroupId
    /\ manualSelection' = (manualSelection /\ ~GroupReset)
    /\ selectedEndpointId' = IF EndpointReset THEN AutoEndpoint ELSE selectedEndpointId
    /\ manualEndpoint' = (manualEndpoint /\ ~EndpointReset)
    /\ TestLatency(Unmeasured)
    /\ dirty' = (GroupReset \/ EndpointReset \/ Unmeasured # {})
    /\ UNCHANGED <<ports, shownProbe>>

RefreshPrunesSamples(ps) ==
    /\ ~dirty
    /\ ports' = ps
    /\ dirty' = TRUE
    /\ latencyMap' = [r \in RowIds |-> IF r \in RowsOf(ps) THEN latencyMap[r] ELSE Idle]
    /\ UNCHANGED <<measured, issued, inflight, shownProbe,
                   selectedGroupId, selectedEndpointId, manualSelection,
                   manualEndpoint>>

(* usePoolsData delivers a new pools array (a poll or the first load):    *)
(* the pool now publishes the ports ps (none if the pool is missing).    *)
Refresh(ps) ==
    /\ ~dirty
    /\ ports' = ps
    /\ dirty' = TRUE
    /\ UNCHANGED <<latencyMap, measured, issued, inflight, shownProbe,
                   selectedGroupId, selectedEndpointId, manualSelection,
                   manualEndpoint>>

(* The answer of probe n of row r arrives (lines 729-743): a latency.    *)
ProbeSucceed(r, n, l) ==
    /\ <<r, n>> \in inflight
    /\ latencyMap' = [latencyMap EXCEPT ![r] = [status |-> "success", latency |-> l]]
    /\ inflight' = inflight \ {<<r, n>>}
    /\ shownProbe' = [shownProbe EXCEPT ![r] = n]
    /\ dirty' = TRUE
    /\ UNCHANGED <<ports, measured, issued, selectedGroupId, selectedEndpointId,
                   manualSelection, manualEndpoint>>

ProbeFailKeepsBadge(r, n) ==
    /\ <<r, n>> \in inflight
    /\ inflight' = inflight \ {<<r, n>>}
    /\ dirty' = TRUE
    /\ UNCHANGED <<ports, latencyMap, shownProbe, measured, issued, selectedGroupId,
                   selectedEndpointId, manualSelection, manualEndpoint>>

ProbeFailRetries(r, n) ==
    /\ <<r, n>> \in inflight
    /\ dirty' = TRUE
    /\ UNCHANGED <<ports, latencyMap, inflight, shownProbe, measured, issued,
                   selectedGroupId, selectedEndpointId, manualSelection, manualEndpoint>>

(* The probe of row r fails: a non-ok answer, a null latency (timeout,   *)
(* connect-error) or a fetch that throws (lines 731-736, 745-749).       *)
ProbeFail(r, n) ==
    /\ <<r, n>> \in inflight
    /\ latencyMap' = [latencyMap EXCEPT ![r] = [status |-> "error", latency |-> Null]]
    /\ inflight' = inflight \ {<<r, n>>}
    /\ shownProbe' = [shownProbe EXCEPT ![r] = n]
    /\ dirty' = TRUE
    /\ UNCHANGED <<ports, measured, issued, selectedGroupId, selectedEndpointId,
                   manualSelection, manualEndpoint>>

(* "Retest latency" (remeasureAll, lines 761-766): every row again.      *)
RemeasureAll ==
    /\ ~dirty
    /\ \A r \in Rows : issued[r] < MaxProbes
    /\ TestLatency(Rows)
    /\ dirty' = TRUE
    /\ UNCHANGED <<ports, shownProbe, selectedGroupId, selectedEndpointId,
                   manualSelection, manualEndpoint>>

(* The user picks the server g (selectGroup, lines 768-777).             *)
SelectGroup(g) ==
    /\ ~dirty
    /\ manualSelection' = TRUE
    /\ IF g # selectedGroupId
         THEN /\ manualEndpoint' = FALSE
              /\ selectedEndpointId' = NoId
              /\ selectedGroupId' = g
              /\ dirty' = TRUE
         ELSE UNCHANGED <<manualEndpoint, selectedEndpointId, selectedGroupId, dirty>>
    /\ UNCHANGED <<ports, latencyMap, measured, issued, inflight, shownProbe>>

(* The user picks port tier e of the shown group (selectEndpoint,        *)
(* lines 779-786).                                                        *)
SelectEndpoint(e) ==
    /\ ~dirty
    /\ e \in Rows
    /\ manualSelection' = TRUE
    /\ manualEndpoint' = TRUE
    /\ selectedGroupId' = Host
    /\ selectedEndpointId' = e
    /\ dirty' = (selectedGroupId # Host \/ selectedEndpointId # e)
    /\ UNCHANGED <<ports, latencyMap, measured, issued, inflight, shownProbe>>

-----------------------------------------------------------------------------
(* The first render: no pool data yet, so only the fallback row.         *)
Init ==
    /\ ports = {}
    /\ latencyMap = [r \in RowIds |-> Idle]
    /\ measured = {}
    /\ issued = [r \in RowIds |-> 0]
    /\ inflight = {}
    /\ shownProbe = [r \in RowIds |-> 0]
    /\ selectedGroupId = NoId
    /\ selectedEndpointId = NoId
    /\ manualSelection = FALSE
    /\ manualEndpoint = FALSE
    /\ dirty = TRUE

Next ==
    \/ Commit
    \/ \E ps \in SUBSET Ports : Refresh(ps)
    \/ \E r \in RowIds, n \in 1..MaxProbes, l \in Latencies : ProbeSucceed(r, n, l)
    \/ \E r \in RowIds, n \in 1..MaxProbes : ProbeFail(r, n)
    \/ RemeasureAll
    \/ SelectGroup(Host)
    \/ \E e \in RowIds : SelectEndpoint(e)

(* React always flushes the effects of a render, and the latency route   *)
(* always answers (its socket timeout is at most 10 s); the user and the *)
(* poll are not obliged to do anything.                                  *)
Fairness ==
    /\ WF_vars(Commit)
    /\ \A r \in RowIds, n \in 1..MaxProbes :
          WF_vars(ProbeFail(r, n) \/ \E l \in Latencies : ProbeSucceed(r, n, l))

Spec == Init /\ [][Next]_vars /\ Fairness

-----------------------------------------------------------------------------
(* Properties.                                                            *)

TypeOK ==
    /\ ports \subseteq Ports
    /\ latencyMap \in [RowIds -> Sample]
    /\ measured \subseteq RowIds
    /\ issued \in [RowIds -> 0..MaxProbes]
    /\ inflight \subseteq RowIds \X (1..MaxProbes)
    /\ shownProbe \in [RowIds -> 0..MaxProbes]
    /\ selectedGroupId \in {NoId, Host}
    /\ selectedEndpointId \in RowIds \cup {NoId}
    /\ manualSelection \in BOOLEAN
    /\ manualEndpoint \in BOOLEAN
    /\ dirty \in BOOLEAN

(* Once the effects of the last render have run, the page shows a        *)
(* selection that exists: the server is Host, the port tier is one of the *)
(* rows of the current pool data, and unless the user picked it, it is    *)
(* the default tier.  This is what the group and endpoint effects must    *)
(* restore after a refresh removes a port the user had picked.            *)
SettledSelection ==
    ~dirty =>
        /\ selectedGroupId = Host
        /\ selectedEndpointId \in Rows
        /\ ~manualEndpoint => selectedEndpointId = DefaultEndpointRow(ports)

(* A port tier the user picked is never replaced by the page on its own  *)
(* (a refresh, a probe answer, a retest, a commit of the effects) while   *)
(* that port is still published.                                         *)
UserSelects ==
    \/ SelectGroup(Host)
    \/ \E e \in RowIds : SelectEndpoint(e)

ManualEndpointSticky ==
    [][ (manualEndpoint /\ selectedEndpointId \in RowsOf(ports') /\ ~UserSelects)
          => selectedEndpointId' = selectedEndpointId ]_vars

(* A row shown as "testing" always has a probe on its way whose answer    *)
(* will overwrite the badge: no path of testLatency leaves it stuck.      *)
TestingHasProbe ==
    \A r \in RowIds :
        latencyMap[r].status = "testing" => \E n \in 1..MaxProbes : <<r, n>> \in inflight

(* Once the effects have run, every listed row has been probed in this   *)
(* session and has a sample or a probe on its way, also a port that was  *)
(* dropped by one refresh and published again by a later one.           *)
ListedRowsProbed ==
    ~dirty => \A r \in Rows : r \in measured /\ latencyMap[r].status # "idle"

(* Every "testing" badge eventually turns into a latency or an error.   *)
ProbesAnswered ==
    \A r \in RowIds : latencyMap[r].status = "testing" ~> latencyMap[r].status # "testing"

=============================================================================
