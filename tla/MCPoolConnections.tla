------------------------ MODULE MCPoolConnections ------------------------
(***************************************************************************)
(* Small instances of PoolConnections for TLC.                            *)
(*                                                                         *)
(* Two published ports and the fallback row: enough for a port to be     *)
(* dropped by one refresh and published again by a later one, for the    *)
(* default tier to differ from the first row, and for two probes of the  *)
(* same row to be on their way at once (MaxProbes = 2).                  *)
(***************************************************************************)
EXTENDS PoolConnections, TLC

\* Port 1 is a low-difficulty tier, port 2 the "Mid-range" tier.
MCPorts == {1, 2}
MCNames == {"Low", "Mid-range", "Mid"}
MCMidTierNames == {"Mid-range"}
MCMidNames == {"Mid-range", "Mid"}
MCPortName == [p \in MCPorts |-> IF p = 2 THEN "Mid-range" ELSE "Low"]
MCPortDifficulty == [p \in MCPorts |-> IF p = 1 THEN 512 ELSE Null]
MCPortVarDiffMin == [p \in MCPorts |-> IF p = 2 THEN 4096 ELSE Null]
MCLatencies == {10, 20}
MCOneLatency == {10}

(* Spec section 3: a new probe of an endpoint overwrites its sample.     *)
(* Once no probe of a row is on its way, the sample shown is the answer *)
(* to the latest probe sent, never an older one's.                      *)
LatestProbeWins ==
    \A r \in RowIds :
        (/\ \A n \in 1..MaxProbes : <<r, n>> \notin inflight
         /\ latencyMap[r].status \in {"success", "error"})
            => shownProbe[r] = issued[r]
=============================================================================
