--------------------------- MODULE MCLatencyRoute ---------------------------
(* Small instance of the latency probe endpoint for TLC.                  *)
EXTENDS LatencyRoute, TLC

\* A port the panels send, a zero, a missing one and one above 65535.
MCPortValues == {NaN, 0, 3333, 70000}

\* A missing timeout, a zero, one below, one inside and one above the range.
MCTimeoutValues == {NaN, 0, 200, 3000, 20000}

\* A fast peer, one exactly at the default timeout, one slower than any.
MCConnectTimes == {100, 3000, 12000}

=============================================================================
