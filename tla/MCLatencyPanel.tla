--------------------------- MODULE MCLatencyPanel ---------------------------
(* Small instance of the home page latency panel for TLC.                 *)
EXTENDS LatencyPanel, TLC

\* Two pool-port locations in a list capped at one.
MCCandidates == {"a-3333", "b-4444"}

MCRank == [c \in MCCandidates |-> IF c = "a-3333" THEN 1 ELSE 2]

=============================================================================
