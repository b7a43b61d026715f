--------------------------- MODULE MCSectionLoader ---------------------------
(* Small instance of the pool page's blocks and payments loader for TLC.  *)
EXTENDS SectionLoader, TLC

\* Two pools: a switch away and a switch back reuse a pool under a new
\* instance while the old instance's answers are still in flight.
MCPoolIds == {"btc", "ltc"}

=============================================================================
