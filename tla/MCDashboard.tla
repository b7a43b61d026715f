---------------------------- MODULE MCDashboard ----------------------------
(* Small instance of the Navigation dashboard for TLC.                     *)
EXTENDS Dashboard, TLC

\* Two pools, so that a selection can change and a pool can vanish.
MCPoolIds == {1, 2}

=============================================================================
