----------------------------- MODULE SectionView -----------------------------
(***************************************************************************)
(* What the blocks and payments sections of the pool page promise (spec,   *)
(* "Concurrency": a stale response is ignored via a liveness flag checked  *)
(* before committing state). There is a current pool, or none while the   *)
(* page is being mounted; a section only ever changes to the result of a   *)
(* fetch for the current pool, and leaving the page clears both sections. *)
(* A shown result records the pool it was fetched for and whether the     *)
(* fetch succeeded (a failure shows an empty list and an error message).  *)
(***************************************************************************)
CONSTANTS PoolIds, None, NoData

VARIABLES current, blocks, payments

avars == <<current, blocks, payments>>

Shown == {NoData} \cup [pool: PoolIds, ok: BOOLEAN]

Init ==
    /\ current = None
    /\ blocks = NoData
    /\ payments = NoData

\* The page's fetches start for pool p.
Select(p) ==
    /\ current' = p
    /\ UNCHANGED <<blocks, payments>>

\* The page is left: its sections start empty again.
Leave ==
    /\ current' = None
    /\ blocks' = NoData
    /\ payments' = NoData

\* A result for the current pool is shown.
ShowBlocks(ok) ==
    /\ current # None
    /\ blocks' = [pool |-> current, ok |-> ok]
    /\ UNCHANGED <<current, payments>>

ShowPayments(ok) ==
    /\ current # None
    /\ payments' = [pool |-> current, ok |-> ok]
    /\ UNCHANGED <<current, blocks>>

Next ==
    \/ \E p \in PoolIds : Select(p)
    \/ Leave
    \/ \E ok \in BOOLEAN : ShowBlocks(ok) \/ ShowPayments(ok)

Spec == Init /\ [][Next]_avars

=============================================================================
