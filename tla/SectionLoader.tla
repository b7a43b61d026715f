---------------------------- MODULE SectionLoader ----------------------------
(***************************************************************************)
(* The blocks and payments loader of the pool page (webui2                 *)
(* src/app/pools/[poolId]/page.tsx, lines 350-405) and the pool switcher  *)
(* that changes its poolId (line 1226).                                    *)
(*                                                                         *)
(* The effect keyed on poolId starts an instance: an `active` flag, one    *)
(* load at once and one every 30 s. A load fetches the blocks, then the   *)
(* payments; each answer is committed only while the instance is active.  *)
(* The cleanup clears the flag when poolId changes. An instance is named  *)
(* by `epoch`; it is active while epoch is its number. Between a commit   *)
(* that changes poolId and the effects' re-run (`dirty`), the old         *)
(* instance is still active.                                               *)
(*                                                                         *)
(* Whether the router re-renders the page with the new poolId or mounts a  *)
(* fresh page is left open: the switch does either. A fresh page runs the *)
(* old page's cleanup and starts with empty sections.                      *)
(*                                                                         *)
(* Lists are abstracted to the pool they were fetched for and whether the *)
(* fetch succeeded: [] plus an error message on failure.                   *)
(***************************************************************************)
EXTENDS Naturals

CONSTANTS
    PoolIds,    \* the pool ids the switcher lists
    None,       \* no instance running (a page being mounted)
    NoData,     \* the initial [] with no error
    MaxEpochs   \* bound on the effect instances of a behaviour

ASSUME LoaderAssumption ==
    /\ None \notin PoolIds
    /\ MaxEpochs \in Nat \ {0}

VARIABLES
    poolId,     \* the route parameter as last rendered
    epoch,      \* the newest effect instance; 0 before the first
    effectPool, \* the poolId the newest instance captured, or None
    dirty,      \* poolId changed and the effect has not re-run
    loads,      \* the load calls in flight: instance, pool, stage
    blocks,     \* blocks / blocksError as shown
    payments    \* payments / paymentsError as shown

vars == <<poolId, epoch, effectPool, dirty, loads, blocks, payments>>

Shown == {NoData} \cup [pool: PoolIds, ok: BOOLEAN]

Loads == [ep: 1..MaxEpochs, pool: PoolIds, stage: {"blocks", "payments"}]

\* The instance that `active` still marks as live.
Active(l) == l.ep = epoch

Init ==
    /\ poolId \in PoolIds
    /\ epoch = 0
    /\ effectPool = None
    /\ dirty = TRUE
    /\ loads = {}
    /\ blocks = NoData
    /\ payments = NoData

\* Mutant of RunEffects: the effect's dependency list is empty, so it runs
\* only after the first commit.
RunEffectsMountOnly ==
    /\ dirty
    /\ dirty' = FALSE
    /\ IF epoch = 0 \/ effectPool = None
       THEN /\ epoch' = epoch + 1
            /\ effectPool' = poolId
            /\ loads' = loads \cup
                        {[ep |-> epoch + 1, pool |-> poolId, stage |-> "blocks"]}
       ELSE UNCHANGED <<epoch, effectPool, loads>>
    /\ UNCHANGED <<poolId, blocks, payments>>

\* After a commit that changed poolId: the old instance's cleanup (lines
\* 401-404) and a new instance whose first load starts at once (399).
RunEffects ==
    /\ dirty
    /\ dirty' = FALSE
    /\ epoch' = epoch + 1
    /\ effectPool' = poolId
    /\ loads' = loads \cup {[ep |-> epoch + 1, pool |-> poolId, stage |-> "blocks"]}
    /\ UNCHANGED <<poolId, blocks, payments>>

\* Mutant of Tick: the interval's load reads the route's current poolId
\* instead of the one its instance captured.
TickFromRoute ==
    /\ effectPool # None
    /\ \A l \in loads : l.ep # epoch
    /\ loads' = loads \cup {[ep |-> epoch, pool |-> poolId, stage |-> "blocks"]}
    /\ UNCHANGED <<poolId, epoch, effectPool, dirty, blocks, payments>>

\* setInterval(load, 30_000) of the live instance (line 400). Each request
\* times out after 10 s, so a tick comes after the previous load ended.
Tick ==
    /\ effectPool # None
    /\ \A l \in loads : l.ep # epoch
    /\ loads' = loads \cup {[ep |-> epoch, pool |-> effectPool, stage |-> "blocks"]}
    /\ UNCHANGED <<poolId, epoch, effectPool, dirty, blocks, payments>>

\* Mutant of Answer: the `if (!active) return` after the payments fetch
\* (line 383) is missing.
AnswerPaymentsUnguarded(l, ok) ==
    /\ l \in loads
    /\ \/ /\ l.stage = "blocks"
          /\ blocks' = IF Active(l) THEN [pool |-> l.pool, ok |-> ok] ELSE blocks
          /\ loads' = (loads \ {l}) \cup
                      (IF Active(l) \/ ~ok THEN {[l EXCEPT !.stage = "payments"]} ELSE {})
          /\ UNCHANGED payments
       \/ /\ l.stage = "payments"
          /\ payments' = IF Active(l) \/ ok THEN [pool |-> l.pool, ok |-> ok] ELSE payments
          /\ loads' = loads \ {l}
          /\ UNCHANGED blocks
    /\ UNCHANGED <<poolId, epoch, effectPool, dirty>>

\* The answer of one fetch of `load` (lines 361-397). An answer of the
\* blocks fetch is committed while active and then the payments are
\* fetched; an inactive instance returns on success (364) but goes on to
\* fetch the payments after a failure, since the catch only skips the
\* commit (374-379). The payments answer is committed while active.
Answer(l, ok) ==
    /\ l \in loads
    /\ \/ /\ l.stage = "blocks"
          /\ blocks' = IF Active(l) THEN [pool |-> l.pool, ok |-> ok] ELSE blocks
          /\ loads' = (loads \ {l}) \cup
                      (IF Active(l) \/ ~ok THEN {[l EXCEPT !.stage = "payments"]} ELSE {})
          /\ UNCHANGED payments
       \/ /\ l.stage = "payments"
          /\ payments' = IF Active(l) THEN [pool |-> l.pool, ok |-> ok] ELSE payments
          /\ loads' = loads \ {l}
          /\ UNCHANGED blocks
    /\ UNCHANGED <<poolId, epoch, effectPool, dirty>>

\* A click on another pool of the switcher (line 1226). The page is either
\* re-rendered with the new poolId, or mounted afresh: the old page's
\* cleanup runs at once and the new one starts with empty sections.
Navigate(p) ==
    /\ ~dirty
    /\ p # poolId
    /\ epoch + 2 <= MaxEpochs
    /\ poolId' = p
    /\ dirty' = TRUE
    /\ \/ UNCHANGED <<epoch, effectPool, blocks, payments>>
       \/ /\ epoch' = epoch + 1
          /\ effectPool' = None
          /\ blocks' = NoData
          /\ payments' = NoData
    /\ UNCHANGED loads

Next ==
    \/ RunEffects
    \/ Tick
    \/ \E l \in loads, ok \in BOOLEAN : Answer(l, ok)
    \/ \E p \in PoolIds : Navigate(p)

\* React runs the effects after a commit, the interval fires every 30 s,
\* and every request settles within axios's 10 s timeout.
Fairness ==
    /\ WF_vars(RunEffects)
    /\ WF_vars(Tick)
    /\ \A l \in Loads : WF_vars(\E ok \in BOOLEAN : Answer(l, ok))

Spec == Init /\ [][Next]_vars /\ Fairness

-----------------------------------------------------------------------------
(* Properties.                                                            *)

\* Type invariant.
TypeOK ==
    /\ poolId \in PoolIds
    /\ epoch \in 0..MaxEpochs
    /\ effectPool \in PoolIds \cup {None}
    /\ dirty \in BOOLEAN
    /\ loads \subseteq Loads
    /\ blocks \in Shown
    /\ payments \in Shown

\* An instance has started whenever one is running, every load in flight
\* belongs to an instance that has started, and a load
\* of the live instance fetches the pool that instance captured: the
\* interval's closure keeps the poolId of its effect run, whatever the
\* route says by the time it fires.
LoadsOfInstance ==
    /\ dirty => epoch < MaxEpochs
    /\ effectPool # None => epoch > 0
    /\ \A l \in loads : l.ep <= epoch /\ (Active(l) => l.pool = effectPool)

\* The inductive invariant of the proofs.
IInv == TypeOK /\ LoadsOfInstance

\* The page implements SectionView: its current pool is the one the live
\* instance captured, and the blocks and payments sections only ever show
\* a result for it. The `active` checks of lines 364, 375, 383 and 392 are
\* what drops the answers of an instance the user has navigated away from.
View == INSTANCE SectionView WITH current <- effectPool

ImplementsView == View!Spec

\* Once the user stays on a pool, both sections eventually show a result
\* fetched for it: the effect re-runs for the new poolId, and the old
\* pool's lists do not stay on the new pool's page.
ShownCatchUp ==
    \A p \in PoolIds :
        /\ poolId = p ~> (poolId # p \/ (blocks # NoData /\ blocks.pool = p))
        /\ poolId = p ~> (poolId # p \/ (payments # NoData /\ payments.pool = p))

=============================================================================
