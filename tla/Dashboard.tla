----------------------------- MODULE Dashboard -----------------------------
(***************************************************************************)
(* The Dashboard component of webui2 src/app/components/layout/            *)
(* Navigation.tsx (lines 238-483): the pool list poller, the blocks and    *)
(* payments poller of the selected pool, the pool buttons and the miner    *)
(* lookup form.                                                            *)
(*                                                                         *)
(* Both pollers are effects that depend on [selectedPoolId]: a selection   *)
(* change runs their cleanups (active = false, clearInterval) and starts   *)
(* new instances. An instance is identified by its epoch, the number of    *)
(* effect runs so far; an answer is committed only if its instance is     *)
(* still active, i.e. its epoch is the current one and its cleanup has not *)
(* run. The blocks and payments sections are abstracted to the pool the  *)
(* shown fetch was for and whether it succeeded (a failure shows [] and an *)
(* error message), or NoData for the initial [] with no error; the miner  *)
(* stats to the pool they were fetched for (None: null).                  *)
(***************************************************************************)
EXTENDS Naturals, FiniteSets

CONSTANTS
    PoolIds,    \* pool ids the API may list; list order is numeric order
    NoPool,     \* selectedPoolId = null
    None,       \* miner stats null
    NoData,     \* the initial [] of blocks and payments, with no error
    MaxEpochs   \* bound on the effect runs

ASSUME DashboardAssumption ==
    /\ PoolIds \subseteq Nat /\ IsFiniteSet(PoolIds)
    /\ NoPool \notin PoolIds /\ None \notin PoolIds \cup {NoPool}
    /\ NoData \notin [pool: PoolIds, ok: BOOLEAN]
    /\ MaxEpochs \in Nat \ {0}

VARIABLES
    pools,           \* ids of the pools as last committed
    selectedPoolId,
    loading,         \* the pool list's loading flag
    poolsError,      \* an error message is shown
    epoch,           \* effect instances started so far (current = epoch)
    effectPool,      \* the selectedPoolId captured by the current instances
    dirty,           \* selectedPoolId changed; cleanups and effects pending
    poolLoads,       \* epochs with a fetchPools in flight
    details,         \* in-flight loadDetails: [ep, pool, stage]
    blocksFor,       \* blocks / blocksError as shown
    paymentsFor,     \* payments / paymentsError as shown
    minerLoading,
    lookup,          \* pool of the in-flight miner lookup, or NoPool
    minerFor         \* pool whose miner stats are shown, or None

vars == <<pools, selectedPoolId, loading, poolsError, epoch, effectPool, dirty,
          poolLoads, details, blocksFor, paymentsFor, minerLoading, lookup,
          minerFor>>

Stages == {"blocks", "payments"}

Shown == {NoData} \cup [pool: PoolIds, ok: BOOLEAN]

\* setBlocks([]) or setPayments([]) alone: the list is emptied and an
\* error message stays.
Emptied(s) == IF s # NoData /\ ~s.ok THEN s ELSE NoData

DetailLoads == [ep : 1..MaxEpochs, pool : PoolIds, stage : Stages]

\* poolList[0].id
FirstPool(ps) == CHOOSE p \in ps : \A q \in ps : p <= q

\* The current instance has a loadDetails in flight.
DetailsRunning == \E d \in details : d.ep = epoch

Init ==
    /\ pools = {}
    /\ selectedPoolId = NoPool
    /\ loading = TRUE
    /\ poolsError = FALSE
    /\ epoch = 0
    /\ effectPool = NoPool
    /\ dirty = TRUE
    /\ poolLoads = {}
    /\ details = {}
    /\ blocksFor = NoData
    /\ paymentsFor = NoData
    /\ minerLoading = FALSE
    /\ lookup = NoPool
    /\ minerFor = None

\* The effects of a commit whose selectedPoolId changed (and of the mount):
\* the old instances' cleanups, then loadPools() (setLoading(true)) and
\* either the empty lists (no selection; the error messages are left as
\* they are) or loadDetails() for the pool.
RunEffects ==
    /\ dirty
    /\ epoch < MaxEpochs
    /\ epoch' = epoch + 1
    /\ effectPool' = selectedPoolId
    /\ dirty' = FALSE
    /\ loading' = TRUE
    /\ poolLoads' = poolLoads \cup {epoch + 1}
    /\ IF selectedPoolId = NoPool
       THEN /\ blocksFor' = Emptied(blocksFor) /\ paymentsFor' = Emptied(paymentsFor)
            /\ UNCHANGED details
       ELSE /\ details' = details \cup
                  {[ep |-> epoch + 1, pool |-> selectedPoolId, stage |-> "blocks"]}
            /\ UNCHANGED <<blocksFor, paymentsFor>>
    /\ UNCHANGED <<pools, selectedPoolId, poolsError, minerLoading, lookup, minerFor>>

\* The pool list interval of the current instance. Its previous load has
\* ended: axios times out after 10 s and the interval is 30 s.
PoolsTick ==
    /\ epoch > 0
    /\ epoch \notin poolLoads
    /\ loading' = TRUE
    /\ poolLoads' = poolLoads \cup {epoch}
    /\ UNCHANGED <<pools, selectedPoolId, poolsError, epoch, effectPool, dirty,
                   details, blocksFor, paymentsFor, minerLoading, lookup, minerFor>>

\* fetchPools of instance e answers with the list ps (lines 259-285). Only
\* an active instance (its cleanup has not run) commits; it selects the
\* first pool if the selectedPoolId it captured is null.
PoolsLoaded(e, ps) ==
    /\ e \in poolLoads
    /\ poolLoads' = poolLoads \ {e}
    /\ IF e = epoch
       THEN /\ pools' = ps
            /\ poolsError' = FALSE
            /\ loading' = FALSE
            /\ IF effectPool = NoPool /\ ps # {}
               THEN /\ selectedPoolId' = FirstPool(ps)
                    /\ dirty' = (dirty \/ FirstPool(ps) # selectedPoolId)
               ELSE UNCHANGED <<selectedPoolId, dirty>>
       ELSE UNCHANGED <<pools, poolsError, loading, selectedPoolId, dirty>>
    /\ UNCHANGED <<epoch, effectPool, details, blocksFor, paymentsFor,
                   minerLoading, lookup, minerFor>>

\* Mutant of PoolsFailed: the failure path does not clear the flag.
PoolsFailedKeepsLoading(e) ==
    /\ e \in poolLoads
    /\ poolLoads' = poolLoads \ {e}
    /\ IF e = epoch
       THEN poolsError' = TRUE /\ UNCHANGED loading
       ELSE UNCHANGED <<poolsError, loading>>
    /\ UNCHANGED <<pools, selectedPoolId, epoch, effectPool, dirty, details,
                   blocksFor, paymentsFor, minerLoading, lookup, minerFor>>

\* fetchPools of instance e fails: the old list stays, an error is shown.
PoolsFailed(e) ==
    /\ e \in poolLoads
    /\ poolLoads' = poolLoads \ {e}
    /\ IF e = epoch
       THEN poolsError' = TRUE /\ loading' = FALSE
       ELSE UNCHANGED <<poolsError, loading>>
    /\ UNCHANGED <<pools, selectedPoolId, epoch, effectPool, dirty, details,
                   blocksFor, paymentsFor, minerLoading, lookup, minerFor>>

\* Mutant of DetailsTick: the load is tagged with the next epoch.
DetailsTickNextEpoch ==
    /\ epoch > 0
    /\ effectPool # NoPool
    /\ ~DetailsRunning
    /\ details' = details \cup
          {[ep |-> epoch + 1, pool |-> effectPool, stage |-> "blocks"]}
    /\ UNCHANGED <<pools, selectedPoolId, loading, poolsError, epoch, effectPool,
                   dirty, poolLoads, blocksFor, paymentsFor, minerLoading,
                   lookup, minerFor>>

\* The details interval of the current instance, which exists only if the
\* effect did not return early; its previous load (two requests of at
\* most 10 s each) has ended.
DetailsTick ==
    /\ epoch > 0
    /\ effectPool # NoPool
    /\ ~DetailsRunning
    /\ details' = details \cup
          {[ep |-> epoch, pool |-> effectPool, stage |-> "blocks"]}
    /\ UNCHANGED <<pools, selectedPoolId, loading, poolsError, epoch, effectPool,
                   dirty, poolLoads, blocksFor, paymentsFor, minerLoading,
                   lookup, minerFor>>

\* Mutant of DetailsAnswer: the answer is committed without the active check.
DetailsAnswerUnguarded(d, ok) ==
    /\ d \in details
    /\ LET result == [pool |-> d.pool, ok |-> ok] IN
       IF d.stage = "blocks"
       THEN /\ blocksFor' = result
            /\ details' = (details \ {d}) \cup {[d EXCEPT !.stage = "payments"]}
            /\ UNCHANGED paymentsFor
       ELSE /\ paymentsFor' = result
            /\ details' = details \ {d}
            /\ UNCHANGED blocksFor
    /\ UNCHANGED <<pools, selectedPoolId, loading, poolsError, epoch, effectPool,
                   dirty, poolLoads, minerLoading, lookup, minerFor>>

\* One answer of loadDetails (lines 304-344): blocks first, then payments.
\* A success shows the list, a failure [] and an error; either is committed
\* only if the instance is active. An inactive load still goes on to
\* fetch the payments.
DetailsAnswer(d, ok) ==
    /\ d \in details
    /\ LET active == d.ep = epoch
           result == [pool |-> d.pool, ok |-> ok]
       IN  IF d.stage = "blocks"
           THEN /\ blocksFor' = IF active THEN result ELSE blocksFor
                /\ details' = (details \ {d}) \cup {[d EXCEPT !.stage = "payments"]}
                /\ UNCHANGED paymentsFor
           ELSE /\ paymentsFor' = IF active THEN result ELSE paymentsFor
                /\ details' = details \ {d}
                /\ UNCHANGED blocksFor
    /\ UNCHANGED <<pools, selectedPoolId, loading, poolsError, epoch, effectPool,
                   dirty, poolLoads, minerLoading, lookup, minerFor>>

\* A pool button (line 561): setSelectedPoolId(pool.id). The bound on the
\* effect runs is also a bound on the clicks.
SelectPool(p) ==
    /\ ~dirty
    /\ epoch < MaxEpochs
    /\ p \in pools
    /\ selectedPoolId' = p
    /\ dirty' = (p # selectedPoolId)
    /\ UNCHANGED <<pools, loading, poolsError, epoch, effectPool, poolLoads,
                   details, blocksFor, paymentsFor, minerLoading, lookup, minerFor>>

\* handleMinerLookup (lines 459-483), the button disabled while loading.
\* With no pool or an empty query it clears the stats; otherwise it starts
\* fetchMinerStats for the selected pool.
MinerLookup(hasQuery) ==
    /\ ~dirty
    /\ ~minerLoading
    /\ IF selectedPoolId = NoPool \/ ~hasQuery
       THEN minerFor' = None /\ UNCHANGED <<minerLoading, lookup>>
       ELSE minerLoading' = TRUE /\ lookup' = selectedPoolId /\ UNCHANGED minerFor
    /\ UNCHANGED <<pools, selectedPoolId, loading, poolsError, epoch, effectPool,
                   dirty, poolLoads, details, blocksFor, paymentsFor>>

\* The lookup answers: the stats (found), null or an error (not found).
MinerAnswer(found) ==
    /\ lookup # NoPool
    /\ minerFor' = IF found THEN lookup ELSE None
    /\ minerLoading' = FALSE
    /\ lookup' = NoPool
    /\ UNCHANGED <<pools, selectedPoolId, loading, poolsError, epoch, effectPool,
                   dirty, poolLoads, details, blocksFor, paymentsFor>>

Next ==
    \/ RunEffects
    \/ PoolsTick
    \/ \E e \in 1..MaxEpochs, ps \in SUBSET PoolIds : PoolsLoaded(e, ps)
    \/ \E e \in 1..MaxEpochs : PoolsFailed(e)
    \/ DetailsTick
    \/ \E d \in DetailLoads, ok \in BOOLEAN : DetailsAnswer(d, ok)
    \/ \E p \in PoolIds : SelectPool(p)
    \/ \E q \in BOOLEAN : MinerLookup(q)
    \/ \E f \in BOOLEAN : MinerAnswer(f)

\* React runs the effects after a commit, every request settles (axios
\* times out after 10 s) and the current instance's pool interval keeps
\* firing; the details interval and the user's clicks get no fairness.
Fairness ==
    /\ WF_vars(RunEffects)
    /\ WF_vars(PoolsTick)
    /\ \A e \in 1..MaxEpochs :
          WF_vars(PoolsFailed(e) \/ \E ps \in SUBSET PoolIds : PoolsLoaded(e, ps))
    /\ \A d \in DetailLoads : WF_vars(\E ok \in BOOLEAN : DetailsAnswer(d, ok))
    /\ WF_vars(\E f \in BOOLEAN : MinerAnswer(f))

Spec == Init /\ [][Next]_vars /\ Fairness

-----------------------------------------------------------------------------
(* Properties.                                                            *)

\* Type invariant.
TypeOK ==
    /\ pools \subseteq PoolIds
    /\ selectedPoolId \in PoolIds \cup {NoPool}
    /\ effectPool \in PoolIds \cup {NoPool}
    /\ loading \in BOOLEAN /\ poolsError \in BOOLEAN
    /\ dirty \in BOOLEAN /\ minerLoading \in BOOLEAN
    /\ epoch \in 0..MaxEpochs
    /\ poolLoads \subseteq 1..MaxEpochs
    /\ details \subseteq DetailLoads
    /\ blocksFor \in Shown
    /\ paymentsFor \in Shown
    /\ lookup \in PoolIds \cup {NoPool}
    /\ minerFor \in PoolIds \cup {None}

\* Once the effects have run, the blocks and payments shown are results
\* for the selected pool (or the initial []), except while the selected pool's own load
\* has not yet replaced them: an answer of a pool the user has left is
\* never committed (the `active` flag of loadDetails).
DetailsForSelected ==
    ~dirty =>
        /\ blocksFor # NoData /\ blocksFor.pool # selectedPoolId =>
               \E d \in details : d.ep = epoch /\ d.stage = "blocks"
        /\ paymentsFor # NoData /\ paymentsFor.pool # selectedPoolId =>
               DetailsRunning

\* The inductive invariant of the proofs: a details load is of an instance
\* started so far, one of the live instance fetches the pool that instance
\* captured, and once the effects have run the captured pool is the
\* selected one. Until a pool is first selected no details load has run
\* (a selection never returns to null).
IInv ==
    /\ TypeOK
    /\ \A d \in details : d.ep <= epoch /\ (d.ep = epoch => d.pool = effectPool)
    /\ ~dirty => effectPool = selectedPoolId
    /\ selectedPoolId = NoPool =>
          /\ details = {} /\ effectPool = NoPool
          /\ blocksFor = NoData /\ paymentsFor = NoData
    /\ DetailsForSelected

\* The dashboard's blocks and payments implement SectionView, the promise
\* the pool page's loader keeps: the current pool is the one the live
\* instances captured (null: none), and a section only ever changes to a
\* result fetched for it, or back to [] when no pool is selected. The
\* `active` checks of loadDetails drop the answers of an old selection.
View == INSTANCE SectionView
        WITH None <- NoPool, NoData <- NoData, current <- effectPool,
             blocks <- blocksFor, payments <- paymentsFor

ImplementsView == View!Spec

\* The "Refreshing" state of the pool list and the disabled lookup button
\* always end: every path of loadPools and handleMinerLookup clears them.
LoadingSettles ==
    /\ loading ~> ~loading
    /\ minerLoading ~> ~minerLoading

=============================================================================
