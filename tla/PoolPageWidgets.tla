-------------------------- MODULE PoolPageWidgets --------------------------
(***************************************************************************)
(* The smaller stateful parts of the pool page (webui2                     *)
(* src/app/pools/[poolId]/page.tsx, PoolDetailPage): the pool switcher and *)
(* its search box (329-343, 1216-1264), the hero miner lookup form        *)
(* (1150-1162), the coin price ticker (892-939) and the "Copied!" badge of *)
(* the copy buttons (835-860, 1561-1608).                                  *)
(*                                                                         *)
(* The price effect is keyed on the coingeckoId of the pool's coin. Each   *)
(* run that finds an id starts an instance with its own `cancelled` flag,  *)
(* one load at once and one every 5 minutes; its cleanup sets the flag.    *)
(* An instance is named by `epoch`, the live one is `epoch`. A load has no *)
(* timeout (a plain fetch), so none is assumed to settle.                  *)
(*                                                                         *)
(* A copy either goes through navigator.clipboard.writeText, a promise     *)
(* that settles later, or, where the browser has no clipboard API,         *)
(* through document.execCommand at once. Each clear of the badge is a      *)
(* 1.5 s timer; the timers are counted, since each only sets null.         *)
(*                                                                         *)
(* Switching pools either re-renders the page with the new poolId or      *)
(* mounts a fresh page (the router may do either), as in SectionLoader.   *)
(***************************************************************************)
EXTENDS Naturals, FiniteSets

CONSTANTS
    PoolIds,    \* the pools usePoolsData lists
    GeckoIds,   \* coingecko ids of COIN_META
    GeckoOf,    \* pool -> COIN_META[symbol]?.coingeckoId, or None
    Terms,      \* what may be typed in the search box, trimmed
    Matches,    \* term -> the pools whose name, symbol or id contain it
    Fields,     \* the copy buttons' field keys
    Wallets,    \* wallet addresses, trimmed
    Blank,      \* a string of spaces
    Empty,      \* ''
    None,       \* null / undefined
    NoEffect,   \* the price effect has not run on this page yet
    MaxEpochs,  \* bound on the price effect instances of a behaviour
    MaxLoads,   \* bound on the loads of one instance
    MaxPending  \* bound on the clears and clipboard writes pending at once

ASSUME WidgetsAssumption ==
    /\ GeckoOf \in [PoolIds -> GeckoIds \cup {None}]
    /\ Matches \in [Terms -> SUBSET PoolIds]
    /\ None \notin PoolIds \cup GeckoIds \cup Fields \cup Wallets \cup Terms
    /\ None \notin [wallet: Wallets, pool: PoolIds]
    /\ NoEffect \notin GeckoIds \cup {None}
    /\ Empty \notin Wallets \cup Terms \cup {Blank} /\ Blank \notin Wallets
    /\ MaxEpochs \in Nat /\ MaxEpochs >= 2
    /\ MaxLoads \in Nat \ {0} /\ MaxPending \in Nat

VARIABLES
    poolId,            \* the route parameter
    loaded,            \* usePoolsData has answered: the pool is known
    dirty,             \* a commit whose effects have not run yet
    poolSearch,
    minerLookupValue,
    left,              \* None, or the /miners URL the hero form pushed
    epoch,             \* the newest price effect instance
    effectCoin,        \* the coingeckoId the price effect last ran with
    loads,             \* loadPrice calls in flight: instance, coin, number
    loadCount,         \* loads started by the live instance
    priceInfo,         \* None, or the coin and instance a price came from
    copiedField,
    timers,            \* setTimeout(() => setCopiedField(null)) pending
    writes,            \* field -> clipboard writes in flight
    clipboard          \* navigator.clipboard exists (a secure context)

vars == <<poolId, loaded, dirty, poolSearch, minerLookupValue, left, epoch,
          effectCoin, loads, loadCount, priceInfo, copiedField, timers,
          writes, clipboard>>

priceVars == <<epoch, effectCoin, loads, loadCount, priceInfo>>
copyVars  == <<copiedField, timers, writes>>

Queries == Wallets \cup {Blank, Empty}

\* value.trim(): a blank string is falsy.
Trim(q) == IF q \in Wallets THEN q ELSE Empty

\* COIN_META[coinSymbol]?.coingeckoId of `pool`, the find of poolId in the
\* ordered pools: undefined until the pools have loaded.
CoingeckoId == IF loaded THEN GeckoOf[poolId] ELSE None

\* filteredPools: every pool for an empty term, else those matching it.
FilteredPools == IF poolSearch = Empty THEN PoolIds ELSE Matches[poolSearch]

Pending == timers + Cardinality({f \in Fields : writes[f] > 0})

NoWrites == [f \in Fields |-> 0]

Init ==
    /\ poolId \in PoolIds
    /\ loaded = FALSE
    /\ dirty = TRUE
    /\ poolSearch = Empty
    /\ minerLookupValue = Empty
    /\ left = None
    /\ epoch = 0
    /\ effectCoin = NoEffect
    /\ loads = {}
    /\ loadCount = 0
    /\ priceInfo = None
    /\ copiedField = None
    /\ timers = 0
    /\ writes = NoWrites
    /\ clipboard \in BOOLEAN

\* usePoolsData answers; the commit runs the effects again.
PoolsArrive ==
    /\ ~loaded
    /\ loaded' = TRUE
    /\ dirty' = TRUE
    /\ UNCHANGED <<poolId, poolSearch, minerLookupValue, left, clipboard>>
    /\ UNCHANGED priceVars /\ UNCHANGED copyVars

\* Mutant of RunEffects: the `if (!coingeckoId)` test (905) is dropped, so
\* a load is started for an undefined id.
RunEffectsNoIdCheck ==
    /\ dirty /\ left = None
    /\ dirty' = FALSE
    /\ IF CoingeckoId = effectCoin
       THEN UNCHANGED priceVars
       ELSE /\ epoch' = epoch + 1
            /\ effectCoin' = CoingeckoId
            /\ loads' = loads \cup
                        {[ep |-> epoch + 1, coin |-> CoingeckoId, n |-> 1]}
            /\ loadCount' = 1
            /\ UNCHANGED priceInfo
    /\ UNCHANGED <<poolId, loaded, poolSearch, minerLookupValue, left,
                   clipboard>>
    /\ UNCHANGED copyVars

\* The price effect after a commit (903-939): it runs when coingeckoId
\* differs from the last run's, or on a fresh page. The previous
\* instance's cleanup sets its `cancelled`; without an id it sets the
\* price to null and returns; with one it calls loadPrice at once. The
\* price shown is not cleared when the id changes to another.
RunEffects ==
    /\ dirty /\ left = None
    /\ dirty' = FALSE
    /\ IF CoingeckoId = effectCoin
       THEN UNCHANGED priceVars
       ELSE /\ epoch' = epoch + 1
            /\ effectCoin' = CoingeckoId
            /\ IF CoingeckoId = None
               THEN /\ priceInfo' = None
                    /\ UNCHANGED <<loads, loadCount>>
               ELSE /\ loads' = loads \cup
                               {[ep |-> epoch + 1, coin |-> CoingeckoId, n |-> 1]}
                    /\ loadCount' = 1
                    /\ UNCHANGED priceInfo
    /\ UNCHANGED <<poolId, loaded, poolSearch, minerLookupValue, left,
                   clipboard>>
    /\ UNCHANGED copyVars

\* setInterval(loadPrice, 300000) of the live instance (934).
PriceTick ==
    /\ left = None
    /\ effectCoin \in GeckoIds
    /\ loadCount < MaxLoads
    /\ loadCount' = loadCount + 1
    /\ loads' = loads \cup {[ep |-> epoch, coin |-> effectCoin, n |-> loadCount + 1]}
    /\ UNCHANGED <<poolId, loaded, dirty, poolSearch, minerLookupValue, left,
                   epoch, effectCoin, priceInfo, clipboard>>
    /\ UNCHANGED copyVars

\* Mutant of PriceAnswer: the `!cancelled` test of the answer is dropped.
PriceAnswerUncancelled(l, outcome) ==
    /\ l \in loads
    /\ loads' = loads \ {l}
    /\ \/ outcome = "ok" /\ priceInfo' = [coin |-> l.coin, ep |-> l.ep]
       \/ outcome = "noentry" /\ UNCHANGED priceInfo
       \/ outcome = "failed" /\ priceInfo' = None
    /\ UNCHANGED <<poolId, loaded, dirty, poolSearch, minerLookupValue, left,
                   epoch, effectCoin, loadCount, clipboard>>
    /\ UNCHANGED copyVars

\* A loadPrice settles (912-932): a price entry is committed unless the
\* instance was cancelled; an answer without the coin's entry commits
\* nothing; a failed request or a bad status sets the price to null,
\* again unless cancelled.
PriceAnswer(l, outcome) ==
    /\ l \in loads
    /\ loads' = loads \ {l}
    /\ \/ outcome = "ok" /\ priceInfo' = IF l.ep = epoch
                                       THEN [coin |-> l.coin, ep |-> l.ep]
                                       ELSE priceInfo
       \/ outcome = "noentry" /\ UNCHANGED priceInfo
       \/ outcome = "failed" /\ priceInfo' = IF l.ep = epoch THEN None ELSE priceInfo
    /\ UNCHANGED <<poolId, loaded, dirty, poolSearch, minerLookupValue, left,
                   epoch, effectCoin, loadCount, clipboard>>
    /\ UNCHANGED copyVars

\* The search box (1262).
SetPoolSearch(t) ==
    /\ ~dirty /\ left = None
    /\ poolSearch' = t
    /\ UNCHANGED <<poolId, loaded, dirty, minerLookupValue, left, clipboard>>
    /\ UNCHANGED priceVars /\ UNCHANGED copyVars

\* A pool button of the switcher (1225-1227), shown with more than one
\* pool (1187): router.push to another pool. A re-render keeps the state;
\* a fresh page runs the old page's cleanup and starts from useState.
SwitchPool(p, fresh) ==
    /\ ~dirty /\ left = None /\ loaded
    /\ Cardinality(PoolIds) > 1
    /\ p \in FilteredPools /\ p # poolId
    /\ epoch + 3 <= MaxEpochs
    /\ poolId' = p
    /\ dirty' = TRUE
    /\ IF fresh
       THEN /\ epoch' = epoch + 1
            /\ effectCoin' = NoEffect
            /\ loadCount' = 0
            /\ loaded' = FALSE
            /\ priceInfo' = None
            /\ poolSearch' = Empty /\ minerLookupValue' = Empty
            /\ copiedField' = None /\ timers' = 0 /\ writes' = NoWrites
       ELSE UNCHANGED <<epoch, effectCoin, loadCount, loaded, priceInfo,
                        poolSearch, minerLookupValue, copiedField, timers,
                        writes>>
    /\ UNCHANGED <<left, loads, clipboard>>

\* The hero lookup input (1298).
SetMinerLookupValue(q) ==
    /\ ~dirty /\ left = None
    /\ minerLookupValue' = q
    /\ UNCHANGED <<poolId, loaded, dirty, poolSearch, left, clipboard>>
    /\ UNCHANGED priceVars /\ UNCHANGED copyVars

\* handleMinerLookupSubmit (1150-1162): nothing for a blank wallet, else
\* router.push(/miners?wallet=...&pool=poolId), which unmounts the page
\* and so runs the price effect's cleanup.
HandleMinerLookupSubmit ==
    /\ ~dirty /\ left = None
    /\ Trim(minerLookupValue) # Empty
    /\ epoch + 3 <= MaxEpochs
    /\ left' = [wallet |-> Trim(minerLookupValue), pool |-> poolId]
    /\ epoch' = epoch + 1
    /\ effectCoin' = NoEffect
    /\ loadCount' = 0
    /\ UNCHANGED <<poolId, loaded, dirty, poolSearch, minerLookupValue,
                   loads, priceInfo, clipboard>>
    /\ UNCHANGED copyVars

\* The browser's back button: a fresh pool page for the same pool, whose
\* usePoolsData loads the pools again.
Back ==
    /\ left # None
    /\ left' = None
    /\ loaded' = FALSE
    /\ dirty' = TRUE
    /\ poolSearch' = Empty /\ minerLookupValue' = Empty
    /\ priceInfo' = None
    /\ copiedField' = None /\ timers' = 0 /\ writes' = NoWrites
    /\ UNCHANGED <<poolId, epoch, effectCoin, loads, loadCount, clipboard>>

\* handleCopy (835-860), from a copy button (1561-1563, 1601). With the
\* clipboard API the write is started; without it execCommand('copy')
\* either returns (its result is not looked at) or throws.
HandleCopy(f, throws) ==
    /\ ~dirty /\ left = None /\ loaded
    /\ Pending < MaxPending
    /\ IF clipboard
       THEN /\ writes' = [writes EXCEPT ![f] = @ + 1]
            /\ UNCHANGED <<copiedField, timers>>
       ELSE /\ IF throws
               THEN UNCHANGED <<copiedField, timers>>
               ELSE /\ copiedField' = f /\ timers' = timers + 1
            /\ UNCHANGED writes
    /\ UNCHANGED <<poolId, loaded, dirty, poolSearch, minerLookupValue, left,
                   clipboard>>
    /\ UNCHANGED priceVars

\* writeText settles (839-843): on success the badge is set and its clear
\* scheduled; on a rejection the badge is set all the same, and no clear.
WriteSettle(f, ok) ==
    /\ writes[f] > 0
    /\ writes' = [writes EXCEPT ![f] = @ - 1]
    /\ copiedField' = f
    /\ timers' = IF ok THEN timers + 1 ELSE timers
    /\ UNCHANGED <<poolId, loaded, dirty, poolSearch, minerLookupValue, left,
                   clipboard>>
    /\ UNCHANGED priceVars

\* A clear timer fires (841, 855): whatever the badge shows is cleared.
ClearCopied ==
    /\ timers > 0
    /\ timers' = timers - 1
    /\ copiedField' = None
    /\ UNCHANGED writes
    /\ UNCHANGED <<poolId, loaded, dirty, poolSearch, minerLookupValue, left,
                   clipboard>>
    /\ UNCHANGED priceVars

Next ==
    \/ PoolsArrive
    \/ RunEffects
    \/ PriceTick
    \/ \E l \in loads, o \in {"ok", "noentry", "failed"} : PriceAnswer(l, o)
    \/ \E t \in Terms \cup {Empty} : SetPoolSearch(t)
    \/ \E p \in PoolIds, fresh \in BOOLEAN : SwitchPool(p, fresh)
    \/ \E q \in Queries : SetMinerLookupValue(q)
    \/ HandleMinerLookupSubmit
    \/ Back
    \/ \E f \in Fields, throws \in BOOLEAN : HandleCopy(f, throws)
    \/ \E f \in Fields, ok \in BOOLEAN : WriteSettle(f, ok)
    \/ ClearCopied

\* React runs a commit's effects; the browser settles a clipboard write
\* and fires a due timer. A price fetch has no timeout: no fairness.
Fairness ==
    /\ WF_vars(RunEffects)
    /\ WF_vars(\E f \in Fields, ok \in BOOLEAN : WriteSettle(f, ok))
    /\ WF_vars(ClearCopied)

Spec == Init /\ [][Next]_vars /\ Fairness

-----------------------------------------------------------------------------
(* Properties.                                                            *)

\* Type invariant.
TypeOK ==
    /\ poolId \in PoolIds
    /\ loaded \in BOOLEAN /\ dirty \in BOOLEAN /\ clipboard \in BOOLEAN
    /\ poolSearch \in Terms \cup {Empty}
    /\ minerLookupValue \in Queries
    /\ left \in {None} \cup [wallet: Wallets, pool: PoolIds]
    /\ epoch \in 0..MaxEpochs
    /\ effectCoin \in GeckoIds \cup {None, NoEffect}
    /\ loads \subseteq [ep: 1..MaxEpochs, coin: GeckoIds, n: 1..MaxLoads]
    /\ loadCount \in 0..MaxLoads
    /\ priceInfo \in {None} \cup [coin: GeckoIds, ep: 1..MaxEpochs]
    /\ copiedField \in Fields \cup {None}
    /\ timers \in Nat
    /\ writes \in [Fields -> Nat]

\* Once the effects of a commit have run, a pool whose coin has no
\* coingecko id shows no price, whatever the pools switched through and
\* whatever loads of earlier coins are still in flight.
NoPriceWithoutId ==
    (~dirty /\ left = None /\ CoingeckoId = None) => priceInfo = None

\* The price effect runs that can still start an instance before the next
\* navigation: one when the coin changed, one more when the pools have yet
\* to arrive, and two for a page to come back to.
EffectRunsLeft ==
    IF left # None THEN 2
    ELSE (IF effectCoin = CoingeckoId THEN 0 ELSE 1) + (IF loaded THEN 0 ELSE 1)

\* The inductive invariant of the proofs: the instance numbers stay within
\* their bound, a load of the live instance is for the coin that instance
\* was started with, once the effects have run they were started with the
\* pool's coin, and an instance without a coin shows no price.
IInv ==
    /\ TypeOK
    /\ epoch + EffectRunsLeft <= MaxEpochs
    /\ effectCoin \in GeckoIds => epoch >= 1
    /\ \A l \in loads : l.ep <= epoch /\ (l.ep = epoch => l.coin = effectCoin)
    /\ (~dirty /\ left = None) => effectCoin = CoingeckoId
    /\ effectCoin = None => priceInfo = None

=============================================================================
