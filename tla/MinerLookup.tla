---------------------------- MODULE MinerLookup ----------------------------
(***************************************************************************)
(* The miner lookup panel (webui2 src/app/types/miningcore.ts, lines       *)
(* 199-296 and the form at 306-338) over its own usePoolsData feed (hooks/ *)
(* usePoolsData.ts, lines 16-66).                                          *)
(*                                                                         *)
(* Two effects run after every commit that changes the pools or the       *)
(* selection, in their order: the first (233-263) runs once, when the     *)
(* pools first arrive, and applies the ?pool= and ?wallet= parameters of  *)
(* the page's URL, starting a lookup when a wallet is given; the second   *)
(* (265-272) fills an empty selection with the first pool. Both read the  *)
(* selectedPool of the render they belong to. A lookup (performLookup,    *)
(* 209-231) clears the result and the error and is answered later.        *)
(*                                                                         *)
(* No page passes initialPoolId (app/page.tsx 110, miners/page.tsx 80),   *)
(* so its branches are left out. A wallet is a model value; Blank is one  *)
(* of only spaces, Empty the empty string. The pools feed is reduced to   *)
(* the list of ids it answers and its loading flag. A load times out     *)
(* after 10 s and the interval is 30 s (part_005 line 12), so a tick comes *)
(* after the previous load has settled.                                   *)
(***************************************************************************)
EXTENDS Naturals, Sequences

CONSTANTS
    PoolIds,    \* the pool ids the API may list
    PoolLists,  \* the pool lists a poll may answer, in the API's order
    Wallets,    \* wallet addresses, already trimmed
    Blank,      \* a string of spaces
    Empty,      \* ''
    None,       \* null
    UrlPool,    \* the ?pool= parameter, or None
    UrlWallet   \* the ?wallet= parameter ('' when absent)

ASSUME LookupAssumption ==
    /\ PoolLists \subseteq Seq(PoolIds)
    /\ \A s \in PoolLists : \A i, j \in DOMAIN s : s[i] = s[j] => i = j
    /\ None \notin PoolIds \cup Wallets \cup {Blank, Empty}
    /\ Empty \notin PoolIds \cup Wallets /\ Blank \notin Wallets \cup {Empty}
    /\ UrlPool \in PoolIds \cup {None}
    /\ UrlWallet \in Wallets \cup {Blank, Empty}

VARIABLES
    pools,          \* usePoolsData's pools, as ids
    loading,        \* usePoolsData's loading flag: a load is in flight
    selectedPool,   \* the selectedPool state ('' = Empty)
    query,          \* the query state
    result,         \* the result state: the lookup it answers, or None
    error,          \* the error state: None or which message
    submitting,     \* the submitting state
    initialised,    \* urlParamsInitialised
    lookups,        \* the fetchMinerStats calls in flight
    dirty,          \* pools or the selection changed; effects pending
    asked,          \* history: the last lookup started, or None
    touched         \* history: the user has changed the pool select

vars == <<pools, loading, selectedPool, query, result, error,
          submitting, initialised, lookups, dirty, asked, touched>>

\* The ids of the pools array.
Listed == {pools[i] : i \in DOMAIN pools}

Queries == Wallets \cup {Blank, Empty}

Lookups == [pool: PoolIds, wallet: Wallets]

\* wallet.trim(), falsy when the wallet is only spaces.
Trim(q) == IF q \in Wallets THEN q ELSE Empty

\* Mutant of StartLookup: the previous result is not cleared (line 217).
StartLookupKeepsResult(pool, wallet) ==
    IF Trim(wallet) = Empty \/ pool = Empty
    THEN /\ error' = "invalid"
         /\ UNCHANGED <<result, submitting, lookups, asked>>
    ELSE /\ submitting' = TRUE
         /\ error' = None
         /\ UNCHANGED result
         /\ lookups' = lookups \cup {[pool |-> pool, wallet |-> Trim(wallet)]}
         /\ asked' = [pool |-> pool, wallet |-> Trim(wallet)]

\* The synchronous part of performLookup (lines 209-220): the check of its
\* arguments, then the state it resets before awaiting fetchMinerStats.
StartLookup(pool, wallet) ==
    IF Trim(wallet) = Empty \/ pool = Empty
    THEN /\ error' = "invalid"
         /\ UNCHANGED <<result, submitting, lookups, asked>>
    ELSE /\ submitting' = TRUE
         /\ error' = None
         /\ result' = None
         /\ lookups' = lookups \cup {[pool |-> pool, wallet |-> Trim(wallet)]}
         /\ asked' = [pool |-> pool, wallet |-> Trim(wallet)]

\* The mount: the hook's first load is in flight, nothing is selected.
Init ==
    /\ pools = <<>>
    /\ loading = TRUE
    /\ selectedPool = Empty
    /\ query = Empty
    /\ result = None
    /\ error = None
    /\ submitting = FALSE
    /\ initialised = FALSE
    /\ lookups = {}
    /\ dirty = TRUE
    /\ asked = None
    /\ touched = FALSE

\* The hook's interval (usePoolsData.ts 51-54) starts a load (line 23).
Poll ==
    /\ ~loading
    /\ loading' = TRUE
    /\ UNCHANGED <<pools, selectedPool, query, result, error, submitting,
                   initialised, lookups, dirty, asked, touched>>

\* Mutant of PollAnswer: the list is written into the old array in place,
\* so nothing re-renders and the effects do not run.
PollAnswerInPlace(list) ==
    /\ loading
    /\ loading' = FALSE
    /\ pools' = list
    /\ UNCHANGED <<selectedPool, query, result, error, submitting,
                   initialised, lookups, dirty, asked, touched>>

\* A load answered with a list (lines 25-33): it replaces the pools, a new
\* array, so the effects are due. The finally clears loading (39).
PollAnswer(list) ==
    /\ loading
    /\ loading' = FALSE
    /\ pools' = list
    /\ dirty' = TRUE
    /\ UNCHANGED <<selectedPool, query, result, error, submitting,
                   initialised, lookups, asked, touched>>

\* A load failed (lines 34-39): the pools stay, loading is cleared.
PollFail ==
    /\ loading
    /\ loading' = FALSE
    /\ UNCHANGED <<pools, selectedPool, query, result, error, submitting,
                   initialised, lookups, dirty, asked, touched>>

\* The two effects of one commit, in their order, each over that render's
\* selectedPool. The first returns early once initialised or while no
\* pool is listed; it resolves ?pool= if listed, else the selection, else
\* the first pool, and starts a lookup when ?wallet= is not ''. The second
\* fills an empty selection with the first pool: its update is queued
\* after the first's, so it wins. Re-runs of both return early.
RunEffects ==
    /\ dirty
    /\ dirty' = FALSE
    /\ LET runUrl   == ~initialised /\ pools # <<>>
           resolved == IF UrlPool \in Listed THEN UrlPool
                       ELSE IF selectedPool # Empty THEN selectedPool
                       ELSE pools[1]
           fill     == selectedPool = Empty /\ pools # <<>>
       IN  /\ selectedPool' = IF fill THEN pools[1]
                              ELSE IF runUrl THEN resolved ELSE selectedPool
           /\ initialised' = (initialised \/ runUrl)
           /\ IF runUrl /\ UrlWallet # Empty
              THEN query' = UrlWallet /\ StartLookup(resolved, UrlWallet)
              ELSE UNCHANGED <<query, result, error, submitting, lookups, asked>>
    /\ UNCHANGED <<pools, loading, touched>>

\* The pool select (line 312), disabled while loading or empty (313).
SelectPool(p) ==
    /\ ~dirty
    /\ ~loading
    /\ p \in Listed
    /\ selectedPool' = p
    /\ touched' = TRUE
    /\ UNCHANGED <<pools, loading, query, result, error, submitting,
                   initialised, lookups, dirty, asked>>

\* The wallet input (line 330).
TypeQuery(q) ==
    /\ ~dirty
    /\ query' = q
    /\ UNCHANGED <<pools, loading, selectedPool, result, error,
                   submitting, initialised, lookups, dirty, asked, touched>>

\* Mutant of Submit: the form submits while a lookup is running.
SubmitUnguarded ==
    /\ ~dirty
    /\ StartLookup(selectedPool, query)
    /\ UNCHANGED <<pools, loading, selectedPool, query, initialised,
                   dirty, touched>>

\* handleSubmit (lines 279-293); the submit button is disabled while
\* submitting (335), and with it the Enter key's implicit submission. Its
\* own check (282-285) is performLookup's. The router.replace of the new
\* URL is not read again: the first effect has run.
Submit ==
    /\ ~dirty
    /\ ~submitting
    /\ StartLookup(selectedPool, query)
    /\ UNCHANGED <<pools, loading, selectedPool, query, initialised,
                   dirty, touched>>

\* fetchMinerStats settles (lines 220-230): data is shown as the result,
\* null gives "not found" and no result, a throw (a 404, a timeout)
\* gives the error message and leaves the result as it is.
LookupAnswer(l, outcome) ==
    /\ l \in lookups
    /\ lookups' = lookups \ {l}
    /\ submitting' = FALSE
    /\ \/ outcome = "found" /\ result' = l /\ UNCHANGED error
       \/ outcome = "missing" /\ result' = None /\ error' = "missing"
       \/ outcome = "failed" /\ error' = "failed" /\ UNCHANGED result
    /\ UNCHANGED <<pools, loading, selectedPool, query, initialised,
                   dirty, asked, touched>>

Next ==
    \/ Poll
    \/ \E list \in PoolLists : PollAnswer(list)
    \/ PollFail
    \/ RunEffects
    \/ \E p \in PoolIds : SelectPool(p)
    \/ \E q \in Queries : TypeQuery(q)
    \/ Submit
    \/ \E l \in lookups, o \in {"found", "missing", "failed"} : LookupAnswer(l, o)

Spec == Init /\ [][Next]_vars

-----------------------------------------------------------------------------
(* Properties.                                                            *)

\* Type invariant.
TypeOK ==
    /\ pools \in PoolLists \cup {<<>>}
    /\ loading \in BOOLEAN
    /\ selectedPool \in PoolIds \cup {Empty}
    /\ query \in Queries
    /\ result \in Lookups \cup {None}
    /\ error \in {None, "invalid", "missing", "failed"}
    /\ submitting \in BOOLEAN /\ initialised \in BOOLEAN /\ dirty \in BOOLEAN
    /\ lookups \subseteq Lookups
    /\ asked \in Lookups \cup {None}
    /\ touched \in BOOLEAN

\* One lookup at a time: the flag that disables the button is set exactly
\* while a fetchMinerStats call is in flight, whether the URL effect or
\* the form started it, so two answers never race to set the result.
OneLookup ==
    /\ \A l, m \in lookups : l = m
    /\ submitting <=> lookups # {}

\* The result shown is the answer to the last lookup started, and none is
\* shown while a lookup runs: a new lookup clears the old result before it
\* awaits, and a failed one leaves it cleared.
ResultOfLastLookup ==
    result # None => result = asked /\ lookups = {}

\* Until the user changes the pool select, the last lookup started is for
\* the pool the select shows, also when the URL's ?pool= picked it: the
\* result's "Pool" line (line 377) and the next submit use selectedPool.
LookupForShownPool ==
    (~dirty /\ ~touched /\ asked # None) => asked.pool = selectedPool

\* The inductive invariant of the proofs: a lookup in flight is the last
\* one started, and before the URL effect has run nothing is selected or
\* fetched, and no pool is listed once the effects have settled.
IInv ==
    /\ TypeOK
    /\ OneLookup
    /\ ResultOfLastLookup
    /\ \A l \in lookups : l = asked
    /\ ~initialised =>
           /\ lookups = {} /\ selectedPool = Empty
           /\ (~dirty => pools = <<>>)

=============================================================================
