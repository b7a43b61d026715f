---------------------------- MODULE ConnectPage ----------------------------
(***************************************************************************)
(* The connect page (webui2 src/unnamed/part_003, lines 61-118 and the     *)
(* buttons at 176, 240 and 248): the active pool and the selected port,   *)
(* reconciled by two effects each time the pools are refreshed.           *)
(*                                                                         *)
(* The first effect (79-89) runs on every new orderedPools or search       *)
(* params: it picks the ?pool= parameter if listed, else keeps the        *)
(* previous pool if listed, else the first pool. The second (110-118)     *)
(* runs on every new portEntries: it keeps the previous port if the       *)
(* active pool has it, else picks the middle port. Every poll gives new   *)
(* pool objects, so both effects run after every refresh; a change of the *)
(* active pool renders a new portEntries and runs the second one again.   *)
(* A poll may also change a pool's ports.                                  *)
(*                                                                         *)
(* `manual` is a history variable, not state of the code: the port the   *)
(* user picked last and its pool, forgotten when the user picks a pool or *)
(* a poll no longer lists that port.                                       *)
(***************************************************************************)
EXTENDS PortOrder

CONSTANTS
    PoolIds,    \* the pools the API may list
    Rank,       \* order of `${coin.symbol ?? id}`.toLowerCase() (sortPools)
    PortMaps,   \* the port maps a pool may have: port -> minDiff or NoMin
    Requested,  \* the ?pool= search parameter, or None
    None        \* null

ASSUME ConnectAssumption ==
    /\ IsFiniteSet(PoolIds)
    /\ Rank \in [PoolIds -> Nat]
    /\ \A p, q \in PoolIds : Rank[p] = Rank[q] => p = q
    /\ \A m \in PortMaps : IsFiniteSet(DOMAIN m) /\ DOMAIN m \subseteq Nat
    /\ \A m \in PortMaps : \A k \in DOMAIN m : m[k] \in Nat \cup {NoMin}
    /\ None \notin PoolIds /\ None \notin Nat
    /\ Requested \in PoolIds \cup {None}

VARIABLES
    listed,        \* the pools of the last poll: pool -> its port map
    activePoolId,  \* the activePoolId state
    selectedPort,  \* the selectedPort state
    poolsDirty,    \* orderedPools changed; the first effect is pending
    portsDirty,    \* portEntries changed; the second effect is pending
    manual         \* history: <<pool, port>> the user picked, or None

vars == <<listed, activePoolId, selectedPort, poolsDirty, portsDirty, manual>>

Settled == ~poolsDirty /\ ~portsDirty

present == DOMAIN listed

\* The port numbers of a listed pool.
PortsOf(p) == DOMAIN listed[p]

\* orderedPools[0]: the listed pool first by symbol.
FirstPool(S) == CHOOSE p \in S : \A q \in S : Rank[p] <= Rank[q]

\* activePool (91-94): the listed pool with the active id, or null.
ActiveOf(id) == IF id \in present THEN id ELSE None

ActivePool == ActiveOf(activePoolId)

\* The updater of the first effect (82-88).
PickPool(prev) ==
    IF Requested # None /\ Requested \in present THEN Requested
    ELSE IF prev \in present THEN prev
    ELSE FirstPool(present)

\* Mutant of PickPort: the previous port is not kept (line 113 missing).
PickPortAlwaysMid(pool, prev) ==
    IF pool = None \/ PortsOf(pool) = {} THEN None
    ELSE MidPort(PortsOf(pool), listed[pool])

\* The updater of the second effect (111-117), over the portEntries of pool.
PickPort(pool, prev) ==
    IF pool = None \/ PortsOf(pool) = {} THEN None
    ELSE IF prev \in PortsOf(pool) THEN prev
    ELSE MidPort(PortsOf(pool), listed[pool])

Init ==
    /\ listed = <<>>
    /\ activePoolId = None
    /\ selectedPort = None
    /\ poolsDirty = TRUE
    /\ portsDirty = TRUE
    /\ manual = None

\* A poll answered with the pools f (usePoolsData's setPools). The new
\* array gives a new orderedPools, and a new activePool object unless the
\* active pool is unlisted before and after.
Refresh(f) ==
    /\ Settled
    /\ listed' = f
    /\ poolsDirty' = TRUE
    /\ portsDirty' = (activePoolId \in present \/ activePoolId \in DOMAIN f)
    /\ manual' = IF manual # None /\ (manual[1] \notin DOMAIN f \/
                                      manual[2] \notin DOMAIN f[manual[1]])
                 THEN None ELSE manual
    /\ UNCHANGED <<activePoolId, selectedPort>>

\* Mutant of RunEffects: a change of the active pool is not followed by a
\* second run of the port effect.
RunEffectsNoRerender ==
    /\ ~Settled
    /\ LET newActive == IF poolsDirty /\ present # {}
                        THEN PickPool(activePoolId) ELSE activePoolId
       IN  /\ activePoolId' = newActive
           /\ selectedPort' = IF portsDirty THEN PickPort(ActivePool, selectedPort)
                              ELSE selectedPort
           /\ poolsDirty' = FALSE
           /\ portsDirty' = FALSE
    /\ UNCHANGED <<listed, manual>>

\* The effects of one commit, in their order: the pool effect if
\* orderedPools changed (it returns early on an empty list), then the
\* port effect if portEntries changed, over that render's portEntries.
\* A new active pool renders a new portEntries: the port effect is due
\* again.
RunEffects ==
    /\ ~Settled
    /\ LET newActive == IF poolsDirty /\ present # {}
                        THEN PickPool(activePoolId) ELSE activePoolId
       IN  /\ activePoolId' = newActive
           /\ selectedPort' = IF portsDirty THEN PickPort(ActivePool, selectedPort)
                              ELSE selectedPort
           /\ poolsDirty' = FALSE
           /\ portsDirty' = (ActiveOf(newActive) # ActivePool)
    /\ UNCHANGED <<listed, manual>>

\* A pool button (line 176).
ClickPool(p) ==
    /\ Settled
    /\ p \in present
    /\ activePoolId' = p
    /\ portsDirty' = (p # activePoolId)
    /\ manual' = None
    /\ UNCHANGED <<listed, selectedPort, poolsDirty>>

\* A port row or its radio button (lines 240 and 248).
ClickPort(k) ==
    /\ Settled
    /\ ActivePool # None
    /\ k \in PortsOf(ActivePool)
    /\ selectedPort' = k
    /\ manual' = <<ActivePool, k>>
    /\ UNCHANGED <<listed, activePoolId, poolsDirty, portsDirty>>

Next ==
    \/ \E S \in SUBSET PoolIds : \E f \in [S -> PortMaps] : Refresh(f)
    \/ RunEffects
    \/ \E p \in PoolIds : ClickPool(p)
    \/ \E p \in present : \E k \in PortsOf(p) : ClickPort(k)

\* React runs the passive effects after every commit.
Spec == Init /\ [][Next]_vars /\ WF_vars(RunEffects)

-----------------------------------------------------------------------------
(* Properties.                                                            *)

Ports == UNION {DOMAIN m : m \in PortMaps}

\* Type invariant.
TypeOK ==
    /\ \E S \in SUBSET PoolIds : listed \in [S -> PortMaps]
    /\ activePoolId \in PoolIds \cup {None}
    /\ selectedPort \in Ports \cup {None}
    /\ poolsDirty \in BOOLEAN /\ portsDirty \in BOOLEAN
    /\ manual \in {None} \cup {<<p, k>> : p \in PoolIds, k \in Ports}

\* Once the effects have run, a listed pool is active whenever the list is
\* not empty, and the selected port is one of the active pool's ports (null
\* only when it has none). The two effects run in different commits, and
\* the port effect must see the active pool the pool effect chose.
SettledSelection ==
    Settled =>
        /\ present # {} => activePoolId \in present
        /\ selectedPort = None <=> (ActivePool = None \/ PortsOf(ActivePool) = {})
        /\ selectedPort # None => selectedPort \in PortsOf(ActivePool)

\* Spec 4.3 and 8, manual selection stickiness: a port the user picked stays
\* selected, with its pool, across polls that still list it. The pool
\* effect re-applies ?pool= on every refresh.
ManualPortSticky ==
    (Settled /\ manual # None) =>
        activePoolId = manual[1] /\ selectedPort = manual[2]

=============================================================================
