------------------------- MODULE MinerLookup_proofs -------------------------
(***************************************************************************)
(* Proofs about the miner lookup panel, for every set of pools, wallets,  *)
(* pool lists and URL parameters.                                         *)
(*                                                                         *)
(* OneLookup is not inductive: the URL effect starts a lookup without     *)
(* looking at `submitting`. What keeps it from racing a lookup of the     *)
(* form is that the form can only submit a selected pool, and nothing is  *)
(* selected before the URL effect has run (the last conjunct of IInv).   *)
(***************************************************************************)
EXTENDS MinerLookup, TLAPS

\* The pools array holds pool ids, the first of them when it is not empty.
LEMMA ListedIds ==
    ASSUME TypeOK
    PROVE  /\ Listed \subseteq PoolIds
           /\ pools # <<>> => pools[1] \in Listed
<1>1. pools \in Seq(PoolIds)
  <2>1. CASE pools = <<>>
    BY <2>1
  <2>2. CASE pools \in PoolLists
    BY <2>2, LookupAssumption
  <2>3. QED
    BY <2>1, <2>2 DEF TypeOK
<1>2. QED
  BY <1>1 DEF Listed

\* A lookup started when none is in flight is the only one in flight.
LEMMA StartLookupIInv ==
    ASSUME IInv, lookups = {},
           NEW pool \in PoolIds \cup {Empty}, NEW wallet \in Queries,
           StartLookup(pool, wallet),
           pool # Empty => initialised'
    PROVE  /\ result' \in Lookups \cup {None}
           /\ error' \in {None, "invalid", "missing", "failed"}
           /\ submitting' \in BOOLEAN
           /\ lookups' \subseteq Lookups
           /\ asked' \in Lookups \cup {None}
           /\ OneLookup' /\ ResultOfLastLookup'
           /\ \A l \in lookups' : l = asked'
           /\ ~initialised' => lookups' = {}
<1>1. CASE Trim(wallet) = Empty \/ pool = Empty
  <2>1. UNCHANGED <<result, submitting, lookups, asked>> /\ error' = "invalid"
    BY <1>1 DEF StartLookup
  <2>2. QED
    BY <2>1 DEF IInv, TypeOK, OneLookup, ResultOfLastLookup
<1>2. CASE ~(Trim(wallet) = Empty \/ pool = Empty)
  <2> DEFINE new == [pool |-> pool, wallet |-> Trim(wallet)]
  <2>1. new \in Lookups
    BY <1>2 DEF Trim, Lookups
  <2>2. lookups' = {new} /\ asked' = new /\ result' = None
        /\ submitting' = TRUE /\ error' = None
    BY <1>2 DEF StartLookup
  <2>3. QED
    BY <1>2, <2>1, <2>2 DEF OneLookup, ResultOfLastLookup
<1>3. QED
  BY <1>1, <1>2

LEMMA InitIInv == Init => IInv
<1> SUFFICES ASSUME Init PROVE IInv
  OBVIOUS
<1>2. pools \in PoolLists \cup {<<>>} /\ query \in Queries
  BY DEF Init, Queries
<1>3. TypeOK
  BY <1>2 DEF Init, TypeOK
<1>4. QED
  BY <1>3 DEF Init, IInv, OneLookup, ResultOfLastLookup

LEMMA PollIInv == IInv /\ Poll => IInv'
BY DEF Poll, IInv, TypeOK, OneLookup, ResultOfLastLookup

LEMMA PollFailIInv == IInv /\ PollFail => IInv'
<1> SUFFICES ASSUME IInv, PollFail PROVE IInv'
  OBVIOUS
<1>1. UNCHANGED <<pools, selectedPool, query, result, error, submitting,
                  initialised, lookups, dirty, asked, touched>>
      /\ loading' = FALSE
  BY DEF PollFail
<1>2. QED
  BY <1>1 DEF IInv, TypeOK, OneLookup, ResultOfLastLookup

LEMMA PollAnswerIInv ==
    ASSUME IInv, NEW list \in PoolLists, PollAnswer(list)
    PROVE  IInv'
<1>1. pools' \in PoolLists /\ initialised' = initialised
  BY LookupAssumption DEF PollAnswer, IInv, TypeOK
<1>2. ~initialised' => lookups' = {} /\ selectedPool' = Empty
  BY DEF PollAnswer, IInv
<1>3. dirty'
  BY DEF PollAnswer
<1>4. QED
  BY <1>1, <1>2, <1>3 DEF PollAnswer, IInv, TypeOK, OneLookup, ResultOfLastLookup

LEMMA RunEffectsIInv == IInv /\ RunEffects => IInv'
<1> SUFFICES ASSUME IInv, RunEffects PROVE IInv'
  OBVIOUS
<1> DEFINE runUrl   == ~initialised /\ pools # <<>>
           resolved == IF UrlPool \in Listed THEN UrlPool
                       ELSE IF selectedPool # Empty THEN selectedPool
                       ELSE pools[1]
<1>1. /\ Listed \subseteq PoolIds
      /\ pools # <<>> => pools[1] \in Listed
  BY ListedIds DEF IInv
<1>2. selectedPool' \in PoolIds \cup {Empty}
      /\ initialised' = (initialised \/ runUrl)
      /\ UNCHANGED <<pools, loading, touched>> /\ dirty' = FALSE
  BY <1>1, LookupAssumption DEF RunEffects, IInv, TypeOK
<1>3. CASE runUrl /\ UrlWallet # Empty
  <2>1. resolved \in PoolIds
    BY <1>1, <1>3, LookupAssumption DEF IInv, TypeOK
  <2>2. lookups = {} /\ query' = UrlWallet /\ StartLookup(resolved, UrlWallet)
    BY <1>3 DEF RunEffects, IInv
  <2>3. UrlWallet \in Queries
    BY LookupAssumption DEF Queries
  <2>4. resolved # Empty => initialised'
    BY <1>2, <1>3
  <2>5. QED
    BY <1>2, <2>1, <2>2, <2>3, <2>4, StartLookupIInv, LookupAssumption
       DEF IInv, TypeOK, Queries
<1>4. CASE ~(runUrl /\ UrlWallet # Empty)
  <2>1. UNCHANGED <<query, result, error, submitting, lookups, asked>>
    BY <1>4 DEF RunEffects
  <2>2. ~initialised' => pools = <<>> /\ selectedPool' = Empty
    BY <1>2, <1>4 DEF RunEffects, IInv
  <2>3. QED
    BY <1>2, <2>1, <2>2 DEF IInv, TypeOK, OneLookup, ResultOfLastLookup
<1>5. QED
  BY <1>3, <1>4

LEMMA SelectPoolIInv ==
    ASSUME IInv, NEW p \in PoolIds, SelectPool(p)
    PROVE  IInv'
<1>1. initialised
  <2>1. Listed # {}
    BY DEF SelectPool
  <2>2. QED
    BY <2>1 DEF SelectPool, IInv, Listed
<1>2. QED
  BY <1>1 DEF SelectPool, IInv, TypeOK, OneLookup, ResultOfLastLookup

LEMMA TypeQueryIInv ==
    ASSUME IInv, NEW q \in Queries, TypeQuery(q)
    PROVE  IInv'
BY DEF TypeQuery, IInv, TypeOK, OneLookup, ResultOfLastLookup

LEMMA SubmitIInv == IInv /\ Submit => IInv'
<1> SUFFICES ASSUME IInv, Submit PROVE IInv'
  OBVIOUS
<1>1. lookups = {}
  BY DEF Submit, IInv, OneLookup
<1>2. selectedPool # Empty => initialised'
  BY DEF Submit, IInv
<1>3. selectedPool \in PoolIds \cup {Empty} /\ query \in Queries
  BY DEF IInv, TypeOK
<1>4. StartLookup(selectedPool, query)
      /\ UNCHANGED <<pools, loading, selectedPool, query, initialised,
                     dirty, touched>>
  BY DEF Submit
<1>5. QED
  BY <1>1, <1>2, <1>3, <1>4, StartLookupIInv DEF IInv, TypeOK

LEMMA LookupAnswerIInv ==
    ASSUME IInv, NEW l \in lookups,
           NEW o \in {"found", "missing", "failed"}, LookupAnswer(l, o)
    PROVE  IInv'
<1>1. lookups = {l} /\ l = asked /\ l \in Lookups /\ result = None
  BY DEF IInv, TypeOK, OneLookup, ResultOfLastLookup
<1>2. lookups' = {} /\ submitting' = FALSE
      /\ UNCHANGED <<pools, loading, selectedPool, query, initialised,
                     dirty, asked, touched>>
  BY <1>1 DEF LookupAnswer
<1>3. result' \in {l, None} /\ error' \in {None, "invalid", "missing", "failed"}
  BY <1>1 DEF LookupAnswer, IInv, TypeOK
<1>4. QED
  BY <1>1, <1>2, <1>3 DEF IInv, TypeOK, OneLookup, ResultOfLastLookup

LEMMA IInvStep == IInv /\ [Next]_vars => IInv'
<1> SUFFICES ASSUME IInv, [Next]_vars PROVE IInv'
  OBVIOUS
<1>1. CASE Poll \/ PollFail
  BY <1>1, PollIInv, PollFailIInv
<1>2. CASE \E list \in PoolLists : PollAnswer(list)
  BY <1>2, PollAnswerIInv
<1>3. CASE RunEffects
  BY <1>3, RunEffectsIInv
<1>4. CASE \E p \in PoolIds : SelectPool(p)
  BY <1>4, SelectPoolIInv
<1>5. CASE \E q \in Queries : TypeQuery(q)
  BY <1>5, TypeQueryIInv
<1>6. CASE Submit
  BY <1>6, SubmitIInv
<1>7. CASE \E l \in lookups, o \in {"found", "missing", "failed"} : LookupAnswer(l, o)
  BY <1>7, LookupAnswerIInv
<1>8. CASE UNCHANGED vars
  BY <1>8 DEF vars, IInv, TypeOK, OneLookup, ResultOfLastLookup
<1>9. QED
  BY <1>1, <1>2, <1>3, <1>4, <1>5, <1>6, <1>7, <1>8 DEF Next

\* At most one fetchMinerStats call is in flight, and the submit button is
\* disabled exactly while one is (OneLookup), for every configuration: the
\* URL effect and the form never start two lookups that race.
THEOREM OneLookupInvariant == Spec => []OneLookup
<1>1. Spec => []IInv
  BY InitIInv, IInvStep, PTL DEF Spec
<1>2. QED
  BY <1>1, PTL DEF IInv

\* The result shown always answers the last lookup started, and no result
\* is shown while a lookup runs (ResultOfLastLookup).
THEOREM ResultInvariant == Spec => []ResultOfLastLookup
<1>1. Spec => []IInv
  BY InitIInv, IInvStep, PTL DEF Spec
<1>2. QED
  BY <1>1, PTL DEF IInv

\* The lookup bookkeeping itself (IInv): the only lookup in flight is the
\* last one started, and before the URL effect has read ?pool= and
\* ?address= no pool is selected and no lookup has been started.
THEOREM InvariantHolds == Spec => []IInv
BY InitIInv, IInvStep, PTL DEF Spec

=============================================================================
