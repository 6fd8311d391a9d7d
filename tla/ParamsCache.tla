---------------------------- MODULE ParamsCache -----------------------------
(***************************************************************************)
(* walletParams (src/internal/delegated/service.go): the one-entry cache   *)
(* of the agentwallet params that verifyProof consults before it verifies  *)
(* a credential chain.  Unlike the root-state cache, paramsMu is held      *)
(* across the chain query, so fills are serialized and waiters queue       *)
(* behind a slow one.  A failed query is not cached: the next waiter asks  *)
(* again.                                                                  *)
(***************************************************************************)
EXTENDS Integers

CONSTANTS
  Requests,      \* the calls that may be inside walletParams at once
  MaxVersion,    \* bound: governance changes the params this many times
  TTL,           \* paramsCacheTTL
  QueryTimeout,  \* the limit on one exchange with the chain: the REST client's
                 \* 15 s; over gRPC whatever the caller's context sets
  MaxTime,       \* bound: the clock stops here
  NoRequest      \* not a request

ASSUME MaxVersionAssumption == MaxVersion \in Nat
ASSUME TTLAssumption == TTL \in Nat \ {0}
ASSUME QueryTimeoutAssumption == QueryTimeout \in Nat
ASSUME MaxTimeAssumption == MaxTime \in Nat
ASSUME NoRequestAssumption == NoRequest \notin Requests

Times    == 0 .. MaxTime
Versions == 0 .. MaxVersion   \* successive values of the params

\* cachedParams and paramsFetched; version -1 is a nil cachedParams.
Nil     == [version |-> -1, fetched |-> -1]
Entries == [version : Versions, fetched : Times]

Never == -(TTL + QueryTimeout)

VARIABLES
  clock,     \* what s.now() returns
  params,    \* the chain's params: the version in force
  cache,     \* cachedParams with paramsFetched
  mu,        \* who holds paramsMu, or NoRequest
  pc,        \* where each call stands
  sent,      \* when each call's query left
  answer,    \* the version the chain returned to each call
  got,       \* the version each call's last return carried; -1 an error
  judged,    \* when each call's last s.now() was taken
  hung,      \* the calls stuck for good in an exchange with the chain: over
             \* gRPC nothing but the caller's context ends one
  inForce    \* history: when each version was last in force

callVars == <<pc, sent, answer, got, judged>>
vars == <<clock, params, cache, mu, callVars, inForce, hung>>

Labels == {"idle", "lock", "check", "ask", "wait", "answered"}

-----------------------------------------------------------------------------
\* A governance proposal changes the params.
Govern ==
  /\ params < MaxVersion
  /\ params' = params + 1
  /\ inForce' = [inForce EXCEPT ![params'] = clock]
  /\ UNCHANGED <<clock, cache, mu, callVars>>

Tick ==
  /\ clock < MaxTime
  /\ clock' = clock + 1
  /\ inForce' = [inForce EXCEPT ![params] = clock']
  /\ UNCHANGED <<params, cache, mu, callVars>>

-----------------------------------------------------------------------------
Call(q) ==
  /\ pc[q] = "idle"
  /\ pc' = [pc EXCEPT ![q] = "lock"]
  /\ got' = [got EXCEPT ![q] = -1]
  /\ judged' = [judged EXCEPT ![q] = 0]
  /\ UNCHANGED <<clock, params, cache, mu, sent, answer, inForce>>

\* Mutant of Lock: the mutex is not consulted.
LockNothing(q) ==
  /\ pc[q] = "lock"
  /\ mu' = q
  /\ pc' = [pc EXCEPT ![q] = "check"]
  /\ UNCHANGED <<clock, params, cache, sent, answer, got, judged, inForce>>

Lock(q) ==
  /\ pc[q] = "lock"
  /\ mu = NoRequest
  /\ mu' = q
  /\ pc' = [pc EXCEPT ![q] = "check"]
  /\ UNCHANGED <<clock, params, cache, sent, answer, got, judged, inForce>>

\* The call returns version v; the deferred Unlock runs.
Return(q, v) ==
  /\ got' = [got EXCEPT ![q] = v]
  /\ sent' = [sent EXCEPT ![q] = 0]
  /\ answer' = [answer EXCEPT ![q] = 0]
  /\ pc' = [pc EXCEPT ![q] = "idle"]
  /\ mu' = NoRequest

\* Mutant of Fresh: a nil cache is told apart, the age is not looked at.
FreshForever(t) == cache # Nil

Fresh(t) == cache # Nil /\ t - cache.fetched < TTL

\* A fresh entry is returned; otherwise the chain will be asked.
Check(q) ==
  /\ pc[q] = "check"
  /\ IF Fresh(clock)
       THEN /\ Return(q, cache.version)
            /\ judged' = [judged EXCEPT ![q] = clock]
       ELSE /\ pc' = [pc EXCEPT ![q] = "ask"]
            /\ UNCHANGED <<mu, sent, answer, got, judged>>
  /\ UNCHANGED <<clock, params, cache, inForce>>

\* The Params query leaves, with the mutex held.
Ask(q) ==
  /\ pc[q] = "ask"
  /\ sent' = [sent EXCEPT ![q] = clock]
  /\ pc' = [pc EXCEPT ![q] = "wait"]
  /\ UNCHANGED <<clock, params, cache, mu, answer, got, judged, inForce>>

Serve(q) ==
  /\ pc[q] = "wait"
  /\ answer' = [answer EXCEPT ![q] = params]
  /\ pc' = [pc EXCEPT ![q] = "answered"]
  /\ UNCHANGED <<clock, params, cache, mu, sent, got, judged, inForce>>

\* Mutant of Fail: the error path leaves without unlocking.
FailHoldingLock(q) ==
  /\ pc[q] \in {"wait", "answered"}
  /\ sent' = [sent EXCEPT ![q] = 0]
  /\ answer' = [answer EXCEPT ![q] = 0]
  /\ pc' = [pc EXCEPT ![q] = "idle"]
  /\ UNCHANGED <<clock, params, cache, mu, got, judged, inForce>>

\* The query fails or times out: an error is returned, nothing is cached.
Fail(q) ==
  /\ pc[q] \in {"wait", "answered"}
  /\ Return(q, -1)
  /\ UNCHANGED <<clock, params, cache, judged, inForce>>

\* Mutant of Receive: the entry is stamped with its expiry.
ReceiveStampsExpiry(q) ==
  /\ pc[q] = "answered"
  /\ clock - sent[q] <= QueryTimeout
  /\ cache' = [version |-> answer[q], fetched |-> clock + TTL]
  /\ judged' = [judged EXCEPT ![q] = clock]
  /\ Return(q, answer[q])
  /\ UNCHANGED <<clock, params, inForce>>

\* The response is cached, stamped with the clock as it reads now, and
\* returned.
Receive(q) ==
  /\ pc[q] = "answered"
  /\ clock - sent[q] <= QueryTimeout
  /\ cache' = [version |-> answer[q], fetched |-> clock]
  /\ judged' = [judged EXCEPT ![q] = clock]
  /\ Return(q, answer[q])
  /\ UNCHANGED <<clock, params, inForce>>

\* The chain's answer never comes and no deadline ends the wait.
Hang(q) ==
  /\ pc[q] \in {"wait", "answered"}
  /\ q \notin hung
  /\ hung' = hung \cup {q}
  /\ UNCHANGED <<clock, params, cache, mu, callVars, inForce>>

-----------------------------------------------------------------------------
Init ==
  /\ clock = 0
  /\ params = 0
  /\ cache = Nil
  /\ mu = NoRequest
  /\ pc = [q \in Requests |-> "idle"]
  /\ sent = [q \in Requests |-> 0]
  /\ answer = [q \in Requests |-> 0]
  /\ got = [q \in Requests |-> -1]
  /\ judged = [q \in Requests |-> 0]
  /\ hung = {}
  /\ inForce = [v \in Versions |-> IF v = 0 THEN 0 ELSE Never]

Step(q) ==
  \/ Lock(q)
  \/ Check(q)
  \/ Ask(q)
  \/ Serve(q)
  \/ Fail(q)
  \/ Receive(q)

Next ==
  \/ (Govern \/ Tick) /\ UNCHANGED hung
  \/ \E q \in Requests :
       \/ q \notin hung /\ (Call(q) \/ Step(q)) /\ UNCHANGED hung
       \/ Hang(q)

Spec == Init /\ [][Next]_vars

\* The Go scheduler runs every goroutine, every exchange that does not hang
\* ends, and the mutex is handed to every waiter in the end.
Fairness ==
  \A q \in Requests :
    /\ WF_vars(q \notin hung /\ Step(q) /\ UNCHANGED hung)
    /\ SF_vars(Lock(q) /\ UNCHANGED hung)

FairSpec == Spec /\ Fairness

-----------------------------------------------------------------------------
TypeOK ==
  /\ clock \in Times
  /\ params \in Versions
  /\ cache \in Entries \cup {Nil}
  /\ mu \in Requests \cup {NoRequest}
  /\ pc \in [Requests -> Labels]
  /\ sent \in [Requests -> Times]
  /\ answer \in [Requests -> Versions]
  /\ got \in [Requests -> Versions \cup {-1}]
  /\ judged \in [Requests -> Times]
  /\ hung \subseteq Requests
  /\ inForce \in [Versions -> Times \cup {Never}]

\* The params a verification uses were in force less than TTL + QueryTimeout
\* seconds before their age was judged: paramsFetched is taken after the round
\* trip, so the TTL alone does not bound their age (service.go:130-143).
ParamsAreRecent ==
  \A q \in Requests :
    got[q] # -1 => judged[q] - inForce[got[q]] < TTL + QueryTimeout

\* Holding the mutex across the query pays: successive fills are at least TTL
\* seconds apart, however many calls miss at once (service.go:131-142).
FillsAreSpaced ==
  [][cache' # cache /\ cache # Nil => cache'.fetched - cache.fetched >= TTL]_vars

\* And the cache never goes back to older params, although answers are slow
\* and time passes while they travel (service.go:131-142).
NeverRegresses == [][cache'.version >= cache.version]_vars

\* Every call returns, however many queue behind a slow or failing query;
\* only an exchange that never ends stops them, because it keeps the mutex
\* (service.go:131-139).
EveryCallReturns ==
  \A q \in Requests : pc[q] # "idle" ~> pc[q] = "idle" \/ mu \in hung

\* The refinement mapping: one question, whose answers are the versions of the
\* params; a call settles on its answer and gives it in one step.
Staleness == INSTANCE BoundedStaleness WITH
  Clients   <- Requests,
  Questions <- {"params"},
  Answers   <- Versions,
  None      <- -2,
  Declined  <- -1,
  Lag       <- TTL + QueryTimeout,
  truth     <- [x \in {"params"} |-> params],
  lastTrue  <- [x \in {"params"} |-> inForce],
  open      <- [q \in Requests |-> pc[q] # "idle"],
  asked     <- [q \in Requests |-> "params"],
  settled   <- [q \in Requests |-> -2],
  given     <- [q \in Requests |-> IF pc[q] = "idle" THEN got[q] ELSE -2]

\* walletParams implements the same specification as the root-state cache: a
\* call ends with params in force less than TTL + QueryTimeout seconds before,
\* or with an error, however the calls queue on the mutex (service.go:130-143).
ImplementsBoundedStaleness == Staleness!Spec
=============================================================================
