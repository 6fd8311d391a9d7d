--------------------------- MODULE RootStateCache ---------------------------
(***************************************************************************)
(* checkRootState (src/internal/delegated/reads.go) and the per-root cache *)
(* of epoch/paused state it keeps.  Reads never reach the chain, so this   *)
(* check is the only thing that stops a paused or revoked root from being  *)
(* read.  Concurrent calls share the cache; epochMu is held only around    *)
(* the map accesses, never across the chain query, so each critical        *)
(* section is one action and the query is several.                         *)
(*                                                                         *)
(* Time is the agent's clock in whole seconds (time.Now().Unix()).         *)
(***************************************************************************)
EXTENDS Integers

CONSTANTS
  Requests,      \* the goroutines that may be inside checkRootState at once
  Roots,         \* root delegation ids
  MaxEpoch,      \* bound: the chain's epochs are 0 .. MaxEpoch
  TTL,           \* epochCacheTTL
  QueryTimeout,  \* the limit on one exchange with the chain: the REST client's
                 \* 15 s; over gRPC whatever the caller's context sets
  MaxTime        \* bound: the clock stops here

ASSUME RootsAssumption == Roots # {}
ASSUME MaxEpochAssumption == MaxEpoch \in Nat
ASSUME TTLAssumption == TTL \in Nat \ {0}
ASSUME QueryTimeoutAssumption == QueryTimeout \in Nat
ASSUME MaxTimeAssumption == MaxTime \in Nat

Epochs == 0 .. MaxEpoch
Times  == 0 .. MaxTime

\* What identifies a verified credential here: its root and the epoch it was
\* minted for (svpdt.Verified.Root, RootEpoch).
Credentials == [root : Roots, epoch : Epochs]

\* The wallet module's state of one root; a root that is not live makes the
\* Epoch query fail (an unknown or removed delegation).
RootStates == [epoch : Epochs, paused : BOOLEAN, live : BOOLEAN]

\* epochEntry
Entries == [epoch : Epochs, paused : BOOLEAN, fetched : Times]

NoEntry  == [epoch |-> 0, paused |-> TRUE, fetched |-> -1]
NoAnswer == [epoch |-> 0, paused |-> FALSE, live |-> FALSE]

\* An instant so long past that no bound of this module reaches it.
Never == -(TTL + QueryTimeout)

VARIABLES
  clock,    \* what s.now() returns
  chain,    \* [Roots -> RootStates]: the wallet module's state
  cache,    \* [Roots -> Entries \cup {NoEntry}]: s.epochCache
  pc,       \* where each request stands in checkRootState
  cred,     \* the credential each request carries
  entry,    \* the local variable entry of each request
  sent,     \* when each request's chain query left
  answer,   \* the state the chain returned to each request
  judged,   \* when each request's last s.now() was taken
  verdict,  \* what the request's last call of checkRootState returned
  held,     \* history: when the chain last honoured a credential of each
            \* root and epoch, and
  barred    \* when it last did not

callVars  == <<pc, cred, entry, sent, answer, judged, verdict>>
history == <<held, barred>>
vars == <<clock, chain, cache, callVars, history>>

Labels   == {"idle", "lookup", "ask", "wait", "answered", "store", "decide"}
Verdicts == {"none", "ok", "refused", "unavailable"}

-----------------------------------------------------------------------------
\* The chain.  Which credentials of root r it would let through.
Honours(state, e) == state.live /\ ~state.paused /\ state.epoch = e

\* The history, when the clock reads t and the chain's state is c.
Record(c, t) ==
  /\ held' = [r \in Roots |-> [e \in Epochs |->
                IF Honours(c[r], e) THEN t ELSE held[r][e]]]
  /\ barred' = [r \in Roots |-> [e \in Epochs |->
                IF Honours(c[r], e) THEN barred[r][e] ELSE t]]

\* A transaction on the wallet module changes the state of root r.
SetRoot(r, state) ==
  /\ chain' = [chain EXCEPT ![r] = state]
  /\ Record(chain', clock)
  /\ UNCHANGED <<clock, cache, callVars>>

Pause(r)    == chain[r].live /\ ~chain[r].paused
               /\ SetRoot(r, [chain[r] EXCEPT !.paused = TRUE])
Resume(r)   == chain[r].live /\ chain[r].paused
               /\ SetRoot(r, [chain[r] EXCEPT !.paused = FALSE])
NewEpoch(r) == chain[r].live /\ chain[r].epoch < MaxEpoch
               /\ SetRoot(r, [chain[r] EXCEPT !.epoch = @ + 1])
Remove(r)   == chain[r].live /\ SetRoot(r, [chain[r] EXCEPT !.live = FALSE])

Tick ==
  /\ clock < MaxTime
  /\ clock' = clock + 1
  /\ Record(chain, clock')
  /\ UNCHANGED <<chain, cache, callVars>>

-----------------------------------------------------------------------------
\* checkRootState is called for a verified credential.
Call(q) ==
  /\ pc[q] = "idle"
  /\ \E c \in Credentials : cred' = [cred EXCEPT ![q] = c]
  /\ pc' = [pc EXCEPT ![q] = "lookup"]
  /\ verdict' = [verdict EXCEPT ![q] = "none"]
  /\ judged' = [judged EXCEPT ![q] = 0]
  /\ UNCHANGED <<clock, chain, cache, entry, sent, answer, history>>

\* Mutant of Fresh: the TTL comparison is off by one.
FreshOffByOne(en, t) == en # NoEntry /\ t - en.fetched <= TTL

\* A cached entry may still be used at time t.
Fresh(en, t) == en # NoEntry /\ t - en.fetched < TTL

\* The first critical section: read the entry and judge its age.
Lookup(q) ==
  LET en == cache[cred[q].root] IN
  /\ pc[q] = "lookup"
  /\ IF Fresh(en, clock)
       THEN /\ entry' = [entry EXCEPT ![q] = en]
            /\ judged' = [judged EXCEPT ![q] = clock]
            /\ pc' = [pc EXCEPT ![q] = "decide"]
       ELSE /\ pc' = [pc EXCEPT ![q] = "ask"]
            /\ UNCHANGED <<entry, judged>>
  /\ UNCHANGED <<clock, chain, cache, cred, sent, answer, verdict, history>>

\* The Epoch query leaves, with no lock held.
Ask(q) ==
  /\ pc[q] = "ask"
  /\ sent' = [sent EXCEPT ![q] = clock]
  /\ pc' = [pc EXCEPT ![q] = "wait"]
  /\ UNCHANGED <<clock, chain, cache, cred, entry, answer, judged, verdict, history>>

\* The chain serves the query from its state at this instant.
Serve(q) ==
  /\ pc[q] = "wait"
  /\ answer' = [answer EXCEPT ![q] = chain[cred[q].root]]
  /\ pc' = [pc EXCEPT ![q] = "answered"]
  /\ UNCHANGED <<clock, chain, cache, cred, entry, sent, judged, verdict, history>>

\* The exchange with the chain is over; its locals go out of scope.
EndQuery(q) ==
  /\ sent' = [sent EXCEPT ![q] = 0]
  /\ answer' = [answer EXCEPT ![q] = NoAnswer]

\* The query fails: the transport does, the client gives up waiting, or the
\* chain knows no such root.  The cache is left alone.
Fail(q) ==
  /\ pc[q] \in {"wait", "answered"}
  /\ verdict' = [verdict EXCEPT ![q] = "unavailable"]
  /\ pc' = [pc EXCEPT ![q] = "idle"]
  /\ EndQuery(q)
  /\ UNCHANGED <<clock, chain, cache, cred, entry, judged, history>>

\* Mutant of Receive: the entry is stamped with its expiry.
ReceiveStampsExpiry(q) ==
  /\ pc[q] = "answered"
  /\ answer[q].live
  /\ clock - sent[q] <= QueryTimeout
  /\ entry' = [entry EXCEPT ![q] = [epoch   |-> answer[q].epoch,
                                    paused  |-> answer[q].paused,
                                    fetched |-> clock + TTL]]
  /\ judged' = [judged EXCEPT ![q] = clock]
  /\ pc' = [pc EXCEPT ![q] = "store"]
  /\ EndQuery(q)
  /\ UNCHANGED <<clock, chain, cache, cred, verdict, history>>

\* The response arrives in time; the entry is stamped with the clock as it
\* reads now, after the round trip.
Receive(q) ==
  /\ pc[q] = "answered"
  /\ answer[q].live
  /\ clock - sent[q] <= QueryTimeout
  /\ entry' = [entry EXCEPT ![q] = [epoch   |-> answer[q].epoch,
                                    paused  |-> answer[q].paused,
                                    fetched |-> clock]]
  /\ judged' = [judged EXCEPT ![q] = clock]
  /\ pc' = [pc EXCEPT ![q] = "store"]
  /\ EndQuery(q)
  /\ UNCHANGED <<clock, chain, cache, cred, verdict, history>>

\* The second critical section: the entry replaces whatever is there.
Store(q) ==
  /\ pc[q] = "store"
  /\ cache' = [cache EXCEPT ![cred[q].root] = entry[q]]
  /\ pc' = [pc EXCEPT ![q] = "decide"]
  /\ UNCHANGED <<clock, chain, cred, entry, sent, answer, judged, verdict, history>>

\* What checkRootState makes of an entry for a credential of epoch e.
Accepts(en, e) == ~en.paused /\ en.epoch = e

Decide(q) ==
  /\ pc[q] = "decide"
  /\ verdict' = [verdict EXCEPT ![q] =
                   IF Accepts(entry[q], cred[q].epoch) THEN "ok" ELSE "refused"]
  /\ entry' = [entry EXCEPT ![q] = NoEntry]
  /\ pc' = [pc EXCEPT ![q] = "idle"]
  /\ UNCHANGED <<clock, chain, cache, cred, sent, answer, judged, history>>

-----------------------------------------------------------------------------
Init ==
  /\ clock = 0
  /\ chain \in [Roots -> {s \in RootStates : s.epoch = 0}]
  /\ cache = [r \in Roots |-> NoEntry]
  /\ pc = [q \in Requests |-> "idle"]
  /\ cred = [q \in Requests |-> [root |-> CHOOSE r \in Roots : TRUE, epoch |-> 0]]
  /\ entry = [q \in Requests |-> NoEntry]
  /\ sent = [q \in Requests |-> 0]
  /\ answer = [q \in Requests |-> NoAnswer]
  /\ judged = [q \in Requests |-> 0]
  /\ verdict = [q \in Requests |-> "none"]
  /\ held = [r \in Roots |-> [e \in Epochs |->
              IF Honours(chain[r], e) THEN 0 ELSE Never]]
  /\ barred = [r \in Roots |-> [e \in Epochs |->
              IF Honours(chain[r], e) THEN Never ELSE 0]]

\* The steps of a request that is inside checkRootState.
Step(q) ==
  \/ Lookup(q)
  \/ Ask(q)
  \/ Serve(q)
  \/ Fail(q)
  \/ Receive(q)
  \/ Store(q)
  \/ Decide(q)

Environment ==
  \/ Tick
  \/ \E r \in Roots : Pause(r) \/ Resume(r) \/ NewEpoch(r) \/ Remove(r)

Next ==
  \/ Environment
  \/ \E q \in Requests : Call(q) \/ Step(q)

Spec == Init /\ [][Next]_vars

-----------------------------------------------------------------------------
TypeOK ==
  /\ clock \in Times
  /\ chain \in [Roots -> RootStates]
  /\ cache \in [Roots -> Entries \cup {NoEntry}]
  /\ pc \in [Requests -> Labels]
  /\ cred \in [Requests -> Credentials]
  /\ entry \in [Requests -> Entries \cup {NoEntry}]
  /\ sent \in [Requests -> Times]
  /\ answer \in [Requests -> RootStates]
  /\ judged \in [Requests -> Times]
  /\ verdict \in [Requests -> Verdicts]
  /\ held \in [Roots -> [Epochs -> Times \cup {Never}]]
  /\ barred \in [Roots -> [Epochs -> Times \cup {Never}]]

\* A verdict given on the root's state, either way, is one the chain itself
\* would have given less than TTL + QueryTimeout seconds before the entry's
\* age was judged: a paused or revoked root stops answering reads within that
\* bound, and a resumed one or a new epoch is served again within it,
\* whatever the interleaving of concurrent fills (reads.go:88-114).
VerdictIsRecent ==
  \A q \in Requests :
    LET c == cred[q] IN
    /\ verdict[q] = "ok" =>
         judged[q] - held[c.root][c.epoch] < TTL + QueryTimeout
    /\ verdict[q] = "refused" =>
         judged[q] - barred[c.root][c.epoch] < TTL + QueryTimeout

\* What the comments say (service.go:96-99, reads.go:85-87): a paused or
\* revoked root keeps answering reads for less than TTL seconds.  The code
\* stamps an entry when the response arrives, not when the query left, so a
\* slow answer adds its own delay.
TTLIsTheBound ==
  \A q \in Requests :
    verdict[q] = "ok" => judged[q] - held[cred[q].root][cred[q].epoch] < TTL

\* The refinement mapping: a credential is a question to the chain, the verdict
\* its answer, settled once the entry to decide on is in hand.
Judgement(en, e) == IF Accepts(en, e) THEN "ok" ELSE "refused"

Staleness == INSTANCE BoundedStaleness WITH
  Clients   <- Requests,
  Questions <- Credentials,
  Answers   <- {"ok", "refused"},
  None      <- "none",
  Declined  <- "unavailable",
  Lag       <- TTL + QueryTimeout,
  truth     <- [c \in Credentials |->
                  IF Honours(chain[c.root], c.epoch) THEN "ok" ELSE "refused"],
  lastTrue  <- [c \in Credentials |-> [a \in {"ok", "refused"} |->
                  IF a = "ok" THEN held[c.root][c.epoch] ELSE barred[c.root][c.epoch]]],
  open      <- [q \in Requests |-> pc[q] # "idle"],
  asked     <- cred,
  settled   <- [q \in Requests |->
                  IF pc[q] \in {"store", "decide"}
                    THEN Judgement(entry[q], cred[q].epoch) ELSE "none"],
  given     <- verdict

\* checkRootState implements bounded staleness: each call is answered once,
\* with a verdict the chain gave less than TTL + QueryTimeout seconds before
\* the call settled on it, and a call that has settled is neither changed by
\* what other calls store meanwhile nor turned into an error
\* (reads.go:88-114).
ImplementsBoundedStaleness == Staleness!Spec
=============================================================================
