# Verification of svpchain-dex-agent

TLA+ models of the A2A agent for the SVP-Chain perpetuals DEX, the TLC runs
that check them on small instances, and TLAPS proofs of the most important
properties for every instance. `PROJECT.json` holds the machine-readable side:
which definition models which lines, the runs, the mutants that show that each
property can fail, the hazards, the findings and the theorems.

Check a run with `tlc -config X.cfg M` (the pairs are in `PROJECT.json`) and a
proof with `tlapm X_proofs.tla`.

## 1. The system

The agent is one Go process. It answers JSON requests over A2A (`/invoke`), each
on its own goroutine; it holds no caller keys, and in full mode one key of its
own, the operator's, with which it executes orders under SVP-DT delegation
credentials. Everything else it does is a query of the chain or the indexer, or
an unsigned transaction handed back to the caller.

| Component | State it keeps | Operations | Talks to |
|---|---|---|---|
| Executor, auth, delegation (`a2aserver`) | none; per call: bearer, tenant, args | `Execute`, `handle`, `Attach`, `injectProof` | tool registry, bearer and session stores, delegated service |
| Delegated service (`delegated/service.go`) | `seqMu`, params cache with `paramsMu`, epoch cache with `epochMu`, card hash | `execute`, `signAndBroadcastOwn`, `walletParams`, `verifyProof`, `AuthorizeRead`, `checkRootState` | chain (wallet, agent, auth queries, broadcast), operator signer |
| Read tenants (`delegated/read_tenants.go`) | bounded table of synthetic tenants with expiry | `Admit`, sweep, `LookupTenantPolicy` | policy engine of svpchain-mcp |
| Key resolver (`delegated/resolver.go`) | none | `PublicKeys` with fallback | registry and auth queries |
| Operator (`operator`) | the key | `Load`, `SignTx`, `GasFreeFor` | |
| Agent-chain service (`agentchain`) | none | queries, `Build*`, `BroadcastSignedTx` | policy engine, chain |
| REST client (`agentrest`) | an HTTP client with a 15 s timeout | one method per query, `BroadcastSync` | the agent chain's gateway |
| Tool registry (`toolbridge`) | the map of tools, fixed at boot | `Lookup`, adapters, refusing stubs | svpchain-mcp handlers |
| Market data (`marketdata`) | none | queries, `EstimateClearing` | indexer |
| Wiring (`wire`), configuration (`config`), `main`, `server.go` | background caches, connection, channels, contexts | `Load`, `Build`, `Run`, `Close`, `StartFull`, `serve` | everything |
| Agent card (`a2aserver/card.go`) | none | `BuildAgentCard` | registry |

What is hard here is concurrency and time: three mutexes with three different
disciplines (held across a chain query, held only around the map, held across
two exchanges with the chain), caches whose staleness is the only bound on a
security-relevant check, a sequence number that lives on the chain, expiries
that fall between the steps of one call, shutdown that five goroutines have to
agree on, and an identity that is put together from up to four sources.

What makes each part correct:

* **Root-state cache** — a paused or revoked root stops answering reads, and a
  resumed one is served again, within a known time.
* **Params cache** — verification uses recent ceilings, one fill per TTL, never
  older ones after newer ones; a failing query does not lock everybody out
  (one that hangs does: its caller holds `paramsMu` until its context ends).
* **Operator transactions** — at most one call between the account query and
  the broadcast's answer; a sequence refusal always has a cause outside it;
  short-term orders never wait for `seqMu`.
* **Read tenants** — bounded table, no eviction of live tenants, and a verified
  read turned away only because its token expired or the table was full of live
  ones.
* **Lifecycle** — every signal and every failure ends the process, the exit
  status tells the truth, nothing is accepted after the connection is closed.
* **Dispatch** — the credential a caller attached is the one the tool gets; a
  read stays inside the grant; a bearer outranks a credential; conversations do
  not leak tenants.
* **Clearing estimate** — the reported fill is the best one the book offers.
* **Credential verification** — an accepted chain was signed, hop by hop, with
  keys its issuers had during the call, and authority went only where each
  holder was allowed to hand it.
* **Delegated reads** — a read is served on a recent check of its own root, made
  in its own call.
* **Agent-chain service** — nobody lands a transaction for anybody else; a
  payload carries the id and the sequence of the chain it is meant for, and no
  other accepts it; a tenant withdrawn before a call gets nothing from it.
* **Boot** — a family the file asks for is wired or the file is refused, and no
  failing step leaves the connection open.

## 2. The modules

Every module keeps the control of the code (each lock, early return, error path
and the order of steps) and abstracts the data. A step is atomic exactly where
the code holds a lock or touches only its own locals.

| Module | Models | State and actions |
|---|---|---|
| `RootStateCache` | `checkRootState` (`reads.go:88-114`) | `cache` is `epochCache`; `Lookup` and `Store` are the two critical sections; `Ask`, `Serve`, `Receive`/`Fail` the query between them. The chain (`Pause`, `Resume`, `NewEpoch`, `Remove`) and the clock are external. `held`/`barred` record when the chain last honoured, or did not honour, each credential. |
| `ParamsCache` | `walletParams` (`service.go:130-143`) | `mu` is `paramsMu`, taken in `Lock` and released by every return; params are numbered by version; `Hang` marks an exchange that never ends. |
| `BoundedStaleness` | the promise of both caches | abstract: a question is answered with what the chain said less than `Lag` seconds before, or declined. |
| `OperatorTx` | `execute`, `signAndBroadcastOwn` (`service.go:215-260, 532-548`), `SignTx`, and the way there through `verifyProof` (`service.go:130-178`), which delegated reads share | `seqMu` and `paramsMu`; one step each for decoding, the lock and the query of `walletParams`, verification, lock, account query, signing, sending, `CheckTx` and the answer; any may fail, and any exchange may hang; the chain's sequence in `CheckTx` and committed state, late arrivals, lost mempools, foreign use of the key. |
| `ReadTenants` | `ReadTenantSource` and the policy lookup behind it | `Verify`, `Admit` (with its sweep), `LookupTenantPolicy` of concurrent handlers, and the clock. |
| `ReadPath` | `AuthorizeRead` from verification to lookup | the composition of `RootStateCache` and `ReadTenants` on one clock: a handler is at "check" exactly while its request is inside `checkRootState`. |
| `Credential` | `verifyProof`, `ctxResolver.PublicKeys`, `AccountPubKey`, `checkRedelegationTargets`, `preflight` | each hop is resolved by one or two queries, between which registrations and published keys change; a query may fail. `was` and `failed` record what was true of whom, and what failed, during the call. `svpdt.VerifyChain` is external. |
| `CallerTx` | `agentchain`: `authorize`, builders, queries, `assemble`, `BroadcastSignedTx` | the two policy lookups, parsing, the account query and the rails are separate steps; payloads stay in wallets, are signed with any key and handed in by anybody; two chains, or one, with their account sequences. |
| `Boot` | `config.Load`, `Validate`, `wire.Build`, `operator.Load` | the rules of each optional family over records of present, absent and malformed fields; `Build` as a list of steps, each skipped, done or failing with the connection closed. |
| `ServerLifecycle` | `main`, `StartServer`, `StartFull`, `serve`, `App.Run`, `App.Close` | extends `Boot`, whose steps main takes first; one program counter per goroutine, the channels `errc`, `cacheErr`, `serveErr` with their capacities, the contexts. |
| `ClearingEstimate` | `EstimateClearing`, `restingLevels` | the loop turn by turn over all bounded books; prices and sizes are integers in a common unit, which is exact because the code uses rationals. |
| `Dispatch` | `Execute`, `handle`, `Attach`, `delegationFromMessage`, `injectProof`, `AuthorizeRead`, `pinArgsToPrincipal` | one step per decision of a call; bearer store, session store and tools are external. Tools are classes by what their gate asks for; a chain is a model value that verifies or does not. |

`MCX.tla` adds symmetry and the definitions a `.cfg` needs; `ClearingEstimate`
needs none and is run directly. `X_proofs.tla` holds the theorems about `X`;
`ReadPath_proofs` also those about the two modules it composes, and
`ServerLifecycle_proofs` those about `Boot`.
Operators whose comment begins "Mutant of" are the plausible bugs that
`PROJECT.json` lists under `mutants`; nothing else uses them.

Where the models meet. `ReadPath` extends `RootStateCache` and instantiates
`ReadTenants` with its own requests as the handlers (`Table`), so both halves
take the actions their own modules define, and the runs and the proofs are about
the same definitions.
`ServerLifecycle` extends `Boot`. `Dispatch.AuthorizeRead` stands for the whole
of `ReadPath` and may refuse at any time; `ReadTenants.Verify` and
`OperatorTx.Verify` stand for `Credential`, `OperatorTx.AskParams` and
`Credential.Params` for `ParamsCache`, in the same way: what is yes or no in one
module is the result of the other, and the caller makes no assumption on when it
refuses. What one call does to another on the way is not abstracted: `OperatorTx`
has both mutexes, because the holder of either may hang.

**Refinement.** `ImplementsBoundedStaleness` in both caches is the abstract
specification under a refinement mapping. The root-state cache answers a
question per root and epoch with "ok" or "refused", and settles its answer when
it fetches or finds the entry, before it returns it; the params cache has one
question whose answers are the versions. `Lag` is TTL + QueryTimeout in both.
So the two caches keep the same promise although one queries with no lock held
and lets fills overtake each other and the other serializes them.

## 3. The runs

| Run | Shows | Bounds |
|---|---|---|
| `RootStateCache` | `VerdictIsRecent`: no verdict is TTL + QueryTimeout seconds behind the chain; the refinement | 2 requests, 1 root, 2 epochs, TTL 2, timeout 1, clock to 3 |
| `RootStateCacheTTL`* | the comments' bound (TTL alone) fails | as the first |
| `OperatorTx` | mutex discipline; sequence refusals have a cause; every call returns unless it, or the holder of the mutex it waits for, hangs; short-term orders are never kept by `seqMu` | 2 callers, 3 kinds of transaction and reads, sequence to 2 |
| `OperatorTxRace`* | serialized executes still race the sequence | 2 callers, no foreign use of the key |
| `ParamsCache` | params are recent, fills are spaced and never regress, every call returns unless the holder of the mutex hangs; the refinement | 3 requests, 2 versions, TTL 2, timeout 2, clock to 5 |
| `ReadPath` | a served read rests on its own recent root check; the table turns a verified read away only with a cause; cap, no eviction | 2 requests, 2 credentials of two epochs of one root, cap 1, TTL 1, timeout 1, clock to 2 |
| `Credential` | accepted chains are signed by their issuers' keys; authority is handed on as each token allows | 1 call, 2 issuers, 32 chains of up to three tokens, depth 2 |
| `CredentialRegistry`* | a failing registry query lets the account key of a registered issuer through, on a read | as `Credential` |
| `CallerTx` | own transactions only; payloads fit their chain and no other; withdrawn tenants get nothing | 1 call at a time, 2 tenants, 2 payloads, sequences to 1, one chain or two |
| `ServerLifecycle` | exit status, order of closing, connection closed at exit, configured families served, exit after signal and failure | 2 caches, both modes, 1508 configurations |
| `ClearingEstimate` | exact and best fill, average between touch and worst | up to 3 levels, prices 0–3, sizes 0–2, sizes wanted 0–5 |
| `Dispatch` | credential reaches the tool; reads stay in the grant; a live bearer decides; conversations are separate | 2 calls, 2 contexts, 2 bearers, 3 deployments, every request |

Runs marked * are expected to be violated: each states what a comment in the
repository says and finds that the code does something else (section 6).

Why the bounds are enough.

* Two requests are what a race of fills needs, and the root-state cache has no
  behaviour that depends on a third; `ParamsCache` has a holder of the mutex and
  two waiters. The clocks reach TTL + QueryTimeout, so entries expire and are
  refilled. Two calls give a holder and a waiter at either mutex, or a holder of
  `seqMu` and a short-term order that passes it; two sequences let one accepted
  transaction, or a cause from outside, follow another. The theorems about all
  three cover any number.
* In `ReadPath` the table of one is full, swept and full again, one credential
  expires on the way and the other never, and the root leaves the epoch of one
  for that of the other; the theorems cover any cap, any TTL and any number of
  requests and roots.
* `Credential` has direct chains signed with each of three keys and narrowed in
  action or subaccount, chains through a broker signed with each pair of keys
  and with or without leave to hand on, and chains with a missing link, the wrong
  audience or too many tokens. Calls share nothing with each other, so one is
  enough: the registry moves under it by itself (`MaxChanges`).
* In `CallerTx`, too, one call suffices: calls share only the payloads in
  wallets and the chains' accounts, and both outlive a call or move by
  themselves (`Elsewhere`, `Forget`, `Withdraw`). One builder, one query, both
  rails and one malformed field stand for the others, whose table
  (`BuildNeeds`, `QueryNeeds`) only changes which field is missed.
* The configurations are the full one and the smallest, each with any two fields
  set to any value: every clause of `Validate` that refuses a file, and every
  family that half of its fields ask for, is at most two fields away from one of
  them.
* `Dispatch` lets every request run alone, with bearers and sessions expiring
  between its steps, and the requests of `Crowd` run two at a time: those that
  mint, bind or look up a bearer, which is all that two calls share. Proofs hold
  for `Crowd = Requests` too.
* Three levels allow an unsorted book with a tie and an invalid level.

The bounds `MaxTime`, `MaxEpoch`, `MaxVersion`, `MaxSeq`, `MaxPayloads`,
`MaxChanges`, `MaxLevels` and `Crowd` only cut behaviour off; no proof fixes
their value. Symmetry is used only for interchangeable goroutines, bearers and
contexts, and only in runs without liveness properties.

`OperatorTx` and `ParamsCache` turn the deadlock check off: an exchange over the
default gRPC connection may hang for good (below), and when all calls hang the
system really stops. What must go on nevertheless is what their liveness
properties say.

## 4. Fairness

* Goroutines are run by the Go scheduler: weak fairness of a call's steps.
* A query of the chain ends with the REST client by its 15 s timeout
  (`agentrest/client.go:54`), over the default gRPC connection only with the
  caller's context. So fairness is assumed only of calls that do not hang
  (`hung`), and any call may hang in any exchange. `EveryCallReturns` then says
  that a call returns unless it, or the holder of the mutex it waits for, hangs.
  In `OperatorTx` that is a wide exception: a call whose Params query hangs holds
  `paramsMu` and keeps every delegated call, short-term orders and reads
  included, in `verifyProof` (`service.go:131-136, 162`), and one whose account
  query or broadcast hangs keeps the fee-paying calls behind `seqMu`. Only the
  agent's own registry transactions pass the first, and only gas-free ones and
  reads the second; `ShortTermAvoidsSeqMu` states the latter for short-term
  orders. Nothing is assumed of the chain: `Fail` alone may end a call.
* The staleness bound TTL + QueryTimeout is meant for deployments that bound an
  exchange one way or the other: an answer older than QueryTimeout is not used.
* `sync.Mutex` hands the lock to a waiter that has starved for a millisecond:
  strong fairness of `Lock` and `LockParams`, of which a call waits for one.
* `ServerLifecycle` assumes that the steps of `Build` and `net.Listen` return
  and that `srv.Serve` returns after `Close`; not that a cache honours its
  context, nor any signal.

## 5. The proofs

All theorems hold for every value of the constants that satisfies the named
assumptions next to them: any number of goroutines, any TTL, timeout, cap, book,
chain of tokens or configuration. Every invariant a run checks, and every action
property, is also a theorem, and so are both refinements. Each rests on an
inductive invariant, because none of them is inductive as it stands.

* `ReadPath_proofs` has three parts.
  *The root-state cache*: `BlindnessBounded` (`VerdictIsRecent`), `TypeCorrect`
  and `Refinement`. `VerdictIsRecent` says nothing of a cached entry. The
  invariant follows the evidence from the chain to the verdict: a served answer
  spoke for the chain no earlier than the query left (`AnswerSound`), hence an
  entry no earlier than a timeout before its stamp (`CacheSound`, `EntrySound`),
  and it was younger than the TTL when judged. With it, every step maps to a
  step of `BoundedStaleness` or to a stutter: a call settles when it finds or
  receives its entry, and no other call's store changes what it settled on.
  *The table*: `CapHolds`, `RefusalsExplained`, `NoEviction`. The strengthening
  is that an admitted credential is still in the table at the lookup unless it
  expired.
  *The two together*: `ServedIsAuthorised`. Each half keeps its own invariant
  under the steps of the composition, which are steps of the half or leave it
  alone; `Joined` ties a handler's place to its request's verdict, so that what
  the table serves was let through by the cache in this call and not in an
  earlier one.
* `ParamsCache_proofs` — `ParamsBounded` (`ParamsAreRecent`), `OneFillPerTTL`
  (`FillsAreSpaced`), `NoRegress` (`NeverRegresses`), `Refinement`,
  `TypeCorrect`. Everything turns on the mutex (`MutexHeld`): only its holder has
  a query out, so an entry found too old stays too old until it is filled
  (`OldUntilFilled`) and an answer is never older than what it replaces
  (`AnswerSound`). Neither holds of the root-state cache, which takes no lock
  across its query; the two satisfy one abstract specification for different
  reasons.
* `OperatorTx_proofs` — `SectionsExclude` (`SeqMuDiscipline`),
  `SequenceRefusalsExplained` (`RefusalHasACause`), `TypeCorrect`. The
  strengthening is `CleanIsNext`: a call that read the sequence while nothing
  was pending, and has not been checked, still holds the sequence the node
  expects. It is preserved because nobody else is in the section.
* `CallerTx_proofs` — `NobodyTransactsForOthers` (`OwnTransactionsOnly`),
  `PayloadsFit`, `WithdrawnMeansNothing`, `TypeCorrect`. Payloads outlive the
  call that built them, so the invariant is about every payload in a wallet: it
  names its builder's owner and the agent chain, and a sequence that the account
  has not gone back from (`Sound`). A call at the rail carries one such
  transaction, pinned to its signer. A chain compares the sequence before it
  verifies the signature, so on the DEX rail of a split deployment either may
  turn a payload away; `PayloadsFit` says of that rail only that it accepts
  none, and explains the refusals on the chain the payload was built for. And a
  call past `CheckTenant` began while its tenant was live, since withdrawal is
  for good (`Standing`).
* `Credential_proofs` — `EveryHopIsSigned` (`HopsSignedByTheirIssuers`),
  `AuthorityNeverGrows` (`AuthorityIsHandedOn`), `TypeCorrect`, for chains of any
  length. The loop invariant is that the hops behind the current one are
  resolved, the history of the call includes the registry's present
  (`Informed`), and the second query is made only for one of its two reasons
  (`ReasonToAsk`); without the last the account key would be unexplained.
* `ServerLifecycle_proofs` — `ExitStatus`, `CloseComesLast`,
  `NoConnectionLeaks`, `NothingSilentlyLeftOut`, `TypeCorrect`. An error travels
  through up to three channels and two goroutines before it is the exit status;
  the invariant says of each place it may be in that it is deserved
  (`StatusSound`). `BuildSound` relates the families wired to the step `Build`
  has reached, `ConnSound` and `ServerSound` where the connection and the server
  can be at each place of main.
* `ClearingEstimate_proofs` — `AverageBounded`, `FillExact`, `FillBest`. The loop
  invariant keeps the levels sorted, the sizes accounted for and the cost between
  the filled size at the touch and at the last level consumed; `HasFill` adds
  that the running numbers are those of a fill of the book which uses up what
  lies behind the walk and nothing ahead of it. That the walk is optimal follows
  by exchange: against the worst price consumed, the fill gains on any other at
  every single level (`GreedyFill`, `GreedyStep`), hence in total
  (`TotalCompare`). What the proof needs of sums over a set is proved from the
  fold itself: well-founded induction over the subsets of a finite set
  (`SubsetInduction`, with a set in the place of a predicate, which the library's
  induction theorems would take as an operator).
* `Dispatch_proofs` — `CredentialNotDropped`, `GrantRespected`,
  `BearerDecides`, `ConversationsSeparate`. The invariant has a credential side
  and a bearer side for each call (what each step has established), and one
  conjunct on the stores: the bearer bound to a conversation was minted in it.

The proofs rely on nothing but the named `ASSUME`s at the head of each module:
bounds and times are naturals, a TTL and a cap are positive, prices and sizes are
integers, the values that stand for absence (`NoCaller`, `NoSub`, `None`, ...) lie
outside the sets they are absent from, the fixed relations are functions of the
right type (`OwnerOf`, `RootOf`, `Expires`, `Principal`), and the sets of inputs
are not empty where the code takes one.

Only model-checked: liveness, since fairness and ENABLED are out of the prover's
reach (`EveryCallReturns` in `OperatorTx` and `ParamsCache`,
`ShortTermAvoidsSeqMu`, `SignalStopsAgent`, `FailureStopsAgent`). The three
expected violations are counterexamples and need no proof.

## 6. Findings

Three comments promise more than the code does.

1. *"The TTL is the bound"* (`service.go:96-99`): entries are stamped after the
   round trip (`reads.go:99`), so a slow answer adds its delay. The bound that
   holds, and is proved, is TTL + QueryTimeout.
2. *"serialize so concurrent executes don't race it"* (`service.go:236-237`):
   the account query answers from committed state, so the next holder of the
   mutex reuses the sequence until a block comes; the chain refuses it.
   `RefusalHasACause` says what the mutex does achieve.
3. *"the registered PublicKey is the single acceptable key, and the registry
   always wins"* (`resolver.go:34-35`): the code falls back to the account key
   whenever the registry query yields no record, so also when it fails
   (`resolver.go:69`). The chain's `Authorize` verifies executions again, as the
   comment says, but delegated reads never reach it (`reads.go:54-55`).
   `HopsSignedByTheirIssuers` says what does hold: the key is one of the issuer's
   own, and the account key only with a cause.

Remarks, without a run of their own:

* The params cache stamps its entry after the round trip too (`service.go:141`),
  so its comment (`service.go:89-90`, "missed for more than a minute") is out by
  the duration of a query in the same way as 1.
* Of two concurrent fills of the root-state cache the one the chain served first
  may be stored last (`reads.go:101`), so a fresh answer can be replaced by an
  older one. The staleness bound holds all the same, which is what
  `ImplementsBoundedStaleness` shows.
* `agentchain/txbuild.go:17-22` and `agentchain/service.go:5-8` speak of landing
  payloads with broadcast_signed_tx; with an agent chain of its own that rail
  leads to the DEX chain, which never accepts them (`PayloadFitsItsChain`): their
  sequence is that of another account, and if it agrees by chance their signature
  is over another chain id. broadcast_agent_chain_tx is the one to use, as the
  repository's README says.
* One Params query that hangs on the gRPC connection blocks every delegated call
  and every delegated read until the context of its own caller ends
  (`service.go:131-136`). The comment on `seqMu` that short-term orders "don't
  contend" (`service.go:82-84`) is about that mutex and true of it
  (`ShortTermAvoidsSeqMu`); they do contend for `paramsMu`.
* A step of `Build` that fails because a signal cancelled its context ends the
  process with status 1 like any other failing step (`main.go:57-60`);
  `ExitStatusIsTrue` counts it as a failure of that step.
* `requireOperator` (`service.go:514-529`) looks the tenant up without
  consulting the kill switch; a blank key file starts the agent keyless without
  an error (`operator/key.go:38`); `Identity` reports a failed query as "not
  registered" (`service.go:497`).

## 7. Plan

Done: the modules above: the caches and the operator's transactions first,
because their properties cannot be tested, then dispatch and lifecycle, then
credentials, caller-signed transactions, boot, the abstract specification and
the composition of the read path.

Proved: every invariant and action property of the runs, and both refinements.

Next: state as lemmas what the modules assume of each other where one step
stands for another module (`Dispatch.AuthorizeRead` for `ReadPath`,
`OperatorTx.Verify` for `Credential`); the safety part of the liveness
properties (a bound on the steps a shutdown can take, that a call waiting for a
mutex has a holder to wait for); and an abstract specification of the operator's
section that `OperatorTx` implements, as `BoundedStaleness` is for the caches.

## 8. Not modelled

* The agent card and `Identity`: stateless descriptions. `Cancel` only announces
  a status. The deployment scripts hold no program logic.
* The wording of errors, decimal rendering of estimates, JSON and protobuf
  decoding (an input decodes or does not), page limits of queries.
* The EVM clients `Build` opens are not tracked: nothing in the program closes
  them, and the process ends when `Build` fails.
* How a query handler spells and decodes its arguments: `ReadsStayInsideTheGrant`
  covers owners and subaccounts that are given or left to the handler's default,
  under the keys that `pinArgsToPrincipal` looks at.
* HTTP handlers still in flight when `srv.Close` has returned.
* Collisions of the eight-byte tenant ids of read tenants.
* What belongs to other repositories: the svpchain-mcp tool handlers, the policy
  engine, `svpdt` signature checking, the chain itself; all are represented by
  how this code uses them.
