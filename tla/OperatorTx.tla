----------------------------- MODULE OperatorTx -----------------------------
(***************************************************************************)
(* The transactions the agent signs with the operator key: execute and     *)
(* signAndBroadcastOwn (src/internal/delegated/service.go), for every tool *)
(* that ends in one of them.  A fee-paying transaction consumes the        *)
(* operator's account sequence; seqMu is held from the account query to    *)
(* the broadcast's answer, and released by defer on every path.  A         *)
(* gas-free one (a short-term order or cancel) takes the same steps        *)
(* without the mutex, and the chain ignores its sequence.                  *)
(*                                                                         *)
(* A delegated call, gas-free or not, and a delegated read come here       *)
(* through verifyProof, whose walletParams holds another mutex, paramsMu,  *)
(* across a Params query.  What the cache behind it answers is             *)
(* ParamsCache's matter and what the verification decides is Credential's; *)
(* here they are the steps that may keep a call waiting, or refuse it.     *)
(*                                                                         *)
(* The chain is modelled by how this code uses it: the account query       *)
(* answers from committed state, BROADCAST_MODE_SYNC from the node's check *)
(* state, which runs ahead by the accepted transactions of no block yet.   *)
(***************************************************************************)
EXTENDS Integers

CONSTANTS
  Callers,   \* the tool calls that may be in progress at once
  Kinds,     \* the kinds of transaction they make
  MaxSeq,    \* bound: the sequence number the operator's account stops at
  NoCaller   \* not a caller

\* The tools by what they sign: short-term order messages, stateful ones under
\* a delegation, the agent's own registry messages, and nothing at all for a
\* delegated read, which shares only the verification with the others.
GasFreeKinds == {"placeOrder", "cancelShortTerm", "batchCancel"}
StatefulKinds == {"cancelStateful", "deposit"}
OwnKinds == {"selfRegister", "selfUpdate"}
ReadKinds == {"read"}

ASSUME KindsAssumption ==
  Kinds \subseteq GasFreeKinds \cup StatefulKinds \cup OwnKinds \cup ReadKinds
ASSUME MaxSeqAssumption == MaxSeq \in Nat
ASSUME NoCallerAssumption == NoCaller \notin Callers

Seqs == 0 .. MaxSeq

VARIABLES
  seqMu,      \* who holds the sequence mutex, or NoCaller
  paramsMu,   \* who holds the mutex of the params cache, or NoCaller
  pc,         \* where each call stands
  kind,       \* the transaction each call makes, "none" between calls
  acct,       \* the sequence each call read from the account query
  outcome,    \* what the node's CheckTx said of each call's transaction
  result,     \* what each call returned
  committed,  \* the chain: the account's sequence in the last block
  check,      \* the chain: the sequence the node's check state expects
  late,       \* sequences of fee-paying transactions whose caller gave up
              \* on a broadcast that may still reach the node
  clean,      \* history: since the call read the sequence, nothing but the
              \* call itself could have moved it
  hung        \* the calls stuck for good in an exchange with the chain: over
              \* gRPC nothing but the caller's context ends one

mutexes   == <<seqMu, paramsMu>>
callVars  == <<pc, kind, acct, outcome, result, clean>>
chainVars == <<committed, check, late>>
vars == <<mutexes, callVars, chainVars, hung>>

Labels == {"idle", "prepare", "params", "ask", "verify", "lock", "account",
           "sign", "broadcast", "checking", "checked"}
Outcomes == {"none", "accepted", "badSequence", "refused"}
Results  == {"none", "ok", "code", "error"}

GasFreeFor(k) == k \in GasFreeKinds

\* Call c is a fee-paying one between its Lock and its Unlock.
Section == {"account", "sign", "broadcast", "checking", "checked"}
InSection(c) == pc[c] \in Section /\ ~GasFreeFor(kind[c])

-----------------------------------------------------------------------------
\* A delegated tool, a delegated read or one of the agent's own is called.
Call(c) ==
  /\ pc[c] = "idle"
  /\ \E k \in Kinds : kind' = [kind EXCEPT ![c] = k]
  /\ pc' = [pc EXCEPT ![c] = "prepare"]
  /\ result' = [result EXCEPT ![c] = "none"]
  /\ UNCHANGED <<mutexes, acct, outcome, clean, chainVars>>

\* The call returns; the deferred Unlocks run if it had locked.
Return(c, r) ==
  /\ result' = [result EXCEPT ![c] = r]
  /\ pc' = [pc EXCEPT ![c] = "idle"]
  /\ acct' = [acct EXCEPT ![c] = 0]
  /\ outcome' = [outcome EXCEPT ![c] = "none"]
  /\ clean' = [clean EXCEPT ![c] = FALSE]
  /\ seqMu' = IF InSection(c) THEN NoCaller ELSE seqMu
  /\ paramsMu' = IF pc[c] = "ask" THEN NoCaller ELSE paramsMu
  /\ kind' = [kind EXCEPT ![c] = "none"]

\* What a call does before it waits for a mutex: the decoding of the tokens
\* for a delegated call; requireOperator, the bond, the capability hash and
\* ValidateBasic for the agent's own.  It may refuse.
Prepare(c) ==
  /\ pc[c] = "prepare"
  /\ \/ /\ pc' = [pc EXCEPT ![c] = IF kind[c] \in OwnKinds THEN "lock" ELSE "params"]
        /\ UNCHANGED <<mutexes, kind, acct, outcome, result, clean>>
     \/ Return(c, "error")
  /\ UNCHANGED chainVars

\* walletParams locks.
LockParams(c) ==
  /\ pc[c] = "params"
  /\ paramsMu = NoCaller
  /\ paramsMu' = c
  /\ pc' = [pc EXCEPT ![c] = "ask"]
  /\ UNCHANGED <<seqMu, kind, acct, outcome, result, clean, chainVars>>

\* The params are cached or the Params query answers, or it fails; either way
\* walletParams unlocks.
AskParams(c) ==
  /\ pc[c] = "ask"
  /\ \/ /\ pc' = [pc EXCEPT ![c] = "verify"]
        /\ paramsMu' = NoCaller
        /\ UNCHANGED <<seqMu, kind, acct, outcome, result, clean>>
     \/ Return(c, "error")
  /\ UNCHANGED chainVars

\* Mutant of Verify: every transaction queues for the sequence mutex.
VerifyLocksAll(c) ==
  /\ pc[c] = "verify"
  /\ \/ /\ kind[c] \notin ReadKinds
        /\ pc' = [pc EXCEPT ![c] = "lock"]
        /\ UNCHANGED <<mutexes, kind, acct, outcome, result, clean>>
     \/ kind[c] \in ReadKinds /\ Return(c, "ok")
     \/ Return(c, "error")
  /\ UNCHANGED chainVars

\* The chain of credentials is verified, with a registry query for each hop,
\* and the grant checked.  A read has its root checked, and is served or
\* refused; a transaction is built and validated, or refused.
Verify(c) ==
  /\ pc[c] = "verify"
  /\ \/ /\ kind[c] \notin ReadKinds
        /\ pc' = [pc EXCEPT ![c] = IF GasFreeFor(kind[c]) THEN "account" ELSE "lock"]
        /\ UNCHANGED <<mutexes, kind, acct, outcome, result, clean>>
     \/ kind[c] \in ReadKinds /\ Return(c, "ok")
     \/ Return(c, "error")
  /\ UNCHANGED chainVars

\* Mutant of Lock: the mutex is not consulted.
LockNothing(c) ==
  /\ pc[c] = "lock"
  /\ pc' = [pc EXCEPT ![c] = "account"]
  /\ seqMu' = c
  /\ UNCHANGED <<paramsMu, kind, acct, outcome, result, clean, chainVars>>

Lock(c) ==
  /\ pc[c] = "lock"
  /\ seqMu = NoCaller
  /\ seqMu' = c
  /\ pc' = [pc EXCEPT ![c] = "account"]
  /\ UNCHANGED <<paramsMu, kind, acct, outcome, result, clean, chainVars>>

\* Mutant of Account: the sequence is taken to be the last one used.
AccountPlusOne(c) ==
  /\ pc[c] = "account"
  /\ \/ /\ acct' = [acct EXCEPT ![c] = committed + 1]
        /\ clean' = [clean EXCEPT ![c] = (check = committed /\ late = {})]
        /\ pc' = [pc EXCEPT ![c] = "sign"]
        /\ UNCHANGED <<mutexes, kind, outcome, result>>
     \/ Return(c, "error")
  /\ UNCHANGED chainVars

\* The account query answers from committed state, or fails.
Account(c) ==
  /\ pc[c] = "account"
  /\ \/ /\ acct' = [acct EXCEPT ![c] = committed]
        /\ clean' = [clean EXCEPT ![c] = (check = committed /\ late = {})]
        /\ pc' = [pc EXCEPT ![c] = "sign"]
        /\ UNCHANGED <<mutexes, kind, outcome, result>>
     \/ Return(c, "error")
  /\ UNCHANGED chainVars

\* SignTx packs, computes the fee and signs; any of it may fail.
SignTx(c) ==
  /\ pc[c] = "sign"
  /\ \/ /\ pc' = [pc EXCEPT ![c] = "broadcast"]
        /\ UNCHANGED <<mutexes, kind, acct, outcome, result, clean>>
     \/ Return(c, "error")
  /\ UNCHANGED chainVars

\* BroadcastSync puts the transaction on the wire.
Send(c) ==
  /\ pc[c] = "broadcast"
  /\ pc' = [pc EXCEPT ![c] = "checking"]
  /\ UNCHANGED <<mutexes, kind, acct, outcome, result, clean, chainVars>>

\* The node runs CheckTx: the sequence must be the next one, unless the
\* transaction is gas-free; any transaction may be refused otherwise.
CheckTx(c) ==
  /\ pc[c] = "checking"
  /\ pc' = [pc EXCEPT ![c] = "checked"]
  /\ \/ /\ GasFreeFor(kind[c]) \/ (acct[c] = check /\ check < MaxSeq)
        /\ outcome' = [outcome EXCEPT ![c] = "accepted"]
        /\ check' = IF GasFreeFor(kind[c]) THEN check ELSE check + 1
     \/ /\ ~GasFreeFor(kind[c])
        /\ acct[c] # check
        /\ outcome' = [outcome EXCEPT ![c] = "badSequence"]
        /\ UNCHANGED check
     \/ /\ GasFreeFor(kind[c]) \/ acct[c] = check
        /\ outcome' = [outcome EXCEPT ![c] = "refused"]
        /\ UNCHANGED check
  /\ UNCHANGED <<mutexes, kind, acct, result, clean, committed, late>>

\* The answer arrives: a nonzero code is a result, not an error.
Answer(c) ==
  /\ pc[c] = "checked"
  /\ Return(c, IF outcome[c] = "accepted" THEN "ok" ELSE "code")
  /\ UNCHANGED chainVars

\* Mutant of GiveUp: the error path leaves without unlocking.
GiveUpHoldingLock(c) ==
  /\ pc[c] \in {"checking", "checked"}
  /\ result' = [result EXCEPT ![c] = "error"]
  /\ pc' = [pc EXCEPT ![c] = "idle"]
  /\ acct' = [acct EXCEPT ![c] = 0]
  /\ outcome' = [outcome EXCEPT ![c] = "none"]
  /\ clean' = [clean EXCEPT ![c] = FALSE]
  /\ kind' = [kind EXCEPT ![c] = "none"]
  /\ UNCHANGED <<mutexes, chainVars>>

\* The broadcast errors or times out at the client.  A request the node has
\* not handled by then may be lost or may still arrive.
GiveUp(c) ==
  /\ pc[c] \in {"checking", "checked"}
  /\ Return(c, "error")
  /\ \/ UNCHANGED late
     \/ /\ pc[c] = "checking" /\ ~GasFreeFor(kind[c])
        /\ late' = late \cup {acct[c]}
  /\ UNCHANGED <<committed, check>>

\* The calls that wait for the chain: SelfRegister asks for the minimum bond
\* before it locks.
Exchanges == {"ask", "verify", "account", "checking", "checked"}
InExchange(c) ==
  pc[c] \in Exchanges \/ (pc[c] = "prepare" /\ kind[c] = "selfRegister")

\* The chain's answer never comes and no deadline ends the wait.
Hang(c) ==
  /\ InExchange(c)
  /\ c \notin hung
  /\ hung' = hung \cup {c}
  /\ UNCHANGED <<mutexes, callVars, chainVars>>

-----------------------------------------------------------------------------
\* An abandoned broadcast reaches the node after all.
LateArrival(s) ==
  /\ s \in late
  /\ late' = late \ {s}
  /\ check' = IF s = check /\ check < MaxSeq THEN check + 1 ELSE check
  /\ UNCHANGED <<mutexes, callVars, committed>>

\* A block takes accepted transactions, in sequence order.
Block(n) ==
  /\ n \in committed + 1 .. check
  /\ committed' = n
  /\ UNCHANGED <<mutexes, callVars, check, late>>

\* The sequence moves under everyone's feet.
Unclean == clean' = [c \in Callers |-> FALSE]

\* The node drops its mempool (a restart, an eviction) and checks from
\* committed state again.
Flush ==
  /\ committed < check
  /\ check' = committed
  /\ Unclean
  /\ UNCHANGED <<mutexes, pc, kind, acct, outcome, result, committed, late>>

\* The operator's key is used outside this process.
ForeignTx ==
  /\ check < MaxSeq
  /\ check' = check + 1
  /\ Unclean
  /\ UNCHANGED <<mutexes, pc, kind, acct, outcome, result, committed, late>>

-----------------------------------------------------------------------------
Init ==
  /\ seqMu = NoCaller
  /\ paramsMu = NoCaller
  /\ pc = [c \in Callers |-> "idle"]
  /\ kind = [c \in Callers |-> "none"]
  /\ acct = [c \in Callers |-> 0]
  /\ outcome = [c \in Callers |-> "none"]
  /\ result = [c \in Callers |-> "none"]
  /\ clean = [c \in Callers |-> FALSE]
  /\ committed = 0
  /\ check = 0
  /\ late = {}
  /\ hung = {}

\* The steps of a call in progress, its broadcast's included.
Step(c) ==
  \/ Prepare(c)
  \/ LockParams(c)
  \/ AskParams(c)
  \/ Verify(c)
  \/ Lock(c)
  \/ Account(c)
  \/ SignTx(c)
  \/ Send(c)
  \/ CheckTx(c)
  \/ Answer(c)
  \/ GiveUp(c)

\* What the chain does of itself, and what others do with the key.
Chain ==
  \/ \E s \in Seqs : LateArrival(s) \/ Block(s)
  \/ Flush
  \/ ForeignTx

\* A call that hangs takes no step of its own; the node may still check the
\* transaction it sent.
Calls ==
  \E c \in Callers :
    \/ c \notin hung /\ (Call(c) \/ Step(c))
    \/ CheckTx(c)

Next ==
  \/ Calls /\ UNCHANGED hung
  \/ Chain /\ UNCHANGED hung
  \/ \E c \in Callers : Hang(c)

Spec == Init /\ [][Next]_vars

\* The same calls on a chain nobody else touches: no foreign use of the key,
\* no lost mempool, no late arrival; blocks come whenever they come.
QuietNext == (Calls \/ \E n \in Seqs : Block(n)) /\ UNCHANGED hung

QuietSpec == Init /\ [][QuietNext]_vars

\* Every goroutine that does not hang runs on, and a mutex waiter is handed
\* the lock in the end (sync.Mutex hands over to a waiter that has starved
\* for a millisecond); a call waits at one of the two at a time.
Fairness ==
  \A c \in Callers :
    /\ WF_vars(c \notin hung /\ Step(c) /\ UNCHANGED hung)
    /\ SF_vars((LockParams(c) \/ Lock(c)) /\ UNCHANGED hung)

FairSpec == Spec /\ Fairness

-----------------------------------------------------------------------------
TypeOK ==
  /\ seqMu \in Callers \cup {NoCaller}
  /\ paramsMu \in Callers \cup {NoCaller}
  /\ pc \in [Callers -> Labels]
  /\ kind \in [Callers -> Kinds \cup {"none"}]
  /\ acct \in [Callers -> Seqs]
  /\ outcome \in [Callers -> Outcomes]
  /\ result \in [Callers -> Results]
  /\ clean \in [Callers -> BOOLEAN]
  /\ committed \in Seqs
  /\ check \in Seqs
  /\ late \subseteq Seqs
  /\ hung \subseteq Callers

\* The mutex is held by exactly the call that is between its account query
\* and its broadcast's answer, so at most one fee-paying call is there, and
\* no path out of it, error or not, leaves the mutex locked
\* (service.go:235-239, 533-534).
SeqMuDiscipline == \A c \in Callers : InSection(c) <=> seqMu = c

\* What the mutex achieves: a fee-paying transaction is refused for its
\* sequence only if, when the account was read, an accepted transaction was
\* still waiting for a block or an abandoned broadcast for the node, or if
\* the node dropped its mempool or the key was used elsewhere since.  Two
\* calls of this process never spoil each other's sequence otherwise
\* (service.go:234-251).
RefusalHasACause ==
  \A c \in Callers : outcome[c] = "badSequence" => ~clean[c]

\* What the comment says (service.go:236-237): serialized executes do not
\* race the sequence.  The mutex is released when CheckTx has answered, but
\* the next holder reads committed state, which the accepted transaction
\* reaches only with the next block.
ExecutesDoNotRaceSequence ==
  \A c \in Callers : outcome[c] # "badSequence"

\* The call is stuck in an exchange of its own, or waits in verifyProof behind
\* one stuck in the Params query, which holds paramsMu.
Stuck(c) == c \in hung \/ (pc[c] = "params" /\ paramsMu \in hung)

\* Every call returns, with a result or an error, however long the queues for
\* the two mutexes and whatever fails on the way.  Only an exchange that never
\* ends keeps a call: its own; another call's Params query, which keeps every
\* delegated call at paramsMu; or the exchange of the holder of seqMu, which
\* keeps the fee-paying ones (service.go:130-143, 235-260, 532-548).
EveryCallReturns ==
  \A c \in Callers :
    pc[c] # "idle" ~>
      pc[c] = "idle" \/ Stuck(c) \/ (pc[c] = "lock" /\ seqMu \in hung)

\* A short-term order or cancel never waits for the sequence mutex: it returns
\* even if a fee-paying call hangs with seqMu held (service.go:82-85), and
\* only its own exchanges and the holder of paramsMu can keep it.
ShortTermAvoidsSeqMu ==
  \A c \in Callers :
    pc[c] # "idle" /\ GasFreeFor(kind[c]) ~> pc[c] = "idle" \/ Stuck(c)
=============================================================================
