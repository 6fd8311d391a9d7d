------------------------------ MODULE CallerTx ------------------------------
(***************************************************************************)
(* The agent-chain tools (src/internal/agentchain): queries, the builders  *)
(* of registry and delegation transactions, and the rail that lands what   *)
(* the caller has signed.  The agent's own key has no part in it: a        *)
(* builder names the tenant's owner and stamps the payload with the agent  *)
(* chain's id and the owner's sequence there; the caller's wallet signs it *)
(* with some key; any tenant may hand it to either rail, at any later      *)
(* time.  Meanwhile tenants expire or are switched off, and the accounts   *)
(* move on both chains.                                                    *)
(*                                                                         *)
(* A message is its owner.  The policy engine, the chains, the wallets and *)
(* broadcast_signed_tx are external; a chain is the account sequences its  *)
(* CheckTx and its committed state hold.                                   *)
(***************************************************************************)
EXTENDS Integers, FiniteSets

CONSTANTS
  Calls,       \* the tool calls that may be in progress at once
  Tenants,     \* authenticated tenants
  Owners,      \* account addresses
  OwnerOf,     \* [Tenants -> Owners]
  Tools,       \* the tools that are called
  Faults,      \* the sets of malformed fields an input may have
  MaxSeq,      \* bound: sequences end here
  MaxPayloads  \* bound: unsigned payloads kept by wallets

\* The fields of the inputs that the service parses itself.
Fields == {"operator", "public_key_b64", "capability_hash_hex", "pricing",
           "coin", "limits", "root_id", "token_hash"}

\* The fields each builder parses after authorize.
BuildNeeds ==
  [build_register_agent    |-> {"operator", "public_key_b64", "capability_hash_hex",
                                "pricing", "coin"},
   build_update_agent      |-> {"capability_hash_hex", "pricing"},
   build_deposit_bond      |-> {"coin"},
   build_withdraw_bond     |-> {"coin"},
   build_deregister_agent  |-> {},
   build_create_delegation |-> {"limits"},
   build_update_delegation |-> {"root_id", "limits"},
   build_pause_delegation  |-> {"root_id"},
   build_resume_delegation |-> {"root_id"},
   build_revoke_delegation |-> {"root_id"},
   build_revoke_token      |-> {"root_id", "token_hash"}]

\* The fields each query parses after authorize.
QueryNeeds ==
  [get_agent                    |-> {},
   get_agent_by_operator        |-> {},
   list_agents                  |-> {},
   get_agents_by_owner          |-> {},
   get_agents_by_capability     |-> {},
   get_agent_params             |-> {},
   get_delegation               |-> {"root_id"},
   get_delegations_by_delegator |-> {},
   get_delegation_epoch         |-> {"root_id"},
   get_delegation_spend         |-> {"root_id"},
   get_agentwallet_params       |-> {}]

Builders == DOMAIN BuildNeeds
Queries  == DOMAIN QueryNeeds
Rails    == {"broadcast_agent_chain_tx", "broadcast_signed_tx"}

ASSUME OwnerOfAssumption == OwnerOf \in [Tenants -> Owners]
ASSUME ToolsAssumption == Tools \subseteq Builders \cup Queries \cup Rails
ASSUME FaultsAssumption == Faults \subseteq SUBSET Fields
ASSUME BoundsAssumption == MaxSeq \in Nat /\ MaxPayloads \in Nat
ASSUME SomeAssumption == Tenants # {} /\ Tools # {}

Chains == {"agent", "dex"}

\* An unsigned payload; read is history, the owner's sequence on the agent
\* chain when it was built.
Payloads == [builder : Tenants, owner : Owners, chain : Chains,
             sequence : 0 .. MaxSeq, read : 0 .. MaxSeq]

VARIABLES
  split,     \* [agent_chain] is configured
  standing,  \* each tenant's record: "live", "killed" (KillSwitch) or "gone"
  check,     \* [Chains -> [Owners -> Nat]]: sequences CheckTx expects next
  committed, \* the same in committed state, which queries see
  payloads,  \* the unsigned payloads wallets keep
  pc,        \* where each call stands
  call,      \* its tenant, its tool and its input
  out        \* what it ended with

chainVars == <<check, committed>>
callVars == <<pc, call, out>>
vars == <<split, standing, chainVars, payloads, callVars>>

Labels == {"idle", "authorize", "tenant", "parse", "account", "query", "decode",
           "broadcast", "done"}
Outs == {"none", "refused", "badInput", "error", "wrongSigner", "built", "answered",
         "accepted", "wrongChain", "wrongKey", "wrongSequence", "code"}
Given == {"built", "answered", "accepted"}

\* A transaction as its wallet signed it: which payload, with whose key.
SignedTxs == [payload : Payloads, key : Owners]

\* What a call carries: the malformed fields of a builder's or a query's
\* input, the transaction a rail's input decodes to (at most one).  live is
\* history: the tenant was live when the call began.
CallRecords == [tenant : Tenants, tool : Tools, faults : SUBSET Fields,
                signed : SUBSET SignedTxs, live : BOOLEAN]
NoCall == [tenant |-> CHOOSE t \in Tenants : TRUE, tool |-> CHOOSE u \in Tools : TRUE,
           faults |-> {}, signed |-> {}, live |-> FALSE]

-----------------------------------------------------------------------------
\* Build chooses the chain behind the agent families: cfg.AgentChain if
\* enabled, else the DEX chain.
AgentChain == IF split THEN "agent" ELSE "dex"

\* Where each rail leads.
RailChain(t) == IF t = "broadcast_agent_chain_tx" THEN AgentChain ELSE "dex"

\* The handler returns r.
End(c, r) ==
  /\ pc' = [pc EXCEPT ![c] = "done"]
  /\ out' = [out EXCEPT ![c] = r]

Goto(c, l) ==
  /\ pc' = [pc EXCEPT ![c] = l]
  /\ UNCHANGED out

\* A call reaches its handler with a tenant in the context; without one it
\* has ErrNoTenant for an answer, and that is all.
Begin(c, t, u, f, s) ==
  /\ pc[c] = "idle"
  /\ call' = [call EXCEPT ![c] = [tenant |-> t, tool |-> u, faults |-> f, signed |-> s,
                                 live |-> standing[t] = "live"]]
  /\ Goto(c, "authorize")
  /\ UNCHANGED <<split, standing, chainVars, payloads>>

\* A builder or a query is called.
Call(c) ==
  \E t \in Tenants, u \in Tools \ Rails, f \in Faults : Begin(c, t, u, f, {})

\* A wallet signs a payload with one of the keys, and a tenant hands it to a
\* rail; or what it hands over does not decode to one signer with a key.
Submit(c) ==
  \E t \in Tenants, u \in Tools \cap Rails :
    \/ Begin(c, t, u, {}, {})
    \/ \E p \in payloads, k \in Owners : Begin(c, t, u, {}, {[payload |-> p, key |-> k]})

\* The caller has its answer; the handler's locals are gone.
Leave(c) ==
  /\ pc[c] = "done"
  /\ pc' = [pc EXCEPT ![c] = "idle"]
  /\ call' = [call EXCEPT ![c] = NoCall]
  /\ out' = [out EXCEPT ![c] = "none"]
  /\ UNCHANGED <<split, standing, chainVars, payloads>>

-----------------------------------------------------------------------------
\* Mutant of CheckTenant: the kill switch is not looked at.
CheckTenantKnown(c) ==
  /\ pc[c] = "authorize"
  /\ IF standing[call[c].tenant] # "gone" THEN Goto(c, "tenant") ELSE End(c, "refused")
  /\ UNCHANGED <<split, standing, chainVars, payloads, call>>

\* authorize: CheckTenant refuses the unknown and the switched off ...
CheckTenant(c) ==
  /\ pc[c] = "authorize"
  /\ IF standing[call[c].tenant] = "live" THEN Goto(c, "tenant") ELSE End(c, "refused")
  /\ UNCHANGED <<split, standing, chainVars, payloads, call>>

\* ... and a second lookup finds the owner, unless the tenant is gone by now.
TenantLookup(c) ==
  /\ pc[c] = "tenant"
  /\ IF standing[call[c].tenant] # "gone"
       THEN Goto(c, IF call[c].tool \in Rails THEN "decode" ELSE "parse")
       ELSE End(c, "refused")
  /\ UNCHANGED <<split, standing, chainVars, payloads, call>>

\* The owner that authorize returned.
owner(c) == OwnerOf[call[c].tenant]

-----------------------------------------------------------------------------
\* The fields the tool parses.
Needs(u) == IF u \in Builders THEN BuildNeeds[u] ELSE QueryNeeds[u]

\* A builder or a query parses its input; a malformed field it does not use
\* is no error.  A builder's message must pass ValidateBasic, which may
\* refuse it for reasons of its own.
Parse(c) ==
  /\ pc[c] = "parse"
  /\ \/ call[c].faults \cap Needs(call[c].tool) # {} /\ End(c, "badInput")
     \/ call[c].faults \cap Needs(call[c].tool) = {} /\ call[c].tool \in Builders
          /\ (Goto(c, "account") \/ End(c, "badInput"))
     \/ call[c].faults \cap Needs(call[c].tool) = {} /\ call[c].tool \in Queries /\ Goto(c, "query")
  /\ UNCHANGED <<split, standing, chainVars, payloads, call>>

\* The query is forwarded to the chain and answered, or fails.
Query(c) ==
  /\ pc[c] = "query"
  /\ End(c, "answered") \/ End(c, "error")
  /\ UNCHANGED <<split, standing, chainVars, payloads, call>>

\* Mutant of AccountSequence: the account client of the DEX chain is asked.
AccountSequenceDex(o) == committed["dex"][o]

\* The account client of the agent families answers from committed state.
AccountSequence(o) == committed[AgentChain][o]

\* Mutant of AssemblerChain: the assembler keeps the DEX chain's id.
AssemblerChainDex == "dex"

\* The chain id agentAsm stamps on its payloads.
AssemblerChain == AgentChain

\* assemble: the account is read and the payload put together for the
\* tenant's owner; either may fail.
Assemble(c) ==
  /\ pc[c] = "account"
  /\ \/ /\ LET p == [builder  |-> call[c].tenant,
                     owner    |-> owner(c),
                     chain    |-> AssemblerChain,
                     sequence |-> AccountSequence(owner(c)),
                     read     |-> committed[AgentChain][owner(c)]]
           IN  /\ p \notin payloads => Cardinality(payloads) < MaxPayloads
               /\ payloads' = payloads \cup {p}
        /\ End(c, "built")
     \/ End(c, "error") /\ UNCHANGED payloads
  /\ UNCHANGED <<split, standing, chainVars, call>>

\* A wallet throws a payload away, or it was never delivered.
Forget(p) ==
  /\ p \in payloads
  /\ payloads' = payloads \ {p}
  /\ UNCHANGED <<split, standing, chainVars, callVars>>

-----------------------------------------------------------------------------
\* Mutant of Pins: whoever signed, the tenant may land it.
PinsNothing(c, tx) == TRUE

\* A tenant lands only what its own owner's key has signed.
Pins(c, tx) == tx.key = owner(c)

\* BroadcastSignedTx up to the broadcast: the bytes decode to exactly one
\* signer with a public key, whose address is the tenant's owner.
Decode(c) ==
  /\ pc[c] = "decode"
  /\ \/ call[c].signed = {} /\ End(c, "badInput")
     \/ \E tx \in call[c].signed :
          IF Pins(c, tx) THEN Goto(c, "broadcast") ELSE End(c, "wrongSigner")
  /\ UNCHANGED <<split, standing, chainVars, payloads, call>>

\* CheckTx: what the chain says to a signed transaction, in this order.  The
\* chain id is no field of a transaction: it is part of what was signed, so a
\* payload of another chain fails when its signature is verified, after the
\* sequence was compared.
Verdict(ch, tx) ==
  IF tx.key # tx.payload.owner THEN "wrongKey"
  ELSE IF tx.payload.sequence # check[ch][tx.payload.owner] THEN "wrongSequence"
  ELSE IF tx.payload.chain # ch THEN "wrongChain"
  ELSE "accepted"

\* The account of o on chain ch uses up a sequence.
Bump(ch, o) ==
  /\ check[ch][o] < MaxSeq
  /\ check' = [check EXCEPT ![ch][o] = @ + 1]

\* BroadcastSync: the chain checks the transaction, which may fail there for
\* other reasons; a refusal is a result, not an error.  The exchange itself
\* may fail, before or after the chain has taken the transaction.
Broadcast(c) ==
  /\ pc[c] = "broadcast"
  /\ \E tx \in call[c].signed :
       LET ch == RailChain(call[c].tool)
           v  == Verdict(ch, tx)
       IN  \/ v # "accepted" /\ End(c, v) /\ UNCHANGED check
           \/ v = "accepted" /\ Bump(ch, tx.payload.owner)
                /\ (End(c, "accepted") \/ End(c, "error"))
           \/ v = "accepted" /\ End(c, "code") /\ UNCHANGED check
           \/ End(c, "error") /\ UNCHANGED check
  /\ UNCHANGED <<split, standing, committed, payloads, call>>

-----------------------------------------------------------------------------
\* A tenant's record is switched off, or expires.
Withdraw(t) ==
  /\ standing[t] # "gone"
  /\ \E s \in {"killed", "gone"} \ {standing[t]} : standing' = [standing EXCEPT ![t] = s]
  /\ UNCHANGED <<split, chainVars, payloads, callVars>>

\* The owner transacts by other means.
Elsewhere(ch, o) ==
  /\ Bump(ch, o)
  /\ UNCHANGED <<split, standing, committed, payloads, callVars>>

\* A block commits what CheckTx has accepted.
Block(ch) ==
  /\ committed[ch] # check[ch]
  /\ committed' = [committed EXCEPT ![ch] = check[ch]]
  /\ UNCHANGED <<split, standing, check, payloads, callVars>>

-----------------------------------------------------------------------------
Init ==
  /\ split \in BOOLEAN
  /\ standing = [t \in Tenants |-> "live"]
  /\ check = [ch \in Chains |-> [o \in Owners |-> 0]]
  /\ committed = check
  /\ payloads = {}
  /\ pc = [c \in Calls |-> "idle"]
  /\ call = [c \in Calls |-> NoCall]
  /\ out = [c \in Calls |-> "none"]

Step(c) ==
  \/ Call(c) \/ Submit(c) \/ Leave(c) \/ CheckTenant(c) \/ TenantLookup(c)
  \/ Parse(c) \/ Query(c) \/ Assemble(c) \/ Decode(c) \/ Broadcast(c)

Next ==
  \/ \E c \in Calls : Step(c)
  \/ \E p \in payloads : Forget(p)
  \/ \E t \in Tenants : Withdraw(t)
  \/ \E ch \in {"dex", AgentChain} : Block(ch) \/ \E o \in Owners : Elsewhere(ch, o)

Spec == Init /\ [][Next]_vars

-----------------------------------------------------------------------------
TypeOK ==
  /\ split \in BOOLEAN
  /\ standing \in [Tenants -> {"live", "killed", "gone"}]
  /\ check \in [Chains -> [Owners -> 0 .. MaxSeq]]
  /\ committed \in [Chains -> [Owners -> 0 .. MaxSeq]]
  /\ payloads \subseteq Payloads
  /\ pc \in [Calls -> Labels]
  /\ call \in [Calls -> CallRecords]
  /\ out \in [Calls -> Outs]

\* Nobody transacts for anybody else: what a rail has landed was built for,
\* is owned by, was signed by and was handed in by one and the same account
\* (txbuild.go:17-22 "a caller cannot build a tx that names someone else",
\* broadcast.go:40-48), whoever's payload a wallet signed with whichever key
\* and whichever tenant passed it on.
OwnTransactionsOnly ==
  \A c \in Calls : out[c] = "accepted" =>
    \A tx \in call[c].signed :
      /\ tx.key = OwnerOf[call[c].tenant]
      /\ tx.payload.owner = tx.key
      /\ OwnerOf[tx.payload.builder] = tx.key

\* A payload of this service fits the chain the agent families live on and no
\* other (wire.go:324-344, txbuild.go:37-48).  On a rail that leads there its
\* signature is never over the wrong chain, and its sequence is wrong only if
\* the owner's account has moved past what that chain had committed when it
\* was read, whatever the account does on the other chain.  On the DEX rail
\* of a deployment with an agent chain of its own it is never accepted, even
\* if the sequences of the two accounts happen to agree.
PayloadFitsItsChain ==
  \A c \in Calls : \A tx \in call[c].signed :
    IF RailChain(call[c].tool) = AgentChain
      THEN /\ out[c] # "wrongChain"
           /\ out[c] = "wrongSequence" =>
                check[AgentChain][tx.payload.owner] > tx.payload.read
      ELSE out[c] # "accepted"

\* A tenant that is switched off or has expired gets nothing from a call it
\* makes after that: no payload, no answer, no broadcast (service.go:70-85).
WithdrawnTenantGetsNothing ==
  \A c \in Calls : out[c] \in Given => call[c].live
=============================================================================
