----------------------------- MODULE Credential -----------------------------
(***************************************************************************)
(* What the agent makes of a credential chain: verifyProof, the key        *)
(* resolver it hands to svpdt, checkRedelegationTargets, and the grant     *)
(* checks of the delegated tools (src/internal/delegated/service.go,       *)
(* resolver.go, reads.go).  The resolver asks the chain once or twice for  *)
(* every hop; registrations change, accounts publish their key and queries *)
(* fail between those questions.                                           *)
(*                                                                         *)
(* svpdt.VerifyChain is outside the repository and modelled from how it is *)
(* used here: it resolves the issuer of every token, root first, checks    *)
(* the signature, the linkage, the depth and the audience of the last      *)
(* token, and returns the intersection of the grants.                      *)
(***************************************************************************)
EXTENDS Integers, Sequences

CONSTANTS
  Requests,   \* the delegated calls that may be in progress at once
  Parties,    \* whom a token may name as audience
  Issuers,    \* who may issue one; an issuer that neither registers nor publishes
              \* a key stands for ids that are not of the DID form, too
  Agent,      \* s.agentID
  Actions,    \* the actions a token may grant
  Subs,       \* subaccount numbers
  NoSub,      \* the subaccount of a read that names none
  Chains,     \* the credential chains that callers present
  Purposes,   \* [action, sub, read]: what the calls are for
  MaxDepth,   \* the params' MaxDelegationDepth
  MaxChanges  \* bound: how often registry and accounts change

\* A party signs with the key of its account or with a key it registered for
\* its agent; an agent may also register its account key, as
\* agent_self_register does.
Keys == [party : Parties, kind : {"account", "agent"}]
Tokens == [iss : Issuers, aud : Parties, key : Keys, to : SUBSET Parties,
           actions : SUBSET Actions, subs : SUBSET Subs]

ActionQueryAccount == "query.account"

ASSUME PartiesAssumption == Agent \in Parties /\ Issuers \subseteq Parties
ASSUME ChainsAssumption == Chains \subseteq Seq(Tokens) /\ Chains # {}
ASSUME PurposesAssumption ==
  /\ Purposes # {}
  /\ Purposes \subseteq
       [action : {ActionQueryAccount}, sub : Subs \cup {NoSub}, read : {TRUE}]
         \cup [action : Actions, sub : Subs, read : {FALSE}]
ASSUME NoSubAssumption == NoSub \notin Subs
ASSUME BoundAssumption == MaxDepth \in Nat /\ MaxChanges \in Nat

VARIABLES
  registry,   \* [Issuers -> {"unregistered", "account", "agent"}]: x/agent,
              \* and which key the record carries
  published,  \* the parties whose x/auth account has published its key
  changes,    \* how often the two have changed
  pc,         \* where each call stands
  proof,      \* the chain each call carries
  purpose,    \* what the call was let through for
  hop,        \* the token whose issuer is being resolved
  outcome,    \* how each call ended
  was,        \* history: what was true of whom at some moment of the call
  failed      \* history: whose registry query failed during the call

worldVars == <<registry, published, changes>>
callVars  == <<pc, proof, purpose, hop, outcome, was, failed>>
vars == <<worldVars, callVars>>

Labels   == {"idle", "decode", "params", "registry", "auth", "verified", "allowed", "done"}
Outcomes == {"none", "refused", "accepted"}
Records  == {"unregistered", "account", "agent"}
Facts    == [party : Issuers, fact : Records \cup {"published"}]

\* What holds of whom, in a given state of the registry and the accounts.
FactsOf(reg, pub) ==
  {[party |-> p, fact |-> reg[p]] : p \in Issuers}
    \cup {[party |-> p, fact |-> "published"] : p \in pub}

-----------------------------------------------------------------------------
\* The registry and the accounts change under the open calls.
Change(reg, pub) ==
  /\ changes < MaxChanges
  /\ changes' = changes + 1
  /\ registry' = reg
  /\ published' = pub
  /\ was' = [q \in Requests |->
               IF pc[q] \in {"idle", "done"} THEN was[q]
                                            ELSE was[q] \cup FactsOf(reg, pub)]
  /\ UNCHANGED <<pc, proof, purpose, hop, outcome, failed>>

SetRecord(p, k) ==
  registry[p] # k /\ Change([registry EXCEPT ![p] = k], published)

Publish(p) == p \notin published /\ Change(registry, published \cup {p})

-----------------------------------------------------------------------------
\* A delegated tool is called with a chain.
Present(q) ==
  /\ pc[q] = "idle"
  /\ \E c \in Chains \cup {<<>>} : proof' = [proof EXCEPT ![q] = c]
  /\ pc' = [pc EXCEPT ![q] = "decode"]
  /\ outcome' = [outcome EXCEPT ![q] = "none"]
  /\ was' = [was EXCEPT ![q] = FactsOf(registry, published)]
  /\ UNCHANGED <<worldVars, purpose, hop, failed>>

\* The call goes on to label l, or is refused.
GoTo(q, l) ==
  /\ pc' = [pc EXCEPT ![q] = l]
  /\ UNCHANGED <<worldVars, proof, purpose, outcome, was>>

Refuse(q) ==
  /\ outcome' = [outcome EXCEPT ![q] = "refused"]
  /\ pc' = [pc EXCEPT ![q] = "idle"]
  /\ proof' = [proof EXCEPT ![q] = <<>>]
  /\ hop' = [hop EXCEPT ![q] = 1]
  /\ was' = [was EXCEPT ![q] = {}]
  /\ failed' = [failed EXCEPT ![q] = {}]
  /\ UNCHANGED <<worldVars, purpose>>

\* An empty proof is refused, and so is one that is not base64.
Decode(q) ==
  /\ pc[q] = "decode"
  /\ \/ proof[q] # <<>> /\ GoTo(q, "params") /\ UNCHANGED <<hop, failed>>
     \/ Refuse(q)

\* walletParams answers (ParamsCache) or fails; VerifyChain may refuse for
\* reasons of its own: expiry, TTL, chain id, malformed tokens.
Params(q) ==
  /\ pc[q] = "params"
  /\ \/ GoTo(q, "registry") /\ UNCHANGED <<hop, failed>>
     \/ Refuse(q)

Token(q) == proof[q][hop[q]]

\* Mutant of NextHop: the loop over the tokens runs one too far.
NextHopPastEnd(q, k) ==
  IF k # Token(q).key
    THEN Refuse(q)
    ELSE /\ UNCHANGED failed
         /\ IF hop[q] > Len(proof[q])
              THEN GoTo(q, "verified") /\ UNCHANGED hop
              ELSE GoTo(q, "registry") /\ hop' = [hop EXCEPT ![q] = @ + 1]

\* The resolver returned key k for the issuer of the token at hand: VerifyChain
\* checks the signature with it and turns to the next token.
NextHop(q, k) ==
  IF k # Token(q).key
    THEN Refuse(q)
    ELSE /\ UNCHANGED failed
         /\ IF hop[q] = Len(proof[q])
              THEN GoTo(q, "verified") /\ UNCHANGED hop
              ELSE GoTo(q, "registry") /\ hop' = [hop EXCEPT ![q] = @ + 1]

\* Mutant of RegistryAnswers: the record does not settle the question, the
\* account key is tried as well.
RegistryAnswersBoth(q) ==
  /\ pc[q] = "registry"
  /\ registry[Token(q).iss] # "unregistered"
  /\ \/ NextHop(q, [party |-> Token(q).iss, kind |-> registry[Token(q).iss]])
     \/ GoTo(q, "auth") /\ UNCHANGED <<hop, failed>>

\* The registered key is the only one.
RegistryAnswers(q) ==
  /\ pc[q] = "registry"
  /\ registry[Token(q).iss] # "unregistered"
  /\ NextHop(q, [party |-> Token(q).iss, kind |-> registry[Token(q).iss]])

\* The registry knows no such agent: the account is asked.
NotRegistered(q) ==
  /\ pc[q] = "registry"
  /\ registry[Token(q).iss] = "unregistered"
  /\ GoTo(q, "auth")
  /\ UNCHANGED <<hop, failed>>

\* The query fails, in transport or by timeout: the resolver does not tell this
\* from a missing record.
RegistryFails(q) ==
  /\ pc[q] = "registry"
  /\ GoTo(q, "auth")
  /\ failed' = [failed EXCEPT ![q] = @ \cup {Token(q).iss}]
  /\ UNCHANGED hop

\* AccountPubKey: the key the account has published, which hashes to its
\* address.
AuthAnswers(q) ==
  /\ pc[q] = "auth"
  /\ Token(q).iss \in published
  /\ NextHop(q, [party |-> Token(q).iss, kind |-> "account"])

\* No account, no key yet, a key of another type, or the query failed.
AuthRefuses(q) == pc[q] = "auth" /\ Refuse(q)

\* The rest of VerifyChain: depth, linkage and the last token's audience.
Linked(c) ==
  /\ Len(c) <= MaxDepth
  /\ \A i \in 2 .. Len(c) : c[i].iss = c[i - 1].aud
  /\ c[Len(c)].aud = Agent

\* Mutant of RedelegationAllowed: the last hop is taken to be covered by the
\* audience check.
RedelegationAllowedButLast(c) ==
  \A i \in 2 .. Len(c) - 1 : c[i].aud \in c[i - 1].to

\* checkRedelegationTargets
RedelegationAllowed(c) == \A i \in 2 .. Len(c) : c[i].aud \in c[i - 1].to

VerifyProof(q) ==
  /\ pc[q] = "verified"
  /\ IF Linked(proof[q]) /\ RedelegationAllowed(proof[q])
       THEN GoTo(q, "allowed") /\ UNCHANGED <<hop, failed>>
       ELSE Refuse(q)

\* The effective grant: what every token grants.
Effective(c) ==
  [actions |-> {a \in Actions : \A i \in DOMAIN c : a \in c[i].actions},
   subs    |-> {s \in Subs : \A i \in DOMAIN c : s \in c[i].subs}]

\* The tool and its arguments matter from here on.
\* preflight, and AuthorizeRead with pinArgsToPrincipal: the action and, where
\* the tool has one, the subaccount are granted.
Granted(c, p) ==
  /\ p.action \in Effective(c).actions
  /\ p.sub \in Effective(c).subs \/ (p.read /\ p.sub = NoSub)

\* The call is let through to the query tool or to the builder, the local
\* limits and the broadcast (OperatorTx), any of which may still refuse.
Allow(q) ==
  /\ pc[q] = "allowed"
  /\ \/ /\ \E p \in Purposes : /\ Granted(proof[q], p)
                              /\ purpose' = [purpose EXCEPT ![q] = p]
        /\ outcome' = [outcome EXCEPT ![q] = "accepted"]
        /\ pc' = [pc EXCEPT ![q] = "done"]
        /\ UNCHANGED <<worldVars, proof, hop, was, failed>>
     \/ Refuse(q)

\* An accepted call returns, and its locals are gone.
Return(q) ==
  /\ pc[q] = "done"
  /\ pc' = [pc EXCEPT ![q] = "idle"]
  /\ outcome' = [outcome EXCEPT ![q] = "none"]
  /\ proof' = [proof EXCEPT ![q] = <<>>]
  /\ hop' = [hop EXCEPT ![q] = 1]
  /\ was' = [was EXCEPT ![q] = {}]
  /\ failed' = [failed EXCEPT ![q] = {}]
  /\ UNCHANGED <<worldVars, purpose>>

-----------------------------------------------------------------------------
Init ==
  /\ registry \in [Issuers -> Records]
  /\ published \in SUBSET Issuers
  /\ changes = 0
  /\ pc = [q \in Requests |-> "idle"]
  /\ proof = [q \in Requests |-> <<>>]
  /\ purpose = [q \in Requests |-> CHOOSE p \in Purposes : TRUE]
  /\ hop = [q \in Requests |-> 1]
  /\ outcome = [q \in Requests |-> "none"]
  /\ was = [q \in Requests |-> {}]
  /\ failed = [q \in Requests |-> {}]

\* The steps of a call in progress.
Step(q) ==
  \/ Decode(q)
  \/ Params(q)
  \/ RegistryAnswers(q)
  \/ NotRegistered(q)
  \/ RegistryFails(q)
  \/ AuthAnswers(q)
  \/ AuthRefuses(q)
  \/ VerifyProof(q)
  \/ Allow(q)
  \/ Return(q)

Next ==
  \/ \E p \in Issuers : Publish(p) \/ \E k \in Records : SetRecord(p, k)
  \/ \E q \in Requests : Present(q) \/ Step(q)

Spec == Init /\ [][Next]_vars

-----------------------------------------------------------------------------
TypeOK ==
  /\ registry \in [Issuers -> Records]
  /\ published \subseteq Issuers
  /\ changes \in 0 .. MaxChanges
  /\ pc \in [Requests -> Labels]
  /\ proof \in [Requests -> Chains \cup {<<>>}]
  /\ purpose \in [Requests -> Purposes]
  /\ hop \in [Requests -> Nat]
  /\ \A q \in Requests : hop[q] = 1 \/ hop[q] \in DOMAIN proof[q]
  /\ outcome \in [Requests -> Outcomes]
  /\ was \in [Requests -> SUBSET Facts]
  /\ failed \in [Requests -> SUBSET Issuers]

\* At some moment of q's call, f held of party p.
Was(q, p, f) == [party |-> p, fact |-> f] \in was[q]

\* Key k was registered for party p at some moment of the call, or it is the
\* published key of p's account and the call had reason to ask for that: p was
\* unregistered for a moment, or its registry query failed.
KeyOf(q, p, k) ==
  /\ k.party = p
  /\ \/ Was(q, p, k.kind)
     \/ /\ k.kind = "account"
        /\ Was(q, p, "published")
        /\ Was(q, p, "unregistered") \/ p \in failed[q]

\* Every token of an accepted chain is signed with a key that was its issuer's
\* during this very call, however registrations, publications and failing
\* queries fall between the questions of the resolver (resolver.go:67-84,
\* 109-136).
HopsSignedByTheirIssuers ==
  \A q \in Requests :
    outcome[q] = "accepted" =>
      \A i \in DOMAIN proof[q] : KeyOf(q, proof[q][i].iss, proof[q][i].key)

\* Authority is handed on only along the chain: each holder was named by the
\* holder before it, the last is this agent, and what the call does lies
\* inside the grant of every token, not of the last alone
\* (service.go:145-213, reads.go:69-76).
AuthorityIsHandedOn ==
  \A q \in Requests :
    outcome[q] = "accepted" =>
      LET c == proof[q] IN
      /\ \A i \in 2 .. Len(c) : c[i].iss = c[i - 1].aud /\ c[i].aud \in c[i - 1].to
      /\ c # <<>> /\ c[Len(c)].aud = Agent
      /\ \A i \in DOMAIN c :
           /\ purpose[q].action \in c[i].actions
           /\ purpose[q].sub # NoSub => purpose[q].sub \in c[i].subs

\* What the comment says (resolver.go:33-42): the registered key is the single
\* acceptable key and the registry always wins; only a DID that is not
\* registered falls back to its account, and the chain's Authorize verifies
\* again.  The code falls back whenever the query yields no record, so for a
\* registered issuer too when the query fails, and a read never reaches the
\* chain.
RegistryAlwaysWins ==
  \A q \in Requests :
    outcome[q] = "accepted" /\ purpose[q].read =>
      \A i \in DOMAIN proof[q] :
        LET t == proof[q][i] IN Was(q, t.iss, t.key.kind) \/ Was(q, t.iss, "unregistered")
=============================================================================
