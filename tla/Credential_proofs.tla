------------------------- MODULE Credential_proofs --------------------------
(***************************************************************************)
(* Proofs about Credential, for any number of concurrent calls, any        *)
(* parties, chains of any length and any schedule of registrations,        *)
(* publications and failing queries: every token of an accepted chain is   *)
(* signed with a key that was its issuer's during the call, and the call   *)
(* stays inside what every token of the chain hands on.                    *)
(***************************************************************************)
EXTENDS Credential, TLAPS

\* The issuer of token i has signed it, as far as the call could know.
Resolved(q, i) == KeyOf(q, proof[q][i].iss, proof[q][i].key)

\* An open call's history knows the present.
Informed(q) ==
  pc[q] \notin {"idle", "done"} => FactsOf(registry, published) \subseteq was[q]

\* Resolution starts at the root token, and there is one.
Started(q) ==
  /\ pc[q] \in {"idle", "decode", "params"} => hop[q] = 1
  /\ pc[q] \notin {"idle", "decode"} => proof[q] # <<>>

\* The hops behind the current one are resolved, and in the end all are.
HopsResolved(q) ==
  /\ \A i \in DOMAIN proof[q] : i < hop[q] => Resolved(q, i)
  /\ pc[q] \in {"verified", "allowed", "done"} => \A i \in DOMAIN proof[q] : Resolved(q, i)

\* An account is asked for its key only for one of two reasons.
ReasonToAsk(q) ==
  pc[q] = "auth" => Was(q, Token(q).iss, "unregistered") \/ Token(q).iss \in failed[q]

\* What VerifyChain, checkRedelegationTargets and the grant checks have seen.
Checked(q) ==
  /\ pc[q] \in {"allowed", "done"} => Linked(proof[q]) /\ RedelegationAllowed(proof[q])
  /\ pc[q] = "done" => Granted(proof[q], purpose[q])
  /\ outcome[q] = "accepted" => pc[q] = "done"

CallSound(q) ==
  /\ Informed(q)
  /\ Started(q)
  /\ HopsResolved(q)
  /\ ReasonToAsk(q)
  /\ Checked(q)

Inv == TypeOK /\ \A q \in Requests : CallSound(q)

-----------------------------------------------------------------------------
\* The chain a call carries is a sequence of tokens.
LEMMA ProofType ==
  ASSUME TypeOK, NEW q \in Requests
  PROVE  proof[q] \in Seq(Tokens)
<1>1. <<>> \in Seq(Tokens)
  OBVIOUS
<1>2. proof[q] \in Chains \/ proof[q] = <<>>
  BY DEF TypeOK
<1> QED
  BY <1>1, <1>2, ChainsAssumption

LEMMA FactsType ==
  ASSUME NEW reg \in [Issuers -> Records], NEW pub \in SUBSET Issuers
  PROVE  FactsOf(reg, pub) \subseteq Facts
<1> SUFFICES ASSUME NEW f \in FactsOf(reg, pub) PROVE f \in Facts
  OBVIOUS
<1>1. CASE \E p \in Issuers : f = [party |-> p, fact |-> reg[p]]
  BY <1>1 DEF Facts
<1>2. CASE \E p \in pub : f = [party |-> p, fact |-> "published"]
  BY <1>2 DEF Facts
<1> QED
  BY <1>1, <1>2 DEF FactsOf

\* While a token's issuer is being resolved, there is such a token.
LEMMA TokenType ==
  ASSUME Inv, NEW q \in Requests, pc[q] \in {"registry", "auth"}
  PROVE  /\ hop[q] \in DOMAIN proof[q] /\ hop[q] \in 1 .. Len(proof[q])
         /\ Token(q).iss \in Issuers
<1>1. proof[q] \in Seq(Tokens) /\ proof[q] # <<>>
  BY ProofType DEF Inv, CallSound, Started
<1>2. hop[q] = 1 \/ hop[q] \in DOMAIN proof[q]
  BY DEF Inv, TypeOK
<1>3. hop[q] \in 1 .. Len(proof[q])
  BY <1>1, <1>2
<1>4. proof[q][hop[q]] \in Tokens
  BY <1>1, <1>3
<1>5. Token(q).iss \in Issuers
  BY <1>4 DEF Token, Tokens
<1> QED
  BY <1>1, <1>3, <1>5

\* The initial states satisfy the invariant.
LEMMA InitInv == Init => Inv
<1> SUFFICES ASSUME Init PROVE Inv
  OBVIOUS
<1>1. (CHOOSE p \in Purposes : TRUE) \in Purposes
  BY PurposesAssumption
<1>2. TypeOK
  BY <1>1, BoundAssumption DEF Init, TypeOK, Labels, Outcomes
<1>3. ASSUME NEW q \in Requests PROVE CallSound(q)
  BY DEF Init, CallSound, Informed, Started, HopsResolved, ReasonToAsk, Checked
<1> QED
  BY <1>2, <1>3 DEF Inv

-----------------------------------------------------------------------------
\* What was once known of a key stays known.
LEMMA ResolvedStays ==
  ASSUME NEW q \in Requests, NEW i, proof'[q] = proof[q],
         was[q] \subseteq was'[q], failed[q] \subseteq failed'[q], Resolved(q, i)
  PROVE  Resolved(q, i)'
BY DEF Resolved, KeyOf, Was

\* A call that does not move stays sound, whatever happens around it.
LEMMA CallStable ==
  ASSUME NEW q \in Requests, CallSound(q),
         pc'[q] = pc[q], proof'[q] = proof[q], purpose'[q] = purpose[q], hop'[q] = hop[q],
         outcome'[q] = outcome[q], failed'[q] = failed[q], was[q] \subseteq was'[q],
         Informed(q)'
  PROVE  CallSound(q)'
<1>1. Started(q)' /\ Checked(q)'
  BY DEF CallSound, Started, Checked
<1>2. HopsResolved(q)'
  BY ResolvedStays DEF CallSound, HopsResolved
<1>3. ReasonToAsk(q)'
  BY DEF CallSound, ReasonToAsk, Token, Was
<1> QED
  BY <1>1, <1>2, <1>3 DEF CallSound

\* The registry or the accounts change.
LEMMA ChangeStep ==
  ASSUME Inv, NEW reg \in [Issuers -> Records], NEW pub \in SUBSET Issuers, Change(reg, pub)
  PROVE  Inv'
<1>1. FactsOf(reg, pub) \subseteq Facts
  BY FactsType
<1>2. TypeOK'
  BY <1>1, BoundAssumption DEF Inv, TypeOK, Change
<1>3. ASSUME NEW q \in Requests PROVE CallSound(q)'
  <2>1. Informed(q)'
    BY DEF Change, Informed
  <2>2. was[q] \subseteq was'[q]
    BY DEF Change
  <2> QED
    BY <2>1, <2>2, CallStable DEF Inv, Change
<1> QED
  BY <1>2, <1>3 DEF Inv

\* A call's own step: the world stays as it is, and so do the other calls.
OwnStep(q) ==
  /\ UNCHANGED worldVars
  /\ \A p \in Requests \ {q} :
       /\ pc'[p] = pc[p] /\ proof'[p] = proof[p] /\ purpose'[p] = purpose[p]
       /\ hop'[p] = hop[p] /\ outcome'[p] = outcome[p] /\ was'[p] = was[p]
       /\ failed'[p] = failed[p]

LEMMA OthersStable ==
  ASSUME Inv, NEW q \in Requests, OwnStep(q), TypeOK', CallSound(q)'
  PROVE  Inv'
<1>1. ASSUME NEW p \in Requests, p # q PROVE CallSound(p)'
  <2>1. Informed(p)'
    BY <1>1 DEF Inv, CallSound, Informed, OwnStep, worldVars
  <2> QED
    BY <1>1, <2>1, CallStable DEF Inv, OwnStep
<1> QED
  BY <1>1 DEF Inv

-----------------------------------------------------------------------------
\* A call that ends, refused or returning, has nothing left to be unsound.
LEMMA EndStep ==
  ASSUME Inv, NEW q \in Requests, NEW r \in {"refused", "none"},
         outcome' = [outcome EXCEPT ![q] = r],
         pc' = [pc EXCEPT ![q] = "idle"],
         proof' = [proof EXCEPT ![q] = <<>>],
         hop' = [hop EXCEPT ![q] = 1],
         was' = [was EXCEPT ![q] = {}],
         failed' = [failed EXCEPT ![q] = {}],
         UNCHANGED <<worldVars, purpose>>
  PROVE  Inv'
<1>1. TypeOK'
  BY DEF Inv, TypeOK, Labels, Outcomes, worldVars
<1>2. OwnStep(q)
  BY DEF Inv, TypeOK, OwnStep, worldVars
<1>3. /\ pc'[q] = "idle" /\ proof'[q] = <<>> /\ hop'[q] = 1 /\ outcome'[q] = r
  BY DEF Inv, TypeOK
<1>4. CallSound(q)'
  BY <1>3 DEF CallSound, Informed, Started, HopsResolved, ReasonToAsk, Checked
<1> QED
  BY <1>1, <1>2, <1>4, OthersStable

LEMMA RefuseStep == ASSUME Inv, NEW q \in Requests, Refuse(q) PROVE Inv'
BY EndStep DEF Refuse

\* A call that goes on to l, with its hop where it was, and the issuer of its
\* token among the failed queries or not.
LEMMA GoToStep ==
  ASSUME Inv, NEW q \in Requests, NEW l \in Labels \ {"idle", "decode", "done"},
         pc[q] \notin {"idle", "done"}, GoTo(q, l), UNCHANGED hop,
         failed' \in [Requests -> SUBSET Issuers], failed[q] \subseteq failed'[q],
         \A p \in Requests \ {q} : failed'[p] = failed[p],
         proof[q] # <<>>,
         l = "params" => hop[q] = 1,
         l = "auth" => Was(q, Token(q).iss, "unregistered") \/ Token(q).iss \in failed'[q],
         l \in {"verified", "allowed"} => \A i \in DOMAIN proof[q] : Resolved(q, i),
         l = "allowed" => Linked(proof[q]) /\ RedelegationAllowed(proof[q])
  PROVE  Inv'
<1>1. TypeOK'
  BY DEF Inv, TypeOK, GoTo, worldVars
<1>2. OwnStep(q)
  BY DEF Inv, TypeOK, OwnStep, GoTo
<1>3. /\ pc'[q] = l
      /\ UNCHANGED <<registry, published, proof, purpose, outcome, was, hop>>
  BY DEF Inv, TypeOK, GoTo, worldVars
<1>4. Informed(q)'
  BY <1>3 DEF Inv, CallSound, Informed
<1>5. Started(q)'
  BY <1>3 DEF Started
<1>6. HopsResolved(q)'
  <2>1. ASSUME NEW i, Resolved(q, i) PROVE Resolved(q, i)'
    BY <1>3, <2>1, ResolvedStays
  <2> QED
    BY <1>3, <2>1 DEF Inv, CallSound, HopsResolved
<1>7. ReasonToAsk(q)'
  BY <1>3 DEF ReasonToAsk, Token, Was
<1>8. Checked(q)'
  BY <1>3 DEF Checked, Inv, CallSound
<1> QED
  BY <1>1, <1>2, <1>4, <1>5, <1>6, <1>7, <1>8, OthersStable DEF CallSound

\* VerifyChain turns to the next token once the current one is resolved.
LEMMA NextHopStep ==
  ASSUME Inv, NEW q \in Requests, pc[q] \in {"registry", "auth"}, NEW k,
         NextHop(q, k), KeyOf(q, Token(q).iss, k)
  PROVE  Inv'
<1>1. CASE k # Token(q).key
  BY <1>1, RefuseStep DEF NextHop
<1>2. CASE k = Token(q).key
  <2>1. /\ hop[q] \in DOMAIN proof[q] /\ hop[q] \in 1 .. Len(proof[q])
        /\ proof[q] \in Seq(Tokens) /\ proof[q] # <<>>
    BY TokenType, ProofType DEF Inv, CallSound, Started
  <2>2. Resolved(q, hop[q])
    BY <1>2 DEF Resolved, Token
  <2>3. CASE hop[q] = Len(proof[q])
    <3>1. \A i \in DOMAIN proof[q] : Resolved(q, i)
      <4>1. ASSUME NEW i \in DOMAIN proof[q] PROVE i < hop[q] \/ i = hop[q]
        BY <2>1, <2>3
      <4> QED
        BY <2>2, <4>1 DEF Inv, CallSound, HopsResolved
    <3>2. GoTo(q, "verified") /\ UNCHANGED <<hop, failed>>
      BY <1>2, <2>3 DEF NextHop
    <3> QED
      BY <2>1, <3>1, <3>2, GoToStep DEF Inv, TypeOK, Labels
  <2>4. CASE hop[q] # Len(proof[q])
    <3>1. GoTo(q, "registry") /\ hop' = [hop EXCEPT ![q] = @ + 1] /\ failed' = failed
      BY <1>2, <2>4 DEF NextHop
    <3>2. hop[q] + 1 \in DOMAIN proof[q] /\ hop[q] + 1 \in Nat
      BY <2>1, <2>4
    <3>3. TypeOK'
      BY <3>1, <3>2 DEF Inv, TypeOK, GoTo, worldVars, Labels
    <3>4. OwnStep(q)
      BY <3>1 DEF Inv, TypeOK, OwnStep, GoTo
    <3>5. /\ pc'[q] = "registry" /\ hop'[q] = hop[q] + 1
          /\ UNCHANGED <<registry, published, proof, outcome, was>>
      BY <3>1 DEF Inv, TypeOK, GoTo, worldVars
    <3>6. HopsResolved(q)'
      <4>1. ASSUME NEW i, Resolved(q, i) PROVE Resolved(q, i)'
        BY <3>1, <3>5, <4>1, ResolvedStays
      <4>2. ASSUME NEW i \in DOMAIN proof[q], i < hop[q] + 1 PROVE Resolved(q, i)
        <5>1. i < hop[q] \/ i = hop[q]
          BY <2>1, <4>2
        <5> QED
          BY <2>2, <5>1 DEF Inv, CallSound, HopsResolved
      <4> QED
        BY <3>5, <4>1, <4>2 DEF HopsResolved
    <3>7. Informed(q)' /\ Started(q)' /\ ReasonToAsk(q)' /\ Checked(q)'
      BY <2>1, <3>5 DEF Inv, CallSound, Informed, Started, ReasonToAsk, Checked
    <3> QED
      BY <3>3, <3>4, <3>6, <3>7, OthersStable DEF CallSound
  <2> QED
    BY <2>3, <2>4
<1> QED
  BY <1>1, <1>2

-----------------------------------------------------------------------------
\* A call begins.
LEMMA PresentStep == ASSUME Inv, NEW q \in Requests, Present(q) PROVE Inv'
<1>1. /\ pc'[q] = "decode" /\ outcome'[q] = "none" /\ hop'[q] = 1
      /\ was'[q] = FactsOf(registry, published)
      /\ UNCHANGED <<registry, published>>
  BY DEF Present, Inv, TypeOK, CallSound, Started, worldVars
<1>2. TypeOK'
  BY <1>1, FactsType DEF Present, Inv, TypeOK, Labels, Outcomes, worldVars
<1>3. OwnStep(q)
  BY DEF Present, Inv, TypeOK, OwnStep
<1>4. Informed(q)' /\ Started(q)' /\ ReasonToAsk(q)' /\ Checked(q)'
  BY <1>1 DEF Informed, Started, ReasonToAsk, Checked
<1>5. HopsResolved(q)'
  <2>1. proof'[q] \in Seq(Tokens)
    <3>1. proof'[q] \in Chains \/ proof'[q] = <<>>
      BY <1>2 DEF TypeOK
    <3>2. <<>> \in Seq(Tokens)
      OBVIOUS
    <3> QED
      BY <3>1, <3>2, ChainsAssumption
  <2>2. \A i \in DOMAIN proof'[q] : ~(i < 1)
    BY <2>1
  <2> QED
    BY <1>1, <2>2 DEF HopsResolved
<1> QED
  BY <1>2, <1>3, <1>4, <1>5, OthersStable DEF CallSound

\* The resolver's two questions.
LEMMA ResolveStep ==
  ASSUME Inv, NEW q \in Requests,
         \/ RegistryAnswers(q) \/ NotRegistered(q) \/ RegistryFails(q)
         \/ AuthAnswers(q) \/ AuthRefuses(q)
  PROVE  Inv'
<1>0. AuthRefuses(q) => Inv'
  BY RefuseStep DEF AuthRefuses
<1> SUFFICES ASSUME ~AuthRefuses(q) PROVE Inv'
  BY <1>0
<1>1. pc[q] \in {"registry", "auth"} /\ pc[q] \notin {"idle", "done", "decode"}
  BY DEF RegistryAnswers, NotRegistered, RegistryFails, AuthAnswers
<1>2. Token(q).iss \in Issuers
  BY <1>1, TokenType
<1>3. FactsOf(registry, published) \subseteq was[q]
  BY <1>1 DEF Inv, CallSound, Informed
<1>4. /\ Was(q, Token(q).iss, registry[Token(q).iss])
      /\ Token(q).iss \in published => Was(q, Token(q).iss, "published")
  BY <1>2, <1>3 DEF FactsOf, Was
<1>5. proof[q] # <<>>
  BY <1>1 DEF Inv, CallSound, Started
<1>6. CASE RegistryAnswers(q)
  <2> DEFINE k == [party |-> Token(q).iss, kind |-> registry[Token(q).iss]]
  <2>1. NextHop(q, k)
    BY <1>6 DEF RegistryAnswers
  <2>2. KeyOf(q, Token(q).iss, k)
    BY <1>4 DEF KeyOf
  <2> QED
    BY <1>1, <2>1, <2>2, NextHopStep
<1>7. CASE AuthAnswers(q)
  <2> DEFINE k == [party |-> Token(q).iss, kind |-> "account"]
  <2>1. NextHop(q, k) /\ pc[q] = "auth" /\ Token(q).iss \in published
    BY <1>7 DEF AuthAnswers
  <2>2. Was(q, Token(q).iss, "unregistered") \/ Token(q).iss \in failed[q]
    BY <2>1 DEF Inv, CallSound, ReasonToAsk
  <2>3. KeyOf(q, Token(q).iss, k)
    BY <1>4, <2>1, <2>2 DEF KeyOf
  <2> QED
    BY <1>1, <2>1, <2>3, NextHopStep
<1>8. CASE NotRegistered(q)
  <2>1. GoTo(q, "auth") /\ UNCHANGED <<hop, failed>> /\ Was(q, Token(q).iss, "unregistered")
    BY <1>4, <1>8 DEF NotRegistered
  <2> QED
    BY <1>1, <1>5, <2>1, GoToStep DEF Inv, TypeOK, Labels
<1>9. CASE RegistryFails(q)
  <2>1. /\ GoTo(q, "auth") /\ UNCHANGED hop
        /\ failed' \in [Requests -> SUBSET Issuers]
        /\ failed[q] \subseteq failed'[q] /\ Token(q).iss \in failed'[q]
        /\ \A p \in Requests \ {q} : failed'[p] = failed[p]
    BY <1>2, <1>9 DEF RegistryFails, Inv, TypeOK
  <2> QED
    BY <1>1, <1>5, <2>1, GoToStep DEF Labels
<1> QED
  BY <1>6, <1>7, <1>8, <1>9

\* Everything before and after the resolver.
LEMMA CheckStep ==
  ASSUME Inv, NEW q \in Requests, Decode(q) \/ Params(q) \/ VerifyProof(q) \/ Allow(q)
  PROVE  Inv'
<1>1. CASE Refuse(q)
  BY <1>1, RefuseStep
<1>2. CASE Decode(q) /\ ~Refuse(q)
  <2>1. /\ pc[q] = "decode" /\ proof[q] # <<>> /\ GoTo(q, "params")
        /\ UNCHANGED <<hop, failed>> /\ hop[q] = 1
    BY <1>2 DEF Decode, Inv, CallSound, Started
  <2> QED
    BY <2>1, GoToStep DEF Inv, TypeOK, Labels
<1>3. CASE Params(q) /\ ~Refuse(q)
  <2>1. /\ pc[q] = "params" /\ proof[q] # <<>> /\ GoTo(q, "registry")
        /\ UNCHANGED <<hop, failed>>
    BY <1>3 DEF Params, Inv, CallSound, Started
  <2> QED
    BY <2>1, GoToStep DEF Inv, TypeOK, Labels
<1>4. CASE VerifyProof(q) /\ ~Refuse(q)
  <2>1. /\ pc[q] = "verified" /\ proof[q] # <<>> /\ GoTo(q, "allowed")
        /\ UNCHANGED <<hop, failed>>
        /\ Linked(proof[q]) /\ RedelegationAllowed(proof[q])
    BY <1>4 DEF VerifyProof, Inv, CallSound, Started
  <2>2. \A i \in DOMAIN proof[q] : Resolved(q, i)
    BY <2>1 DEF Inv, CallSound, HopsResolved
  <2> QED
    BY <2>1, <2>2, GoToStep DEF Inv, TypeOK, Labels
<1>5. CASE Allow(q) /\ ~Refuse(q)
  <2>1. PICK p \in Purposes : /\ Granted(proof[q], p)
                              /\ purpose' = [purpose EXCEPT ![q] = p]
    BY <1>5 DEF Allow
  <2>2. /\ pc[q] = "allowed"
        /\ outcome' = [outcome EXCEPT ![q] = "accepted"]
        /\ pc' = [pc EXCEPT ![q] = "done"]
        /\ UNCHANGED <<worldVars, proof, hop, was, failed>>
    BY <1>5 DEF Allow
  <2>3. TypeOK'
    BY <2>1, <2>2 DEF Inv, TypeOK, worldVars, Labels, Outcomes
  <2>4. OwnStep(q)
    BY <2>1, <2>2 DEF Inv, TypeOK, OwnStep
  <2>5. pc'[q] = "done" /\ purpose'[q] = p
    BY <2>1, <2>2 DEF Inv, TypeOK
  <2>6. Informed(q)' /\ Started(q)' /\ ReasonToAsk(q)'
    BY <2>2, <2>5 DEF Inv, CallSound, Informed, Started, ReasonToAsk
  <2>7. HopsResolved(q)'
    <3>1. ASSUME NEW i, Resolved(q, i) PROVE Resolved(q, i)'
      BY <2>2, <3>1, ResolvedStays
    <3> QED
      BY <2>2, <3>1 DEF Inv, CallSound, HopsResolved
  <2>8. Checked(q)'
    BY <2>1, <2>2, <2>5 DEF Inv, CallSound, Checked
  <2> QED
    BY <2>3, <2>4, <2>6, <2>7, <2>8, OthersStable DEF CallSound
<1> QED
  BY <1>1, <1>2, <1>3, <1>4, <1>5

\* The invariant is inductive.
LEMMA NextInv == Inv /\ [Next]_vars => Inv'
<1> SUFFICES ASSUME Inv, [Next]_vars PROVE Inv'
  OBVIOUS
<1>1. ASSUME NEW p \in Issuers, Publish(p) PROVE Inv'
  BY <1>1, ChangeStep DEF Publish, Inv, TypeOK
<1>2. ASSUME NEW p \in Issuers, NEW k \in Records, SetRecord(p, k) PROVE Inv'
  <2>1. [registry EXCEPT ![p] = k] \in [Issuers -> Records]
    BY DEF Inv, TypeOK
  <2> QED
    BY <1>2, <2>1, ChangeStep DEF SetRecord, Inv, TypeOK
<1>3. ASSUME NEW q \in Requests, Return(q) PROVE Inv'
  BY <1>3, EndStep DEF Return
<1>4. ASSUME NEW q \in Requests, Present(q) \/ Step(q) PROVE Inv'
  BY <1>3, <1>4, PresentStep, ResolveStep, CheckStep DEF Step
<1>5. CASE UNCHANGED vars
  <2>1. TypeOK'
    BY <1>5 DEF Inv, TypeOK, vars, worldVars, callVars
  <2>2. ASSUME NEW q \in Requests PROVE CallSound(q)'
    <3>1. Informed(q)'
      BY <1>5 DEF Inv, CallSound, Informed, vars, worldVars, callVars
    <3> QED
      BY <1>5, <3>1, CallStable DEF Inv, vars, callVars
  <2> QED
    BY <2>1, <2>2 DEF Inv
<1> QED
  BY <1>1, <1>2, <1>4, <1>5 DEF Next

\* The invariant holds of every reachable state.
THEOREM InvHolds == Spec => []Inv
BY InitInv, NextInv, PTL DEF Spec

\* Calls, chains and the registry keep their types; the resolver never looks
\* past the end of a chain.
THEOREM TypeCorrect == Spec => []TypeOK
<1>1. Inv => TypeOK
  BY DEF Inv
<1> QED
  BY <1>1, InvHolds, PTL

\* For chains of any length and any registrations, publications and failing
\* queries between the resolver's questions, every token of an accepted
\* chain is signed with a key that was its issuer's during this very call
\* (resolver.go:67-84, 109-136).
THEOREM EveryHopIsSigned == Spec => []HopsSignedByTheirIssuers
<1>1. Inv => HopsSignedByTheirIssuers
  BY DEF Inv, CallSound, Checked, HopsResolved, Resolved, HopsSignedByTheirIssuers
<1> QED
  BY <1>1, InvHolds, PTL

\* For chains of any length, an accepted call lies inside the grant of every
\* token, each holder was named by the one before it, and the last holder is
\* this agent (service.go:145-213, reads.go:69-76).
THEOREM AuthorityNeverGrows == Spec => []AuthorityIsHandedOn
<1>1. Inv => AuthorityIsHandedOn
  <2> SUFFICES ASSUME Inv, NEW q \in Requests, outcome[q] = "accepted"
               PROVE  LET c == proof[q] IN
                      /\ \A i \in 2 .. Len(c) : c[i].iss = c[i - 1].aud /\ c[i].aud \in c[i - 1].to
                      /\ c # <<>> /\ c[Len(c)].aud = Agent
                      /\ \A i \in DOMAIN c :
                           /\ purpose[q].action \in c[i].actions
                           /\ purpose[q].sub # NoSub => purpose[q].sub \in c[i].subs
    BY DEF AuthorityIsHandedOn
  <2>1. /\ proof[q] # <<>> /\ Linked(proof[q]) /\ RedelegationAllowed(proof[q])
        /\ Granted(proof[q], purpose[q])
    BY DEF Inv, CallSound, Checked, Started
  <2>2. \A i \in DOMAIN proof[q] :
           /\ purpose[q].action \in proof[q][i].actions
           /\ purpose[q].sub # NoSub => purpose[q].sub \in proof[q][i].subs
    BY <2>1 DEF Granted, Effective
  <2> QED
    BY <2>1, <2>2 DEF Linked, RedelegationAllowed
<1> QED
  BY <1>1, InvHolds, PTL
=============================================================================
