--------------------------- MODULE Dispatch_proofs --------------------------
(***************************************************************************)
(* Proofs about Dispatch, for any number of concurrent calls,              *)
(* conversations, bearers and credential chains.                           *)
(***************************************************************************)
EXTENDS Dispatch, TLAPS

Tenants == [via : {"none", "bearer", "credential"},
            owner : Owners \cup {None},
            source : Bearers \cup Chains \cup {None}]

Args == [proof : Chains \cup {None, Malformed}, owner : Owners \cup {None, Malformed}]

Types ==
  /\ TypeOK
  /\ args \in [Calls -> Args]
  /\ tenant \in [Calls -> Tenants]
  /\ ran \in [Calls -> [tenant : Tenants, proof : Chains \cup {None, Malformed},
                        owner : Owners \cup {None, Malformed}, called : BOOLEAN]]

\* The bearer bound to a conversation was minted in it.
SessionsAreOwn ==
  \A x \in Contexts :
    sessions[x] # None => Minted(sessions[x]) /\ mintedIn[sessions[x]] = x

\* The credential side of a call: what holds from each step on.
CredentialInv(c) ==
  /\ pc[c] \in {"session", "tenant", "authorize", "inject", "call"} =>
       req[c].meta # Malformed /\ ~ran[c].called
  /\ pc[c] = "call" /\ req[c].meta # None => args[c].proof = req[c].meta
  /\ pc[c] \in {"idle", "begin", "parse"} => ~ran[c].called
  /\ pc[c] \in {"idle", "begin", "parse", "session", "tenant"} =>
       tenant[c].via = "none"
  /\ pc[c] = "authorize" => tenant[c].via # "credential"
  /\ tenant[c].via = "credential" =>
       /\ req[c].tool \in ReadTools /\ req[c].meta \in Verifiable
       /\ tenant[c].source = req[c].meta
       /\ args[c].owner = Principal[req[c].meta]
       /\ req[c].tool = "query" => EffectiveSub(req[c]) \in Granted[req[c].meta]
  /\ ran[c].called =>
       /\ pc[c] = "done"
       /\ req[c].meta # None => ran[c].proof = req[c].meta
       /\ ran[c].tenant = tenant[c] /\ ran[c].owner = args[c].owner
  /\ ~ran[c].called => ran[c].tenant.via = "none"

\* The bearer side: a presented bearer is one that was minted, Attach settles
\* on it, and while it lives the tenant is its own; otherwise the bearer is
\* the conversation's.
BearerInv(c) ==
  LET b == Presented(req[c]) IN
  /\ pc[c] # "idle" /\ b # None => Minted(b)
  /\ pc[c] \in {"tenant", "authorize", "inject", "call"} /\ b # None => bearer[c] = b
  /\ b = None /\ bearer[c] # None =>
       /\ req[c].context # None /\ Minted(bearer[c])
       /\ mintedIn[bearer[c]] = req[c].context
  /\ (pc[c] \in {"authorize", "inject", "call"} \/ ran[c].called) /\ b # None =>
       (LiveBearer(b) => tenant[c].source = b /\ tenant[c].via = "bearer")
  /\ tenant[c].via = "bearer" => tenant[c].source \in Bearers /\ tenant[c].source = bearer[c]
  /\ pc[c] \in {"idle", "begin", "parse", "session"} => bearer[c] = None

Inv == /\ Types /\ SessionsAreOwn
       /\ \A c \in Calls : CredentialInv(c) /\ BearerInv(c)

-----------------------------------------------------------------------------
\* The initial states satisfy the invariant.
LEMMA InitInv == Init => Inv
BY NoneAssumption
   DEF Init, Inv, Types, TypeOK, SessionsAreOwn, CredentialInv, BearerInv, Tenants, Args,
       NoRun, NoArgs, NoTenant, NoRequest, Presented, Labels

\* The fields of a request.
LEMMA RequestFields ==
  ASSUME Types, NEW c \in Calls
  PROVE  /\ req[c].header \in Bearers \cup {None}
         /\ req[c].envelope \in Bearers \cup {None}
         /\ req[c].context \in Contexts \cup {None}
         /\ req[c].meta \in Chains \cup {None, Malformed}
         /\ req[c].proof \in Chains \cup {None, Malformed}
         /\ req[c].owner \in Owners \cup {None, Malformed}
         /\ Presented(req[c]) \in Bearers \cup {None}
BY RequestsAssumption DEF Types, TypeOK, AllRequests, NoRequest, Presented

\* Changing one field of the args keeps their type.
LEMMA ArgsUpdate ==
  ASSUME args \in [Calls -> Args], NEW c \in Calls,
         NEW o \in Owners \cup {None, Malformed}, NEW p \in Chains \cup {None, Malformed}
  PROVE  /\ [args EXCEPT ![c].owner = o] \in [Calls -> Args]
         /\ [args EXCEPT ![c].proof = p] \in [Calls -> Args]
<1>1. /\ [args[c] EXCEPT !.owner = o] \in Args
      /\ [args[c] EXCEPT !.proof = p] \in Args
  BY DEF Args
<1> QED
  BY <1>1

\* A call's own steps leave the other calls' part of the invariant alone.
LEMMA OthersKeep ==
  ASSUME NEW c \in Calls, NEW d \in Calls, c # d, Inv,
         UNCHANGED <<pc[d], req[d], bearer[d], tenant[d], args[d], ran[d]>>,
         UNCHANGED stores
  PROVE  CredentialInv(d)' /\ BearerInv(d)'
BY DEF Inv, CredentialInv, BearerInv, stores, Minted, LiveBearer

\* So a step of call c alone needs its own part of the invariant only.
LEMMA LocalStep ==
  ASSUME NEW c \in Calls, Inv, UNCHANGED stores, Types',
         \A d \in Calls \ {c} :
           UNCHANGED <<pc[d], req[d], bearer[d], tenant[d], args[d], ran[d]>>,
         CredentialInv(c)', BearerInv(c)'
  PROVE  Inv'
<1>1. SessionsAreOwn'
  BY DEF Inv, SessionsAreOwn, stores, Minted
<1>2. ASSUME NEW d \in Calls PROVE CredentialInv(d)' /\ BearerInv(d)'
  BY OthersKeep
<1> QED
  BY <1>1, <1>2 DEF Inv

-----------------------------------------------------------------------------
\* The steps that leave the stores alone, one by one.
LEMMA ArriveInv == ASSUME NEW c \in Calls, Inv, Arrive(c) PROVE Inv'
<1>1. PICK r \in Requests :
        /\ r.header # None => Minted(r.header)
        /\ r.envelope # None => Minted(r.envelope)
        /\ req' = [req EXCEPT ![c] = r]
        /\ args' = [args EXCEPT ![c] = [proof |-> r.proof, owner |-> r.owner]]
  BY CrowdAssumption DEF Arrive, Arrivals
<1>2. r \in AllRequests
  BY RequestsAssumption
<1>3. Types'
  BY <1>1, <1>2 DEF Inv, Types, TypeOK, Args, Arrive, AllRequests, stores, Labels
<1>4. CredentialInv(c)'
  BY <1>1 DEF Inv, Types, TypeOK, Arrive, CredentialInv, Labels
<1>5. BearerInv(c)'
  BY <1>1 DEF Inv, Types, TypeOK, Arrive, BearerInv, CredentialInv, Presented, Minted, stores, Labels
<1> QED
  BY <1>1, <1>3, <1>4, <1>5, LocalStep DEF Arrive, Inv, Types, TypeOK

LEMMA BeginInv == ASSUME NEW c \in Calls, Inv, Begin(c) PROVE Inv'
<1> USE DEF Inv, Types, TypeOK, Begin, Reply, stores, locals, Labels
<1>1. Types' /\ CredentialInv(c)'
  BY DEF CredentialInv
<1>2. BearerInv(c)'
  BY DEF BearerInv, CredentialInv, Minted, LiveBearer
<1> QED
  BY <1>1, <1>2, LocalStep

LEMMA LeaveInv == ASSUME NEW c \in Calls, Inv, Leave(c) PROVE Inv'
<1> USE DEF Inv, Types, TypeOK, Leave, stores, Labels
<1>1. Types'
  BY DEF NoRun, NoArgs, NoTenant, Tenants, Args
<1>2. CredentialInv(c)' /\ BearerInv(c)'
  BY NoneAssumption DEF CredentialInv, BearerInv, NoRun, NoTenant, NoRequest, Presented
<1> QED
  BY <1>1, <1>2, LocalStep

LEMMA ParseInv == ASSUME NEW c \in Calls, Inv, Parse(c) PROVE Inv'
<1> USE DEF Inv, Types, TypeOK, Parse, Reply, stores, locals, Labels
<1>1. Types' /\ CredentialInv(c)'
  BY DEF CredentialInv, Refused
<1>2. BearerInv(c)'
  BY DEF BearerInv, CredentialInv, Minted, LiveBearer
<1> QED
  BY <1>1, <1>2, LocalStep

\* Attach picks the presented bearer, or the conversation's own.
LEMMA SessionLookupInv == ASSUME NEW c \in Calls, Inv, SessionLookup(c) PROVE Inv'
<1>1. Types'
  BY RequestFields DEF Inv, Types, TypeOK, SessionLookup, Bound, stores, Labels
<1>2. CredentialInv(c)'
  BY DEF Inv, Types, TypeOK, SessionLookup, CredentialInv, stores
<1>3. BearerInv(c)'
  BY RequestFields
     DEF Inv, Types, TypeOK, SessionLookup, BearerInv, CredentialInv, SessionsAreOwn,
         Bound, Minted, LiveBearer, stores
<1> QED
  BY <1>1, <1>2, <1>3, LocalStep DEF Inv, Types, TypeOK, SessionLookup

\* Attach resolves the bearer if it lives.
LEMMA TenantLookupInv == ASSUME NEW c \in Calls, Inv, TenantLookup(c) PROVE Inv'
<1>1. Types'
  BY DEF Inv, Types, TypeOK, TenantLookup, Tenants, NoTenant, LiveBearer, stores, Labels
<1>2. CredentialInv(c)'
  BY DEF Inv, Types, TypeOK, TenantLookup, CredentialInv, NoTenant, stores
<1>3. BearerInv(c)'
  BY DEF Inv, Types, TypeOK, TenantLookup, BearerInv, CredentialInv, NoTenant, Minted,
         LiveBearer, stores
<1> QED
  BY <1>1, <1>2, <1>3, LocalStep DEF Inv, Types, TypeOK, TenantLookup

\* A delegated read becomes the principal's only after the pins hold.
LEMMA AuthorizeReadInv == ASSUME NEW c \in Calls, Inv, AuthorizeRead(c) PROVE Inv'
<1>1. CASE Reply(c) /\ UNCHANGED <<args, tenant>>
  <2> USE <1>1 DEF Inv, Types, TypeOK, AuthorizeRead, Reply, stores, Labels
  <2>1. Types' /\ CredentialInv(c)'
    BY DEF CredentialInv
  <2>2. BearerInv(c)'
    BY DEF BearerInv, CredentialInv, Minted, LiveBearer
  <2> QED
    BY <2>1, <2>2, LocalStep
<1>2. CASE /\ req[c].meta \in Verifiable /\ Pins(req[c])
           /\ args' = [args EXCEPT ![c].owner = PinnedOwner(req[c])]
           /\ tenant' = [tenant EXCEPT ![c] =
                [via |-> "credential", owner |-> Principal[req[c].meta],
                 source |-> req[c].meta]]
           /\ pc' = [pc EXCEPT ![c] = "inject"]
  <2>1. req[c].meta \in Chains /\ Principal[req[c].meta] \in Owners
    BY <1>2, VerifiableAssumption, PrincipalAssumption
  <2>2. PinnedOwner(req[c]) = Principal[req[c].meta]
    BY <1>2, <2>1 DEF Pins, PinnedOwner
  <2>3. Types'
    <3>1. args' \in [Calls -> Args]
      BY <1>2, <2>1, <2>2, ArgsUpdate DEF Inv, Types
    <3>2. tenant' \in [Calls -> Tenants]
      BY <1>2, <2>1 DEF Inv, Types, Tenants
    <3> QED
      BY <1>2, <3>1, <3>2 DEF Inv, Types, TypeOK, AuthorizeRead, stores, Labels
  <2>4. CredentialInv(c)'
    BY <1>2, <2>1, <2>2
       DEF Inv, Types, TypeOK, AuthorizeRead, DelegatedRead, CredentialInv, Pins,
           EffectiveSub, stores
  <2>5. BearerInv(c)'
    BY <1>2
       DEF Inv, Types, TypeOK, AuthorizeRead, DelegatedRead, BearerInv, CredentialInv,
           Minted, LiveBearer, stores
  <2> QED
    BY <1>2, <2>3, <2>4, <2>5, LocalStep DEF Inv, Types, TypeOK, AuthorizeRead
<1> QED
  BY <1>1, <1>2 DEF AuthorizeRead

LEMMA NoDelegatedReadInv == ASSUME NEW c \in Calls, Inv, NoDelegatedRead(c) PROVE Inv'
<1> USE DEF Inv, Types, TypeOK, NoDelegatedRead, stores, locals, Labels
<1>1. Types' /\ CredentialInv(c)'
  BY DEF CredentialInv
<1>2. BearerInv(c)'
  BY DEF BearerInv, CredentialInv, Minted, LiveBearer
<1> QED
  BY <1>1, <1>2, LocalStep

\* After injectProof the args carry the chain of the metadata.
LEMMA InjectProofInv == ASSUME NEW c \in Calls, Inv, InjectProof(c) PROVE Inv'
<1>1. Types'
  <2>1. args' \in [Calls -> Args]
    <3>1. CASE args' = args
      BY <3>1 DEF Inv, Types
    <3>2. CASE req[c].meta # None /\ args' =
                 [args EXCEPT ![c].proof = IF args[c].proof = None THEN req[c].meta
                                                                   ELSE args[c].proof]
      <4>1. (IF args[c].proof = None THEN req[c].meta ELSE args[c].proof)
              \in Chains \cup {None, Malformed}
        BY RequestFields DEF Inv, Types, Args
      <4> QED
        BY <3>2, <4>1, ArgsUpdate DEF Inv, Types
    <3> QED
      BY <3>1, <3>2 DEF InjectProof
  <2> QED
    BY <2>1 DEF Inv, Types, TypeOK, InjectProof, Reply, stores, Labels
<1>2. CredentialInv(c)'
  BY DEF Inv, Types, TypeOK, Args, InjectProof, Reply, Agrees, CredentialInv, stores
<1>3. BearerInv(c)'
  BY DEF Inv, Types, TypeOK, InjectProof, Reply, BearerInv, CredentialInv, Minted,
         LiveBearer, stores
<1> QED
  BY <1>1, <1>2, <1>3, LocalStep DEF Inv, Types, TypeOK, InjectProof, Reply

LEMMA OpCallInv == ASSUME NEW c \in Calls, Inv, OpCall(c) PROVE Inv'
<1>1. Types'
  BY DEF Inv, Types, TypeOK, Args, OpCall, Run, Reply, stores, locals, Labels
<1>2. CredentialInv(c)'
  BY DEF Inv, Types, TypeOK, OpCall, Run, Reply, CredentialInv, stores, locals
<1>3. BearerInv(c)'
  BY DEF Inv, Types, TypeOK, OpCall, Run, Reply, BearerInv, CredentialInv, Minted,
         LiveBearer, stores, locals
<1> QED
  BY <1>1, <1>2, <1>3, LocalStep DEF Inv, Types, TypeOK, OpCall, Run, Reply, locals

LEMMA OpRefusesInv == ASSUME NEW c \in Calls, Inv, OpRefuses(c) PROVE Inv'
<1> USE DEF Inv, Types, TypeOK, OpRefuses, Reply, stores, locals, Labels
<1>1. Types' /\ CredentialInv(c)'
  BY DEF CredentialInv
<1>2. BearerInv(c)'
  BY DEF BearerInv, CredentialInv, Minted, LiveBearer
<1> QED
  BY <1>1, <1>2, LocalStep

-----------------------------------------------------------------------------
\* auth_verify mints a bearer nobody has seen and binds it to its own
\* conversation; calls in progress keep theirs.
LEMMA AuthVerifyInv == ASSUME NEW c \in Calls, Inv, AuthVerify(c) PROVE Inv'
<1>1. PICK b \in Bearers, o \in Owners :
        /\ ~Minted(b)
        /\ tenants' = [tenants EXCEPT ![b] = o]
        /\ mintedIn' = [mintedIn EXCEPT ![b] = req[c].context]
        /\ sessions' = IF req[c].context = None THEN sessions
                         ELSE [sessions EXCEPT ![req[c].context] = b]
  BY DEF AuthVerify
<1>2. o # None /\ b # None
  BY NoneAssumption
<1>3. /\ pc[c] = "call" /\ pc' = [pc EXCEPT ![c] = "done"]
      /\ UNCHANGED <<deployment, locals>> /\ Run(c)
  BY DEF AuthVerify, Reply
<1>4. Types'
  BY <1>1, <1>3, RequestFields DEF Inv, Types, TypeOK, Args, Run, locals, Labels
<1>5. \A b2 \in Bearers : /\ Minted(b2) => Minted(b2)' /\ mintedIn'[b2] = mintedIn[b2]
                          /\ Minted(b2) /\ LiveBearer(b2)' => LiveBearer(b2)
  BY <1>1, <1>2 DEF Inv, Types, TypeOK, Minted, LiveBearer
<1>6. SessionsAreOwn'
  BY <1>1, <1>2, <1>5, RequestFields DEF Inv, Types, TypeOK, SessionsAreOwn, Minted
<1>7. CredentialInv(c)'
  BY <1>3 DEF Inv, Types, TypeOK, Run, CredentialInv, locals
<1>8. BearerInv(c)'
  BY <1>3, <1>5, RequestFields
     DEF Inv, Types, TypeOK, Run, CredentialInv, BearerInv, locals
<1>9. ASSUME NEW d \in Calls, d # c PROVE CredentialInv(d)' /\ BearerInv(d)'
  <2>1. UNCHANGED <<pc[d], req[d], bearer[d], tenant[d], args[d], ran[d]>>
    BY <1>3, <1>9 DEF Inv, Types, TypeOK, Run, locals
  <2>2. CredentialInv(d)'
    BY <2>1 DEF Inv, CredentialInv
  <2>3. BearerInv(d)'
    BY <1>5, <2>1, RequestFields DEF Inv, Types, TypeOK, BearerInv, CredentialInv
  <2> QED
    BY <2>2, <2>3
<1> QED
  BY <1>4, <1>6, <1>7, <1>8, <1>9 DEF Inv

\* An expired bearer does not come back to life.
LEMMA BearerExpiresInv == ASSUME NEW b \in Bearers, Inv, BearerExpires(b) PROVE Inv'
<1>1. Types'
  BY DEF Inv, Types, TypeOK, BearerExpires, locals
<1>2. \A b2 \in Bearers : /\ Minted(b2) => Minted(b2)'
                          /\ LiveBearer(b2)' => LiveBearer(b2)
  BY NoneAssumption DEF Inv, Types, TypeOK, BearerExpires, Minted, LiveBearer
<1>3. SessionsAreOwn'
  BY <1>2 DEF Inv, Types, TypeOK, SessionsAreOwn, BearerExpires
<1>4. ASSUME NEW d \in Calls PROVE CredentialInv(d)' /\ BearerInv(d)'
  <2>1. CredentialInv(d)'
    BY DEF Inv, CredentialInv, BearerExpires, locals
  <2>2. BearerInv(d)'
    BY <1>2, RequestFields DEF Inv, Types, TypeOK, BearerInv, BearerExpires, locals
  <2> QED
    BY <2>1, <2>2
<1> QED
  BY <1>1, <1>3, <1>4 DEF Inv

LEMMA SessionExpiresInv == ASSUME NEW x \in Contexts, Inv, SessionExpires(x) PROVE Inv'
<1>1. Types' /\ SessionsAreOwn'
  BY DEF Inv, Types, TypeOK, SessionsAreOwn, SessionExpires, Minted, locals
<1>2. ASSUME NEW d \in Calls PROVE CredentialInv(d)' /\ BearerInv(d)'
  BY DEF Inv, CredentialInv, BearerInv, SessionExpires, Minted, LiveBearer, locals
<1> QED
  BY <1>1, <1>2 DEF Inv

\* Every step preserves the invariant.
LEMMA NextInv == Inv /\ [Next]_vars => Inv'
<1> SUFFICES ASSUME Inv, [Next]_vars PROVE Inv'
  OBVIOUS
<1>1. ASSUME NEW c \in Calls, Arrive(c) \/ Step(c) PROVE Inv'
  BY <1>1, ArriveInv, BeginInv, LeaveInv, ParseInv, SessionLookupInv, TenantLookupInv,
     AuthorizeReadInv, NoDelegatedReadInv, InjectProofInv, AuthVerifyInv, OpCallInv,
     OpRefusesInv DEF Step
<1>2. ASSUME NEW b \in Bearers, BearerExpires(b) PROVE Inv'
  BY <1>2, BearerExpiresInv
<1>3. ASSUME NEW x \in Contexts, SessionExpires(x) PROVE Inv'
  BY <1>3, SessionExpiresInv
<1>4. CASE UNCHANGED vars
  BY <1>4 DEF vars, stores, locals, Inv, Types, TypeOK, SessionsAreOwn, CredentialInv,
              BearerInv, Minted, LiveBearer
<1> QED
  BY <1>1, <1>2, <1>3, <1>4 DEF Next

-----------------------------------------------------------------------------
\* The invariant of the dispatch (executor.go:94-193; auth.go:34-57).
THEOREM InvHolds == Spec => []Inv
BY InitInv, NextInv, PTL DEF Spec

\* For any requests: an attached credential is what the operation gets
\* (delegation.go:35-103).
THEOREM CredentialNotDropped == Spec => []CredentialReachesTheTool
<1>1. Inv => CredentialReachesTheTool
  BY DEF Inv, CredentialInv, CredentialReachesTheTool
<1> QED
  BY <1>1, InvHolds, PTL

\* For any chains and grants: what runs as a principal is a covered query
\* inside the grant of the chain that the tool gets (reads.go:60-164).
THEOREM GrantRespected == Spec => []ReadsStayInsideTheGrant
<1>1. Inv => ReadsStayInsideTheGrant
  BY VerifiableAssumption, NoneAssumption
     DEF Inv, CredentialInv, EffectiveSub, ReadsStayInsideTheGrant
<1> QED
  BY <1>1, InvHolds, PTL

\* Whatever expires meanwhile: a live bearer decides the tenant
\* (executor.go:154-159).
THEOREM BearerDecides == Spec => []BearerKeepsItsTenant
<1>1. Inv => BearerKeepsItsTenant
  BY DEF Inv, CredentialInv, BearerInv, BearerKeepsItsTenant
<1> QED
  BY <1>1, InvHolds, PTL

\* However conversations are rebound: a call without a bearer gets its own
\* conversation's (auth.go:46-48).
THEOREM ConversationsSeparate == Spec => []ConversationsAreSeparate
<1>1. Inv => ConversationsAreSeparate
  BY NoneAssumption DEF Inv, Types, CredentialInv, BearerInv, ConversationsAreSeparate
<1> QED
  BY <1>1, InvHolds, PTL
=============================================================================
