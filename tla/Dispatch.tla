------------------------------ MODULE Dispatch ------------------------------
(***************************************************************************)
(* How a request finds its identity: Execute and handle                    *)
(* (src/internal/a2aserver/executor.go), Attach (auth.go), injectProof     *)
(* (delegation.go), AuthorizeRead and pinArgsToPrincipal                   *)
(* (src/internal/delegated/reads.go).  A call may carry a bearer in the    *)
(* Authorization header or the envelope, be part of a conversation that    *)
(* auth_verify bound a bearer to, and carry a credential chain in its      *)
(* metadata, its args, or both.  Between the steps of a call others run,   *)
(* auth_verify rebinds conversations and bearers expire.                   *)
(*                                                                         *)
(* The caches and the table behind AuthorizeRead and Admit have modules of *)
(* their own (ParamsCache, RootStateCache, ReadTenants); here they decide  *)
(* yes or no.  The bearer and session stores and the tool handlers belong  *)
(* to svpchain-mcp and are modelled by how this code uses them.            *)
(***************************************************************************)
EXTENDS Integers

CONSTANTS
  Calls,      \* the requests that may be in progress at once
  Contexts,   \* A2A context ids
  Bearers,    \* bearers auth_verify may mint
  Chains,     \* credential chains
  Verifiable, \* those of them that verify and grant query.account
  Owners,     \* account addresses
  Principal,  \* [Chains -> Owners]: the account a chain speaks for
  Granted,    \* [Chains -> SUBSET Subaccounts]: its subaccount caveat
  Requests,   \* the requests that may arrive
  Crowd,      \* bound: those of them that may be in progress at once
  None,       \* an absent field
  Malformed   \* a field that is there and does not decode

Subaccounts == {0, 1}
Deployments == {"readOnly", "keyless", "full"}

\* The legacy query form; an envelope that names no registered tool of the
\* skill; one that does.
Forms == {"notJSON", "noSkill", "legacy", "noOp", "op"}

\* A query of readSpecs with a subaccount argument, and the one without; any
\* other tool that wants a tenant; a delegated execution; auth_verify; any
\* tool that asks for nothing.
Tools == {"query", "balance", "gated", "execute", "auth_verify", "open"}

\* The tools readSpecs covers.
ReadTools == {"query", "balance"}

AllRequests ==
  [form : Forms, tool : Tools,
   header : Bearers \cup {None}, envelope : Bearers \cup {None},
   context : Contexts \cup {None},
   meta : Chains \cup {None, Malformed},
   proof : Chains \cup {None, Malformed},
   owner : Owners \cup {None, Malformed},
   sub : Subaccounts \cup {None}]

ASSUME RequestsAssumption == Requests \subseteq AllRequests
ASSUME CrowdAssumption == Crowd \subseteq Requests
ASSUME VerifiableAssumption == Verifiable \subseteq Chains
ASSUME PrincipalAssumption == Principal \in [Chains -> Owners]
ASSUME GrantedAssumption == Granted \in [Chains -> SUBSET Subaccounts]
ASSUME NoneAssumption ==
  /\ None \notin Bearers \cup Contexts \cup Chains \cup Owners \cup Subaccounts
  /\ Malformed \notin Chains \cup Owners
  /\ None # Malformed

\* TenantContext, with where it came from: the bearer or the chain.
NoTenant == [via |-> "none", owner |-> None, source |-> None]

VARIABLES
  deployment, \* read-only, without an operator key, or full
  tenants,    \* DynamicTenantStore: each bearer's owner; None before it is
              \* minted, Malformed once it has expired
  sessions,   \* SessionBearers: the bearer bound to each context id
  pc,         \* where each call stands
  req,        \* its request
  bearer,     \* the bearer Attach settled on
  tenant,     \* the tenant in the call's context
  args,       \* the args as they stand: proof and owner
  ran,        \* what the operation was called with, if it was
  mintedIn    \* history: the conversation each bearer was minted in

stores == <<tenants, sessions, mintedIn>>
locals == <<req, bearer, tenant, args>>
vars == <<deployment, stores, pc, locals, ran>>

Labels == {"idle", "begin", "parse", "session", "tenant", "authorize", "inject",
           "call", "done"}
NoRequest == [form |-> "op", tool |-> "query", header |-> None, envelope |-> None,
              context |-> None, meta |-> None, proof |-> None, owner |-> None,
              sub |-> None]
NoArgs == [proof |-> None, owner |-> None]
NoRun == [tenant |-> NoTenant, proof |-> None, owner |-> None, called |-> FALSE]

Minted(b) == tenants[b] # None
LiveBearer(b) == tenants[b] \in Owners

-----------------------------------------------------------------------------
Others(c) == {d \in Calls \ {c} : pc[d] # "idle"}

\* What may arrive beside the calls in progress (Crowd = Requests: anything).
Arrivals(c) ==
  IF Others(c) = {} THEN Requests
  ELSE {r \in Crowd : \A d \in Others(c) : req[d] \in Crowd}

\* A message arrives.  A made-up bearer fares like an expired one.
Arrive(c) ==
  /\ pc[c] = "idle"
  /\ \E r \in Arrivals(c) :
       /\ r.header # None => Minted(r.header)
       /\ r.envelope # None => Minted(r.envelope)
       /\ req' = [req EXCEPT ![c] = r]
       /\ args' = [args EXCEPT ![c] = [proof |-> r.proof, owner |-> r.owner]]
  /\ pc' = [pc EXCEPT ![c] = "begin"]
  /\ UNCHANGED <<deployment, stores, bearer, tenant, ran>>

\* The task is answered, with a result or with the reason of a refusal.
Reply(c) == pc' = [pc EXCEPT ![c] = "done"]

\* The request's goroutine is gone, and its locals with it.
Leave(c) ==
  /\ pc[c] = "done"
  /\ pc' = [pc EXCEPT ![c] = "idle"]
  /\ req' = [req EXCEPT ![c] = NoRequest]
  /\ args' = [args EXCEPT ![c] = NoArgs]
  /\ bearer' = [bearer EXCEPT ![c] = None]
  /\ tenant' = [tenant EXCEPT ![c] = NoTenant]
  /\ ran' = [ran EXCEPT ![c] = NoRun]
  /\ UNCHANGED <<deployment, stores>>

\* Execute announces the task; a consumer that has gone ends it here.
Begin(c) ==
  /\ pc[c] = "begin"
  /\ Reply(c) \/ pc' = [pc EXCEPT ![c] = "parse"]
  /\ UNCHANGED <<deployment, stores, locals, ran>>

\* handle turns a request away before it looks at who sent it.
Refused(r) ==
  \/ r.form \in {"notJSON", "noSkill"}
  \/ r.meta = Malformed
  \/ r.form # "legacy" /\ deployment = "readOnly"
  \/ r.form = "noOp"

\* handle up to the registered operation; a legacy query is answered at once.
Parse(c) ==
  /\ pc[c] = "parse"
  /\ \/ (Refused(req[c]) \/ req[c].form = "legacy") /\ Reply(c)
     \/ /\ ~Refused(req[c]) /\ req[c].form = "op"
        /\ pc' = [pc EXCEPT ![c] = "session"]
  /\ UNCHANGED <<deployment, stores, locals, ran>>

-----------------------------------------------------------------------------
\* The bearer the message itself carries.
Presented(r) == IF r.header # None THEN r.header ELSE r.envelope

\* Mutant of Bound: the bearer of any conversation will do.
BoundAnywhere(x) ==
  IF \E y \in Contexts : sessions[y] # None
    THEN sessions[CHOOSE y \in Contexts : sessions[y] # None]
    ELSE None

\* SessionBearers.Lookup
Bound(x) == IF x = None THEN None ELSE sessions[x]

\* Attach, first half: header, then envelope, then the conversation.
SessionLookup(c) ==
  /\ pc[c] = "session"
  /\ bearer' = [bearer EXCEPT ![c] =
       IF Presented(req[c]) # None THEN Presented(req[c]) ELSE Bound(req[c].context)]
  /\ pc' = [pc EXCEPT ![c] = "tenant"]
  /\ UNCHANGED <<deployment, stores, req, tenant, args, ran>>

\* Attach, second half: the bearer's tenant, if it still has one.
TenantLookup(c) ==
  /\ pc[c] = "tenant"
  /\ tenant' = [tenant EXCEPT ![c] =
       IF bearer[c] # None /\ LiveBearer(bearer[c])
         THEN [via |-> "bearer", owner |-> tenants[bearer[c]], source |-> bearer[c]]
         ELSE NoTenant]
  /\ pc' = [pc EXCEPT ![c] = "authorize"]
  /\ UNCHANGED <<deployment, stores, req, bearer, args, ran>>

-----------------------------------------------------------------------------
\* Mutant of DelegatedRead: a credential outranks the bearer.
DelegatedReadAlways(c) ==
  req[c].meta # None /\ deployment = "full" /\ req[c].tool \in ReadTools

\* A covered query with a credential and no tenant is a delegated read.
DelegatedRead(c) ==
  /\ req[c].meta # None /\ deployment = "full" /\ req[c].tool \in ReadTools
  /\ tenant[c].via = "none"

\* The subaccount a query is about: absent is 0, as the handlers read it.
EffectiveSub(r) == IF r.sub = None THEN 0 ELSE r.sub

\* Mutant of Pins: an explicit owner is left to the handler.
PinsDefault(r) ==
  /\ r.owner # Malformed
  /\ r.tool = "query" => EffectiveSub(r) \in Granted[r.meta]

\* pinArgsToPrincipal accepts the args.
Pins(r) ==
  /\ r.owner \in {None, Principal[r.meta]}
  /\ r.tool = "query" => EffectiveSub(r) \in Granted[r.meta]

\* The owner argument pinArgsToPrincipal leaves behind.
PinnedOwner(r) == IF r.owner = None THEN Principal[r.meta] ELSE r.owner

\* AuthorizeRead and Admit.  It may refuse any credential: a chain query
\* fails, the root is paused, the token expires.
AuthorizeRead(c) ==
  /\ pc[c] = "authorize" /\ DelegatedRead(c)
  /\ LET r == req[c] IN
     \/ /\ r.meta \in Verifiable /\ Pins(r)
        /\ args' = [args EXCEPT ![c].owner = PinnedOwner(r)]
        /\ tenant' = [tenant EXCEPT ![c] =
             [via |-> "credential", owner |-> Principal[r.meta], source |-> r.meta]]
        /\ pc' = [pc EXCEPT ![c] = "inject"]
     \/ Reply(c) /\ UNCHANGED <<args, tenant>>
  /\ UNCHANGED <<deployment, stores, req, bearer, ran>>

NoDelegatedRead(c) ==
  /\ pc[c] = "authorize" /\ ~DelegatedRead(c)
  /\ pc' = [pc EXCEPT ![c] = "inject"]
  /\ UNCHANGED <<deployment, stores, locals, ran>>

\* Mutant of Agrees: a proof in the args takes precedence.
AgreesAnyway(p, m) == p # Malformed

\* injectProof accepts a proof in the args beside the one in the metadata.
Agrees(p, m) == p \in {None, m}

InjectProof(c) ==
  /\ pc[c] = "inject"
  /\ LET m == req[c].meta
         p == args[c].proof IN
     \/ m = None /\ pc' = [pc EXCEPT ![c] = "call"] /\ UNCHANGED args
     \/ m # None /\ ~Agrees(p, m) /\ Reply(c) /\ UNCHANGED args
     \/ /\ m # None /\ Agrees(p, m)
        /\ args' = [args EXCEPT ![c].proof = IF p = None THEN m ELSE p]
        /\ pc' = [pc EXCEPT ![c] = "call"]
  /\ UNCHANGED <<deployment, stores, req, bearer, tenant, ran>>

-----------------------------------------------------------------------------
\* The operation runs with what the call has gathered.
Run(c) ==
  ran' = [ran EXCEPT ![c] = [tenant |-> tenant[c], proof |-> args[c].proof,
                             owner |-> args[c].owner, called |-> TRUE]]

\* op.Call of auth_verify: a bearer is minted for the signer and bound to the
\* conversation.
AuthVerify(c) ==
  /\ pc[c] = "call" /\ req[c].tool = "auth_verify"
  /\ \E b \in Bearers, o \in Owners :
       /\ ~Minted(b)
       /\ tenants' = [tenants EXCEPT ![b] = o]
       /\ mintedIn' = [mintedIn EXCEPT ![b] = req[c].context]
       /\ sessions' = IF req[c].context = None THEN sessions
                        ELSE [sessions EXCEPT ![req[c].context] = b]
  /\ Run(c)
  /\ Reply(c)
  /\ UNCHANGED <<deployment, locals>>

\* op.Call of any other tool whose args decode and whose own gate is open: a
\* tenant, or for delegated execution an operator key and a proof.
OpCall(c) ==
  /\ pc[c] = "call"
  /\ req[c].tool \in ReadTools \cup {"gated"} => tenant[c].via # "none"
  /\ req[c].tool \in ReadTools => args[c].owner # Malformed
  /\ req[c].tool = "execute" => deployment = "full" /\ args[c].proof \in Chains
  /\ req[c].tool # "auth_verify"
  /\ Run(c)
  /\ Reply(c)
  /\ UNCHANGED <<deployment, stores, locals>>

\* op.Call refuses: its gate is shut, the args do not decode, or the handler
\* has reasons of its own.
OpRefuses(c) ==
  /\ pc[c] = "call"
  /\ Reply(c)
  /\ UNCHANGED <<deployment, stores, locals, ran>>

-----------------------------------------------------------------------------
\* A bearer's TTL passes; the session store has a TTL of its own.
BearerExpires(b) ==
  /\ LiveBearer(b)
  /\ tenants' = [tenants EXCEPT ![b] = Malformed]
  /\ UNCHANGED <<deployment, sessions, mintedIn, pc, locals, ran>>

SessionExpires(x) ==
  /\ sessions[x] # None
  /\ sessions' = [sessions EXCEPT ![x] = None]
  /\ UNCHANGED <<deployment, tenants, mintedIn, pc, locals, ran>>

Init ==
  /\ deployment \in Deployments
  /\ tenants = [b \in Bearers |-> None]
  /\ mintedIn = [b \in Bearers |-> None]
  /\ sessions = [x \in Contexts |-> None]
  /\ pc = [c \in Calls |-> "idle"]
  /\ req = [c \in Calls |-> NoRequest]
  /\ bearer = [c \in Calls |-> None]
  /\ tenant = [c \in Calls |-> NoTenant]
  /\ args = [c \in Calls |-> NoArgs]
  /\ ran = [c \in Calls |-> NoRun]

Step(c) ==
  \/ Begin(c) \/ Parse(c) \/ SessionLookup(c) \/ TenantLookup(c)
  \/ AuthorizeRead(c) \/ NoDelegatedRead(c) \/ InjectProof(c)
  \/ AuthVerify(c) \/ OpCall(c) \/ OpRefuses(c) \/ Leave(c)

Next ==
  \/ \E c \in Calls : Arrive(c) \/ Step(c)
  \/ \E b \in Bearers : BearerExpires(b)
  \/ \E x \in Contexts : SessionExpires(x)

Spec == Init /\ [][Next]_vars

-----------------------------------------------------------------------------
TypeOK ==
  /\ deployment \in Deployments
  /\ tenants \in [Bearers -> Owners \cup {None, Malformed}]
  /\ sessions \in [Contexts -> Bearers \cup {None}]
  /\ mintedIn \in [Bearers -> Contexts \cup {None}]
  /\ pc \in [Calls -> Labels]
  /\ req \in [Calls -> Requests \cup {NoRequest}]
  /\ bearer \in [Calls -> Bearers \cup {None}]

\* A credential in the metadata is never dropped and never exchanged: an
\* operation that runs gets that chain as its proof, whatever the args carry,
\* and one whose attachment does not decode does not run
\* (delegation.go:31-34, 66-71; executor.go:106-109).
CredentialReachesTheTool ==
  \A c \in Calls :
    ran[c].called /\ req[c].meta # None => ran[c].proof = req[c].meta

\* What a credential authenticates stays inside its grant: a call that runs
\* as a chain's principal is a covered query of that principal's account, on
\* a granted subaccount where it has one, by a chain that verified
\* (reads.go:60-81, 116-164; executor.go:159-178).
ReadsStayInsideTheGrant ==
  \A c \in Calls :
    ran[c].called /\ ran[c].tenant.via = "credential" =>
      /\ req[c].tool \in ReadTools
      /\ ran[c].tenant.source \in Verifiable
      /\ ran[c].tenant.source = ran[c].proof
      /\ ran[c].owner = Principal[ran[c].proof]
      /\ req[c].tool = "query" => EffectiveSub(req[c]) \in Granted[ran[c].proof]

\* A caller that presents a bearer and a credential keeps the bearer's tenant
\* for as long as the bearer lives, whatever expires or is rebound around it
\* (executor.go:154-159; auth.go:42-56).
BearerKeepsItsTenant ==
  \A c \in Calls :
    LET b == Presented(req[c]) IN
    ran[c].called /\ b # None /\ LiveBearer(b) => ran[c].tenant.source = b

\* A call that presents no bearer runs as a tenant only through its own
\* conversation: the bearer was minted by an auth_verify on the same context
\* id, however often conversations are rebound meanwhile (auth.go:46-48).
ConversationsAreSeparate ==
  \A c \in Calls :
    ran[c].tenant.via = "bearer" /\ Presented(req[c]) = None =>
      /\ req[c].context # None
      /\ mintedIn[ran[c].tenant.source] = req[c].context
=============================================================================
