------------------------------ MODULE ReadPath ------------------------------
(***************************************************************************)
(* A delegated read from end to end: AuthorizeRead (reads.go) verifies the *)
(* credential, checkRootState consults the cache of root states or the     *)
(* chain, Admit gives the credential a tenant and the query tool looks the *)
(* tenant up.  RootStateCache and ReadTenants on one clock, composed in    *)
(* the order of the code: a request is inside checkRootState while its     *)
(* handler is at "check".                                                  *)
(***************************************************************************)
EXTENDS RootStateCache

CONSTANTS
  Creds,           \* credential chains, standing for their tenant ids too
  Expires,         \* [Creds -> Nat]: the leaf token's expiry
  maxReadTenants,  \* the table's cap
  RootOf           \* [Creds -> Credentials]: the root and epoch a credential
                   \* was minted for

ASSUME CredsAssumption == Creds # {}
ASSUME ExpiresAssumption == Expires \in [Creds -> Nat]
ASSUME CapAssumption == maxReadTenants \in Nat \ {0}
ASSUME RootOfAssumption == RootOf \in [Creds -> Credentials]

VARIABLES
  byID,     \* the table: the credentials that have an entry
  tpc,      \* where each handler stands
  tcred,    \* the credential each handler's call carries
  result,   \* what the policy engine's lookup gave each handler
  looked,   \* when each handler's lookup took place
  crowded   \* history: each handler's admission found the cap taken

tenantVars == <<byID, tpc, tcred, result, looked, crowded>>
pathVars   == <<vars, tenantVars>>

Table == INSTANCE ReadTenants WITH Handlers <- Requests, pc <- tpc, cred <- tcred

-----------------------------------------------------------------------------
\* Mutant of Begin: a credential that still has a tenant is not checked again.
BeginUnlessAdmitted(h) ==
  \/ Table!Verify(h) /\ Call(h) /\ cred'[h] = RootOf[tcred'[h]]
  \/ /\ tpc[h] = "idle"
     /\ \E c \in Table!Live(clock) : tcred' = [tcred EXCEPT ![h] = c]
     /\ tpc' = [tpc EXCEPT ![h] = "admit"]
     /\ result' = [result EXCEPT ![h] = "none"]
     /\ UNCHANGED <<byID, looked, crowded, vars>>

\* The credential is verified and checkRootState called for its root.
Begin(h) ==
  /\ Table!Verify(h)
  /\ Call(h)
  /\ cred'[h] = RootOf[tcred'[h]]

\* A step inside checkRootState.
InCheck(h) ==
  /\ Lookup(h) \/ Ask(h) \/ Serve(h) \/ Receive(h) \/ Store(h)
  /\ UNCHANGED tenantVars

\* checkRootState returns to AuthorizeRead.
EndCheck(h) ==
  /\ Decide(h) \/ Fail(h)
  /\ Table!RootChecked(h, verdict'[h] = "ok")

\* With the root checked: arguments, admission and lookup.
Proceed(h) ==
  /\ Table!PinRefuses(h) \/ Table!Admit(h) \/ Table!LookupTenantPolicy(h)
  /\ UNCHANGED vars

\* The chain's own steps, and the clock both components read.
Root(r) ==
  /\ Pause(r) \/ Resume(r) \/ NewEpoch(r) \/ Remove(r)
  /\ UNCHANGED tenantVars

PathTick == Tick /\ Table!Tick

PathInit == Init /\ Table!Init

PathNext ==
  \/ PathTick
  \/ \E r \in Roots : Root(r)
  \/ \E h \in Requests : Begin(h) \/ InCheck(h) \/ EndCheck(h) \/ Proceed(h)

PathSpec == PathInit /\ [][PathNext]_pathVars

-----------------------------------------------------------------------------
\* The table never outgrows its cap, whatever credentials flood it
\* (read_tenants.go:33-37, 61-65).
TableBounded == Table!TableBounded

\* A verified read is turned away only if its token expired on the way or
\* its admission found the cap taken by live credentials: neither another
\* handler's sweep nor an expired entry costs it its place
\* (read_tenants.go:50-97).
UnknownHasACause == Table!UnknownHasACause

\* An admitted credential keeps its place until it expires: no flood of
\* others pushes it out (read_tenants.go:61-65, 90-97).
LiveTenantStays == [][Table!Live(clock) \subseteq byID']_pathVars

\* The whole of what guards a delegated read: it is served only on its own
\* call's root check, made before the lookup, which rests on a state of the
\* chain that honoured the credential less than TTL + QueryTimeout seconds
\* before it was judged.  A tenant left in the table by an earlier call
\* carries nothing over (reads.go:60-81, executor.go:159-170).
ServedReadIsAuthorised ==
  \A h \in Requests :
    result[h] = "served" =>
      /\ verdict[h] = "ok"
      /\ cred[h] = RootOf[tcred[h]]
      /\ judged[h] - held[cred[h].root][cred[h].epoch] < TTL + QueryTimeout
      /\ judged[h] <= looked[h]
=============================================================================
