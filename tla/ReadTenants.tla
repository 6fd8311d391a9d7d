---------------------------- MODULE ReadTenants -----------------------------
(***************************************************************************)
(* ReadTenantSource (src/internal/delegated/read_tenants.go): the bounded  *)
(* table of synthetic tenants that verified read credentials are admitted  *)
(* to, and that the policy engine looks up while the query tool runs.      *)
(* Between a handler's verification, its admission and its lookup other    *)
(* handlers admit, entries expire and sweeps run.  mu makes each of Admit  *)
(* and LookupTenantPolicy one action.                                      *)
(*                                                                         *)
(* A tenant id is the first eight bytes of the credential chain's hash;    *)
(* distinct credentials are taken to have distinct ids.                    *)
(* ReadPath, which composes this module with the root check, states what   *)
(* is assumed of the constants.                                            *)
(***************************************************************************)
EXTENDS Integers, FiniteSets

CONSTANTS
  Handlers,        \* the tool calls that may be in progress at once
  Creds,           \* credential chains, standing for their tenant ids too
  Expires,         \* [Creds -> Nat]: the leaf token's expiry
  maxReadTenants,  \* the table's cap
  MaxTime          \* bound: the clock stops here

Times == 0 .. MaxTime

VARIABLES
  clock,    \* what s.now() returns
  byID,     \* the table: the credentials that have an entry
  pc,       \* where each handler stands
  cred,     \* the credential each handler's call carries
  result,   \* what the policy engine's lookup gave each handler
  looked,   \* when each handler's lookup took place
  crowded   \* history: each handler's admission found the table full of
            \* live entries of other credentials

vars == <<clock, byID, pc, cred, result, looked, crowded>>

Labels  == {"idle", "check", "admit", "lookup"}
Results == {"none", "served", "unknown", "refused", "badArgs"}

Expired(c, t) == t >= Expires[c]
Live(t) == {c \in byID : ~Expired(c, t)}

-----------------------------------------------------------------------------
\* AuthorizeRead: verifyProof accepts a credential that has not expired yet,
\* and it grants the action of reads.
Verify(h) ==
  /\ pc[h] = "idle"
  /\ \E c \in Creds : ~Expired(c, clock) /\ cred' = [cred EXCEPT ![h] = c]
  /\ pc' = [pc EXCEPT ![h] = "check"]
  /\ result' = [result EXCEPT ![h] = "none"]
  /\ looked' = [looked EXCEPT ![h] = 0]
  /\ crowded' = [crowded EXCEPT ![h] = FALSE]
  /\ UNCHANGED <<clock, byID>>

\* AuthorizeRead ends the call with result r.
Refuse(h, r) ==
  /\ result' = [result EXCEPT ![h] = r]
  /\ pc' = [pc EXCEPT ![h] = "idle"]
  /\ UNCHANGED <<clock, byID, cred, looked, crowded>>

\* checkRootState passes the root of the credential, or AuthorizeRead ends.
RootChecked(h, ok) ==
  /\ pc[h] = "check"
  /\ IF ok THEN /\ pc' = [pc EXCEPT ![h] = "admit"]
                /\ UNCHANGED <<clock, byID, cred, result, looked, crowded>>
           ELSE Refuse(h, "refused")

\* pinArgsToPrincipal refuses the arguments (Dispatch models which).
PinRefuses(h) == pc[h] = "admit" /\ Refuse(h, "badArgs")

\* Mutant of sweepLocked: nothing is dropped.
SweepNothing(table, t) == table

\* Mutant of sweepLocked: an entry is dropped one second early.
SweepEarly(table, t) == {c \in table : ~Expired(c, t + 1)}

\* The table without its expired entries.
sweepLocked(table, t) == {c \in table : ~Expired(c, t)}

\* Mutant of Stored: a full table is not refused.
StoredUnbounded(table, c) == table \cup {c}

\* What Admit makes of the swept table: a new entry only below the cap.
Stored(table, c) ==
  IF c \notin table /\ Cardinality(table) >= maxReadTenants
    THEN table
    ELSE table \cup {c}

Admit(h) ==
  /\ pc[h] = "admit"
  /\ byID' = Stored(sweepLocked(byID, clock), cred[h])
  /\ crowded' = [crowded EXCEPT ![h] =
                   Cardinality(Live(clock) \ {cred[h]}) >= maxReadTenants]
  /\ pc' = [pc EXCEPT ![h] = "lookup"]
  /\ UNCHANGED <<clock, cred, result, looked>>

\* LookupTenantPolicy finds an entry that has not expired.
Resolves(c, t) == c \in byID /\ ~Expired(c, t)

\* The query tool asks the policy engine for the handler's tenant.
LookupTenantPolicy(h) ==
  /\ pc[h] = "lookup"
  /\ result' = [result EXCEPT ![h] = IF Resolves(cred[h], clock) THEN "served"
                                                                 ELSE "unknown"]
  /\ looked' = [looked EXCEPT ![h] = clock]
  /\ pc' = [pc EXCEPT ![h] = "idle"]
  /\ UNCHANGED <<clock, byID, cred, crowded>>

Tick ==
  /\ clock < MaxTime
  /\ clock' = clock + 1
  /\ UNCHANGED <<byID, pc, cred, result, looked, crowded>>

-----------------------------------------------------------------------------
Init ==
  /\ clock = 0
  /\ byID = {}
  /\ pc = [h \in Handlers |-> "idle"]
  /\ cred = [h \in Handlers |-> CHOOSE c \in Creds : TRUE]
  /\ result = [h \in Handlers |-> "none"]
  /\ looked = [h \in Handlers |-> 0]
  /\ crowded = [h \in Handlers |-> FALSE]

Next ==
  \/ Tick
  \/ \E h \in Handlers :
       \/ Verify(h)
       \/ \E ok \in BOOLEAN : RootChecked(h, ok)
       \/ PinRefuses(h)
       \/ Admit(h)
       \/ LookupTenantPolicy(h)

Spec == Init /\ [][Next]_vars

-----------------------------------------------------------------------------
TypeOK ==
  /\ clock \in Times
  /\ byID \subseteq Creds
  /\ pc \in [Handlers -> Labels]
  /\ cred \in [Handlers -> Creds]
  /\ result \in [Handlers -> Results]
  /\ looked \in [Handlers -> Times]
  /\ crowded \in [Handlers -> BOOLEAN]

\* The table never outgrows its cap, whatever credentials flood it
\* (read_tenants.go:33-37, 61-65).
TableBounded == IsFiniteSet(byID) /\ Cardinality(byID) <= maxReadTenants

\* A verified read is turned away only if its token expired on the way or
\* its admission found the cap taken by live credentials: neither another
\* handler's sweep nor an expired entry costs it its place
\* (read_tenants.go:50-97).
UnknownHasACause ==
  \A h \in Handlers :
    result[h] = "unknown" => crowded[h] \/ Expired(cred[h], looked[h])
=============================================================================
