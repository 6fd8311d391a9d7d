-------------------------- MODULE CallerTx_proofs ---------------------------
(***************************************************************************)
(* Proofs about CallerTx, for any number of concurrent calls, tenants,     *)
(* owners, tools and payloads: nobody lands a transaction for anybody      *)
(* else, a payload fits the chain it was built for, and a withdrawn tenant *)
(* gets nothing.                                                           *)
(***************************************************************************)
EXTENDS CallerTx, TLAPS

\* A payload of this service names its builder's owner, the agent chain and
\* the sequence that was read there, which the account has not gone back from.
Sound(p) ==
  /\ p.owner = OwnerOf[p.builder]
  /\ p.chain = AgentChain
  /\ p.sequence = p.read
  /\ p.read <= check[AgentChain][p.owner]

\* Committed state never runs ahead of CheckTx.
CommittedBehind ==
  \A ch \in Chains, o \in Owners : committed[ch][o] <= check[ch][o]

PayloadsSound == \A p \in payloads : Sound(p)

\* What a call carries was built here, and is one transaction at most.
SignedSound(c) ==
  /\ \A tx \in call[c].signed : Sound(tx.payload)
  /\ \A s, t \in call[c].signed : s = t

\* How far the call has come: it has no outcome before it ends, only a rail
\* decodes and broadcasts, and a broadcast has been pinned to its signer.
Progress(c) ==
  /\ out[c] # "none" => pc[c] = "done"
  /\ pc[c] \in {"decode", "broadcast"} => call[c].tool \in Rails
  /\ pc[c] = "broadcast" => \A tx \in call[c].signed : Pins(c, tx)

\* The points past CheckTenant.
Authorized == {"tenant", "parse", "account", "query", "decode", "broadcast"}

\* A call past CheckTenant began while its tenant was live, because a tenant
\* that is not live never is again.
Standing(c) ==
  /\ pc[c] \in Authorized => call[c].live
  /\ pc[c] # "idle" /\ ~call[c].live => standing[call[c].tenant] # "live"

\* The three properties, of one call.
OwnTransaction(c) ==
  out[c] = "accepted" =>
    \A tx \in call[c].signed :
      /\ tx.key = OwnerOf[call[c].tenant]
      /\ tx.payload.owner = tx.key
      /\ OwnerOf[tx.payload.builder] = tx.key
Fits(c) ==
  \A tx \in call[c].signed :
    IF RailChain(call[c].tool) = AgentChain
      THEN /\ out[c] # "wrongChain"
           /\ out[c] = "wrongSequence" =>
                check[AgentChain][tx.payload.owner] > tx.payload.read
      ELSE out[c] # "accepted"
GetsNothing(c) == out[c] \in Given => call[c].live

CallSound(c) ==
  /\ SignedSound(c)
  /\ Progress(c)
  /\ Standing(c)
  /\ OwnTransaction(c)
  /\ Fits(c)
  /\ GetsNothing(c)

Inv ==
  /\ TypeOK
  /\ CommittedBehind
  /\ PayloadsSound
  /\ \A c \in Calls : CallSound(c)

-----------------------------------------------------------------------------
LEMMA NoCallType == NoCall \in CallRecords
BY SomeAssumption DEF NoCall, CallRecords

LEMMA AgentChainType == AgentChain \in Chains
BY DEF AgentChain, Chains

\* The initial states satisfy the invariant.
LEMMA InitInv == Init => Inv
<1> SUFFICES ASSUME Init PROVE Inv
  OBVIOUS
<1>1. TypeOK
  BY NoCallType, BoundsAssumption DEF Init, TypeOK, Labels, Outs
<1>2. CommittedBehind /\ PayloadsSound
  BY DEF Init, CommittedBehind, PayloadsSound
<1>3. ASSUME NEW c \in Calls PROVE CallSound(c)
  BY DEF Init, CallSound, SignedSound, Progress, Standing, OwnTransaction, Fits,
     GetsNothing, Given, Authorized, NoCall
<1> QED
  BY <1>1, <1>2, <1>3 DEF Inv

\* The sequences only advance, the deployment stays what it is and tenants
\* are only withdrawn.
Onward ==
  /\ split' = split
  /\ check \in [Chains -> [Owners -> Nat]]
  /\ check' \in [Chains -> [Owners -> Nat]]
  /\ \A ch \in Chains, o \in Owners : check[ch][o] <= check'[ch][o]
  /\ \A t \in Tenants : standing'[t] = "live" => standing[t] = "live"

\* A payload stays sound while the world moves on.
LEMMA SoundStable ==
  ASSUME Onward, NEW p \in Payloads, Sound(p)
  PROVE  Sound(p)'
<1>1. AgentChain' = AgentChain
  BY DEF Onward, AgentChain
<1>2. p.owner \in Owners /\ p.read \in Int
  BY BoundsAssumption DEF Payloads
<1>3. /\ check[AgentChain][p.owner] <= check'[AgentChain][p.owner]
      /\ check[AgentChain][p.owner] \in Int /\ check'[AgentChain][p.owner] \in Int
  BY <1>2, AgentChainType DEF Onward
<1>4. p.read <= check[AgentChain][p.owner]
  BY DEF Sound
<1>5. p.read <= check'[AgentChain][p.owner]
  BY <1>2, <1>3, <1>4
<1> QED
  BY <1>1, <1>5 DEF Sound

\* So does a call that does not move itself.
LEMMA CallStable ==
  ASSUME TypeOK, Onward, NEW c \in Calls, CallSound(c),
         pc'[c] = pc[c], call'[c] = call[c], out'[c] = out[c]
  PROVE  CallSound(c)'
<1>1. call[c] \in CallRecords /\ \A tx \in call[c].signed : tx.payload \in Payloads
  BY DEF TypeOK, CallRecords, SignedTxs
<1>2. SignedSound(c)'
  BY <1>1, SoundStable DEF CallSound, SignedSound
<1>3. Progress(c)' /\ OwnTransaction(c)' /\ GetsNothing(c)'
  BY DEF CallSound, Progress, OwnTransaction, GetsNothing, Pins, owner
<1>4. Standing(c)'
  BY <1>1 DEF CallSound, Standing, Onward, CallRecords
<1>5. Fits(c)'
  <2> SUFFICES ASSUME NEW tx \in call[c].signed
               PROVE  IF RailChain(call[c].tool) = AgentChain
                        THEN /\ out[c] # "wrongChain"
                             /\ out[c] = "wrongSequence" =>
                                  check'[AgentChain][tx.payload.owner] > tx.payload.read
                        ELSE out[c] # "accepted"
    BY DEF Fits, Onward, AgentChain, RailChain
  <2>1. tx.payload.owner \in Owners /\ tx.payload.read \in Int
    BY <1>1, BoundsAssumption DEF Payloads
  <2>2. /\ check[AgentChain][tx.payload.owner] <= check'[AgentChain][tx.payload.owner]
        /\ check[AgentChain][tx.payload.owner] \in Int
        /\ check'[AgentChain][tx.payload.owner] \in Int
    BY <2>1, AgentChainType DEF Onward
  <2> QED
    BY <2>1, <2>2 DEF CallSound, Fits
<1> QED
  BY <1>2, <1>3, <1>4, <1>5 DEF CallSound

-----------------------------------------------------------------------------
\* Every action leaves the types alone.
LEMMA TypeStep == TypeOK /\ [Next]_vars => TypeOK'
<1> SUFFICES ASSUME TypeOK, [Next]_vars PROVE TypeOK'
  OBVIOUS
<1> USE BoundsAssumption
<1>1. ASSUME NEW c \in Calls, NEW t \in Tenants, NEW u \in Tools, NEW f \in SUBSET Fields,
             NEW s \in SUBSET SignedTxs, Begin(c, t, u, f, s)
      PROVE  TypeOK'
  <2>1. [tenant |-> t, tool |-> u, faults |-> f, signed |-> s,
         live |-> standing[t] = "live"] \in CallRecords
    BY DEF CallRecords
  <2> QED
    BY <1>1, <2>1 DEF TypeOK, Begin, Goto, chainVars, Labels
<1>2. ASSUME NEW c \in Calls, Call(c) PROVE TypeOK'
  BY <1>1, <1>2, FaultsAssumption DEF Call
<1>3. ASSUME NEW c \in Calls, Submit(c) PROVE TypeOK'
  <2>1. ASSUME NEW p \in payloads, NEW k \in Owners
        PROVE  {[payload |-> p, key |-> k]} \in SUBSET SignedTxs
    BY DEF SignedTxs, TypeOK
  <2> QED
    BY <1>1, <1>3, <2>1 DEF Submit
<1>4. ASSUME NEW c \in Calls, Leave(c) PROVE TypeOK'
  BY <1>4, NoCallType DEF TypeOK, Leave, chainVars, Labels, Outs
<1>5. ASSUME NEW c \in Calls,
             CheckTenant(c) \/ TenantLookup(c) \/ Parse(c) \/ Query(c) \/ Decode(c)
      PROVE  TypeOK'
  <2>1. UNCHANGED <<split, standing, check, committed, payloads, call>>
    BY <1>5 DEF CheckTenant, TenantLookup, Parse, Query, Decode, chainVars
  <2>2. (\E l \in Labels : Goto(c, l)) \/ (\E r \in Outs : End(c, r))
    BY <1>5 DEF CheckTenant, TenantLookup, Parse, Query, Decode, Labels, Outs
  <2>3. pc' \in [Calls -> Labels] /\ out' \in [Calls -> Outs]
    BY <2>2 DEF TypeOK, Goto, End, Labels
  <2> QED
    BY <2>1, <2>3 DEF TypeOK
<1>6. ASSUME NEW c \in Calls, Assemble(c) PROVE TypeOK'
  <2>1. owner(c) \in Owners /\ call[c].tenant \in Tenants
    BY OwnerOfAssumption DEF TypeOK, CallRecords, owner
  <2>2. [builder  |-> call[c].tenant, owner |-> owner(c), chain |-> AssemblerChain,
         sequence |-> AccountSequence(owner(c)),
         read     |-> committed[AgentChain][owner(c)]] \in Payloads
    BY <2>1, AgentChainType DEF TypeOK, Payloads, AssemblerChain, AccountSequence
  <2>3. payloads' \subseteq Payloads
    BY <1>6, <2>2 DEF TypeOK, Assemble
  <2>4. pc' \in [Calls -> Labels] /\ out' \in [Calls -> Outs]
    BY <1>6 DEF TypeOK, Assemble, End, Labels, Outs
  <2> QED
    BY <1>6, <2>3, <2>4 DEF TypeOK, Assemble, chainVars
<1>7. ASSUME NEW ch \in Chains, NEW o \in Owners, Bump(ch, o)
      PROVE  check' \in [Chains -> [Owners -> 0 .. MaxSeq]]
  BY <1>7 DEF TypeOK, Bump
<1>8. ASSUME NEW c \in Calls, Broadcast(c) PROVE TypeOK'
  <2>1. PICK tx \in call[c].signed :
          LET ch == RailChain(call[c].tool)
              v  == Verdict(ch, tx)
          IN  \/ v # "accepted" /\ End(c, v) /\ UNCHANGED check
              \/ v = "accepted" /\ Bump(ch, tx.payload.owner)
                   /\ (End(c, "accepted") \/ End(c, "error"))
              \/ v = "accepted" /\ End(c, "code") /\ UNCHANGED check
              \/ End(c, "error") /\ UNCHANGED check
    BY <1>8 DEF Broadcast
  <2>2. tx.payload.owner \in Owners
    BY DEF TypeOK, CallRecords, SignedTxs, Payloads
  <2>3. RailChain(call[c].tool) \in Chains
    BY AgentChainType DEF RailChain, Chains
  <2>4. check' \in [Chains -> [Owners -> 0 .. MaxSeq]]
    BY <2>1, <2>2, <2>3, <1>7 DEF TypeOK
  <2>5. \E r \in Outs : End(c, r)
    BY <2>1 DEF Verdict, Outs
  <2>6. pc' \in [Calls -> Labels] /\ out' \in [Calls -> Outs]
    BY <2>5 DEF TypeOK, End, Labels
  <2> QED
    BY <1>8, <2>4, <2>6 DEF TypeOK, Broadcast
<1>9. ASSUME NEW c \in Calls, Step(c) PROVE TypeOK'
  BY <1>2, <1>3, <1>4, <1>5, <1>6, <1>8, <1>9 DEF Step
<1>10. ASSUME NEW p \in payloads, Forget(p) PROVE TypeOK'
  BY <1>10 DEF TypeOK, Forget, chainVars, callVars
<1>11. ASSUME NEW t \in Tenants, Withdraw(t) PROVE TypeOK'
  BY <1>11 DEF TypeOK, Withdraw, chainVars, callVars
<1>12. ASSUME NEW ch \in {"dex", AgentChain}, NEW o \in Owners, Elsewhere(ch, o) PROVE TypeOK'
  BY <1>7, <1>12, AgentChainType DEF TypeOK, Elsewhere, callVars, Chains
<1>13. ASSUME NEW ch \in {"dex", AgentChain}, Block(ch) PROVE TypeOK'
  BY <1>13, AgentChainType DEF TypeOK, Block, callVars, Chains
<1>14. ASSUME UNCHANGED vars PROVE TypeOK'
  BY <1>14 DEF TypeOK, vars, chainVars, callVars
<1> QED
  BY <1>9, <1>10, <1>11, <1>12, <1>13, <1>14 DEF Next

\* Every action lets the world only move on.
LEMMA StepOnward == TypeOK /\ TypeOK' /\ [Next]_vars => Onward
<1> SUFFICES ASSUME TypeOK, TypeOK', [Next]_vars PROVE Onward
  OBVIOUS
<1>1. check \in [Chains -> [Owners -> Nat]] /\ check' \in [Chains -> [Owners -> Nat]]
  BY BoundsAssumption DEF TypeOK
<1>2. split' = split
  BY DEF Next, vars, Step, Call, Submit, Begin, Leave, CheckTenant, TenantLookup, Parse,
     Query, Assemble, Decode, Broadcast, Forget, Withdraw, Elsewhere, Block
<1>3. check' = check \/ \E ch \in Chains, o \in Owners : Bump(ch, o)
  <2>1. ASSUME NEW c \in Calls, Broadcast(c)
        PROVE  check' = check \/ \E ch \in Chains, o \in Owners : Bump(ch, o)
    <3>1. \A tx \in call[c].signed : tx.payload.owner \in Owners
      BY DEF TypeOK, CallRecords, SignedTxs, Payloads
    <3>2. RailChain(call[c].tool) \in Chains
      BY AgentChainType DEF RailChain, Chains
    <3> QED
      BY <2>1, <3>1, <3>2 DEF Broadcast
  <2>2. ASSUME NEW c \in Calls, Step(c), ~Broadcast(c) PROVE check' = check
    BY <2>2 DEF Step, Call, Submit, Begin, Leave, CheckTenant, TenantLookup, Parse,
       Query, Assemble, Decode, chainVars
  <2>3. ASSUME NEW ch \in {"dex", AgentChain}, NEW o \in Owners, Elsewhere(ch, o)
        PROVE  \E c \in Chains, a \in Owners : Bump(c, a)
    BY <2>3, AgentChainType DEF Elsewhere, Chains
  <2>4. ASSUME NEW p \in payloads, Forget(p) PROVE check' = check
    BY <2>4 DEF Forget, chainVars
  <2>5. ASSUME NEW t \in Tenants, Withdraw(t) PROVE check' = check
    BY <2>5 DEF Withdraw, chainVars
  <2>6. ASSUME NEW ch \in {"dex", AgentChain}, Block(ch) PROVE check' = check
    BY <2>6 DEF Block
  <2>7. ASSUME UNCHANGED vars PROVE check' = check
    BY <2>7 DEF vars, chainVars
  <2> QED
    BY <2>1, <2>2, <2>3, <2>4, <2>5, <2>6, <2>7 DEF Next
<1>4. \A ch \in Chains, o \in Owners : check[ch][o] <= check'[ch][o]
  BY <1>1, <1>3 DEF Bump
<1>5. \A t \in Tenants : standing'[t] = "live" => standing[t] = "live"
  BY DEF TypeOK, Next, vars, Step, Call, Submit, Begin, Leave, CheckTenant, TenantLookup,
     Parse, Query, Assemble, Decode, Broadcast, Forget, Withdraw, Elsewhere, Block
<1> QED
  BY <1>1, <1>2, <1>4, <1>5 DEF Onward

-----------------------------------------------------------------------------
\* Committed state stays behind, and payloads stay sound.
LEMMA WorldStep ==
  ASSUME Inv, TypeOK', Onward, [Next]_vars
  PROVE  CommittedBehind' /\ PayloadsSound'
<1>1. TypeOK /\ CommittedBehind /\ PayloadsSound
  BY DEF Inv
<1>2. CommittedBehind'
  <2> SUFFICES ASSUME NEW ch \in Chains, NEW o \in Owners
               PROVE  committed'[ch][o] <= check'[ch][o]
    BY DEF CommittedBehind
  <2>1. /\ committed[ch][o] \in Int /\ check[ch][o] \in Int /\ check'[ch][o] \in Int
        /\ committed[ch][o] <= check[ch][o] /\ check[ch][o] <= check'[ch][o]
    BY <1>1, BoundsAssumption DEF TypeOK, CommittedBehind, Onward
  <2>2. committed' = committed \/ \E d \in Chains : Block(d)
    BY AgentChainType DEF Next, vars, chainVars, callVars, Chains, Step, Call, Submit, Begin,
       Leave, CheckTenant, TenantLookup, Parse, Query, Assemble, Decode, Broadcast, Forget,
       Withdraw, Elsewhere
  <2>3. committed'[ch][o] = committed[ch][o] \/ committed'[ch][o] = check[ch][o]
    BY <1>1, <2>2 DEF Block, TypeOK
  <2> QED
    BY <2>1, <2>3
<1>3. PayloadsSound'
  <2>1. ASSUME NEW c \in Calls, Assemble(c), NEW p \in payloads', p \notin payloads
        PROVE  Sound(p)'
    <3>1. p = [builder  |-> call[c].tenant, owner |-> owner(c), chain |-> AssemblerChain,
               sequence |-> AccountSequence(owner(c)),
               read     |-> committed[AgentChain][owner(c)]]
      BY <2>1 DEF Assemble
    <3>2. owner(c) \in Owners
      BY <1>1, OwnerOfAssumption DEF TypeOK, CallRecords, owner
    <3>3. committed[AgentChain][owner(c)] <= check[AgentChain][owner(c)]
      BY <1>1, <3>2, AgentChainType DEF CommittedBehind
    <3>4. Sound(p)
      BY <3>1, <3>3 DEF Sound, owner, AssemblerChain, AccountSequence
    <3>5. p \in Payloads
      BY DEF TypeOK
    <3> QED
      BY <3>4, <3>5, SoundStable
  <2>2. (\E c \in Calls : Assemble(c)) \/ payloads' \subseteq payloads
    BY DEF Next, vars, Step, Call, Submit, Begin, Leave, CheckTenant, TenantLookup, Parse,
       Query, Decode, Broadcast, Forget, Withdraw, Elsewhere, Block
  <2>3. \A p \in payloads : Sound(p)'
    BY <1>1, SoundStable DEF TypeOK, PayloadsSound
  <2> QED
    BY <2>1, <2>2, <2>3 DEF PayloadsSound
<1> QED
  BY <1>2, <1>3

\* A call that begins.
LEMMA BeginStep ==
  ASSUME Inv, TypeOK', Onward, NEW c \in Calls, Call(c) \/ Submit(c)
  PROVE  CallSound(c)'
<1>1. PICK t \in Tenants, u \in Tools, f \in SUBSET Fields, s \in SUBSET SignedTxs :
        /\ Begin(c, t, u, f, s)
        /\ \A tx \in s : tx.payload \in payloads
        /\ \A x, y \in s : x = y
  <2>1. ASSUME NEW p \in payloads, NEW k \in Owners
        PROVE  {[payload |-> p, key |-> k]} \in SUBSET SignedTxs
    BY DEF SignedTxs, TypeOK, Inv
  <2>2. CASE Call(c)
    BY <2>2, FaultsAssumption DEF Call
  <2>3. CASE Submit(c)
    <3>1. PICK t \in Tenants, u \in Tools :
            \/ Begin(c, t, u, {}, {})
            \/ \E p \in payloads, k \in Owners : Begin(c, t, u, {}, {[payload |-> p, key |-> k]})
      BY <2>3 DEF Submit
    <3>2. CASE Begin(c, t, u, {}, {})
      BY <3>2
    <3>3. ASSUME NEW p \in payloads, NEW k \in Owners,
                 Begin(c, t, u, {}, {[payload |-> p, key |-> k]})
          PROVE  \E s \in SUBSET SignedTxs :
                   /\ Begin(c, t, u, {}, s)
                   /\ \A tx \in s : tx.payload \in payloads
                   /\ \A x, y \in s : x = y
      BY <2>1, <3>3
    <3> QED
      BY <3>1, <3>2, <3>3
  <2> QED
    BY <2>2, <2>3
<1>2. /\ call'[c] = [tenant |-> t, tool |-> u, faults |-> f, signed |-> s,
                     live |-> standing[t] = "live"]
      /\ pc'[c] = "authorize" /\ out'[c] = out[c] /\ standing' = standing
  BY <1>1 DEF Begin, Goto, Inv, TypeOK
<1>3. out'[c] = "none"
  BY <1>1, <1>2 DEF Begin, Inv, CallSound, Progress
<1>4. SignedSound(c)'
  BY <1>1, <1>2, SoundStable DEF SignedSound, Inv, TypeOK, PayloadsSound
<1>5. Progress(c)'
  BY <1>2, <1>3 DEF Progress
<1>6. Standing(c)'
  <2>1. call'[c].tenant = t
    BY <1>2
  <2> DEFINE b == standing[t] = "live"
  <2>2. call'[c] = [tenant |-> t, tool |-> u, faults |-> f, signed |-> s, live |-> b]
    BY <1>2
  <2>3. call'[c].live <=> b
    <3> HIDE DEF b
    <3> QED
      BY <2>2
  <2> QED
    BY <1>2, <2>1, <2>3 DEF Standing, Authorized
<1>7. OwnTransaction(c)' /\ Fits(c)' /\ GetsNothing(c)'
  BY <1>3 DEF OwnTransaction, Fits, GetsNothing, Given
<1> QED
  BY <1>4, <1>5, <1>6, <1>7 DEF CallSound

\* What a call in progress keeps while it moves.
LEMMA MoveStable ==
  ASSUME Inv, Onward, NEW c \in Calls, pc[c] # "idle", call'[c] = call[c]
  PROVE  /\ SignedSound(c)'
         /\ ~call[c].live => standing'[call[c].tenant] # "live"
<1>1. call[c].tenant \in Tenants /\ \A tx \in call[c].signed : tx.payload \in Payloads
  BY DEF Inv, TypeOK, CallRecords, SignedTxs
<1>2. SignedSound(c)'
  BY <1>1, SoundStable DEF Inv, CallSound, SignedSound
<1>3. ~call[c].live => standing'[call[c].tenant] # "live"
  BY <1>1 DEF Inv, CallSound, Standing, Onward
<1> QED
  BY <1>2, <1>3

\* A call that goes on to l.
LEMMA GotoStep ==
  ASSUME Inv, Onward, NEW c \in Calls, pc[c] \notin {"idle", "done"}, call'[c] = call[c],
         NEW l \in Authorized, Goto(c, l), call[c].live,
         l \in {"decode", "broadcast"} => call[c].tool \in Rails,
         l = "broadcast" => \A tx \in call[c].signed : Pins(c, tx)
  PROVE  CallSound(c)'
<1>1. pc'[c] = l /\ out'[c] = "none"
  BY DEF Goto, Inv, TypeOK, CallSound, Progress
<1>2. SignedSound(c)' /\ Standing(c)'
  BY <1>1, MoveStable DEF Standing
<1>3. Progress(c)'
  BY <1>1 DEF Progress, Pins, owner
<1>4. OwnTransaction(c)' /\ Fits(c)' /\ GetsNothing(c)'
  BY <1>1 DEF OwnTransaction, Fits, GetsNothing, Given
<1> QED
  BY <1>2, <1>3, <1>4 DEF CallSound

\* A call that ends with r.
LEMMA EndStep ==
  ASSUME Inv, Onward, NEW c \in Calls, pc[c] # "idle", call'[c] = call[c],
         NEW r \in Outs, End(c, r),
         r \in Given => call[c].live,
         r = "accepted" => \A tx \in call[c].signed :
                              /\ tx.key = OwnerOf[call[c].tenant]
                              /\ tx.payload.owner = tx.key
                              /\ OwnerOf[tx.payload.builder] = tx.key,
         RailChain(call[c].tool) = AgentChain =>
           /\ r # "wrongChain"
           /\ r = "wrongSequence" => \A tx \in call[c].signed :
                                       check'[AgentChain][tx.payload.owner] > tx.payload.read,
         RailChain(call[c].tool) # AgentChain => r # "accepted"
  PROVE  CallSound(c)'
<1>1. pc'[c] = "done" /\ out'[c] = r
  BY DEF End, Inv, TypeOK
<1>2. SignedSound(c)' /\ Standing(c)'
  BY <1>1, MoveStable DEF Standing, Authorized
<1>3. Progress(c)'
  BY <1>1 DEF Progress
<1>4. AgentChain' = AgentChain /\ RailChain(call[c].tool)' = RailChain(call[c].tool)
  BY DEF Onward, AgentChain, RailChain
<1>5. OwnTransaction(c)' /\ Fits(c)' /\ GetsNothing(c)'
  BY <1>1, <1>4 DEF OwnTransaction, Fits, GetsNothing
<1> QED
  BY <1>2, <1>3, <1>5 DEF CallSound

-----------------------------------------------------------------------------
\* Verdict answers with one of the outcomes, each for its reason.
LEMMA VerdictCases ==
  ASSUME NEW ch, NEW tx
  PROVE  /\ Verdict(ch, tx) \in {"wrongKey", "wrongChain", "wrongSequence", "accepted"}
         /\ Verdict(ch, tx) = "wrongChain" => tx.payload.chain # ch
         /\ Verdict(ch, tx) = "wrongSequence" =>
              tx.payload.sequence # check[ch][tx.payload.owner]
         /\ Verdict(ch, tx) = "accepted" =>
              tx.key = tx.payload.owner /\ tx.payload.chain = ch
BY DEF Verdict

\* A call that is broadcast.
LEMMA BroadcastStep ==
  ASSUME Inv, Onward, NEW c \in Calls, Broadcast(c)
  PROVE  CallSound(c)'
<1> DEFINE ch == RailChain(call[c].tool)
<1>1. PICK tx \in call[c].signed :
        LET v == Verdict(ch, tx)
        IN  \/ v # "accepted" /\ End(c, v) /\ UNCHANGED check
            \/ v = "accepted" /\ Bump(ch, tx.payload.owner)
                 /\ (End(c, "accepted") \/ End(c, "error"))
            \/ v = "accepted" /\ End(c, "code") /\ UNCHANGED check
            \/ End(c, "error") /\ UNCHANGED check
  BY DEF Broadcast
<1>2. call'[c] = call[c] /\ pc[c] = "broadcast"
  BY DEF Broadcast
<1>3. CallSound(c)
  BY DEF Inv
<1>4. /\ call[c].live
      /\ call[c].tool \in Rails
      /\ tx.key = OwnerOf[call[c].tenant]
      /\ Sound(tx.payload)
      /\ \A s \in call[c].signed : s = tx
  BY <1>2, <1>3 DEF CallSound, Standing, Authorized, Progress, Pins, owner, SignedSound
<1>5. PICK r \in Outs :
        /\ End(c, r)
        /\ r = "accepted" => Verdict(ch, tx) = "accepted"
        /\ r \in {"wrongChain", "wrongSequence"} => Verdict(ch, tx) = r /\ check' = check
  <2> HIDE DEF ch
  <2> QED
    BY <1>1, VerdictCases DEF Outs
<1>6. ASSUME r = "accepted"
      PROVE  tx.payload.owner = tx.key /\ OwnerOf[tx.payload.builder] = tx.key
  BY <1>4, <1>5, <1>6, VerdictCases DEF Sound
<1>7. (ch = AgentChain => r # "wrongChain") /\ (ch # AgentChain => r # "accepted")
  BY <1>4, <1>5, VerdictCases DEF Sound
<1>8. ASSUME r = "wrongSequence", ch = AgentChain
      PROVE  check'[AgentChain][tx.payload.owner] > tx.payload.read
  <2>1. tx.payload.read # check[AgentChain][tx.payload.owner]
    BY <1>4, <1>5, <1>8, VerdictCases DEF Sound
  <2>2. tx.payload.read <= check[AgentChain][tx.payload.owner]
    BY <1>4 DEF Sound
  <2>3. tx.payload.read \in Int /\ tx.payload.owner \in Owners
    BY BoundsAssumption DEF Inv, TypeOK, CallRecords, SignedTxs, Payloads
  <2>4. check[AgentChain][tx.payload.owner] \in Int
    BY <2>3, AgentChainType DEF Onward
  <2> QED
    BY <1>5, <1>8, <2>1, <2>2, <2>3, <2>4
<1>9. /\ RailChain(call[c].tool) = AgentChain =>
           /\ r # "wrongChain"
           /\ r = "wrongSequence" => \A s \in call[c].signed :
                                       check'[AgentChain][s.payload.owner] > s.payload.read
      /\ RailChain(call[c].tool) # AgentChain => r # "accepted"
  BY <1>4, <1>7, <1>8
<1> HIDE DEF ch
<1> QED
  BY <1>2, <1>4, <1>5, <1>6, <1>9, EndStep

\* Any step of a call leaves it sound.
LEMMA OwnStep ==
  ASSUME Inv, TypeOK', Onward, NEW c \in Calls, Step(c)
  PROVE  CallSound(c)'
<1>1. CallSound(c)
  BY DEF Inv
<1>2. CASE Leave(c)
  <2>1. pc'[c] = "idle" /\ call'[c] = NoCall /\ out'[c] = "none"
    BY <1>2 DEF Leave, Inv, TypeOK
  <2> QED
    BY <2>1 DEF CallSound, SignedSound, Progress, Standing, OwnTransaction, Fits,
       GetsNothing, Given, Authorized, NoCall
<1>3. CASE CheckTenant(c)
  <2>1. call'[c] = call[c] /\ pc[c] = "authorize"
    BY <1>3 DEF CheckTenant
  <2>2. CASE standing[call[c].tenant] = "live"
    <3>1. Goto(c, "tenant")
      BY <1>3, <2>2 DEF CheckTenant
    <3>2. call[c].live
      BY <1>1, <2>1, <2>2 DEF CallSound, Standing
    <3> QED
      BY <2>1, <3>1, <3>2, GotoStep DEF Authorized
  <2>3. CASE standing[call[c].tenant] # "live"
    BY <1>3, <2>1, <2>3, EndStep DEF CheckTenant, Outs, Given
  <2> QED
    BY <2>2, <2>3
<1>4. CASE TenantLookup(c)
  <2>1. call'[c] = call[c] /\ pc[c] = "tenant" /\ call[c].live
    BY <1>1, <1>4 DEF TenantLookup, CallSound, Standing, Authorized
  <2>2. CASE Goto(c, "decode") /\ call[c].tool \in Rails
    BY <2>1, <2>2, GotoStep DEF Authorized
  <2>3. CASE Goto(c, "parse")
    BY <2>1, <2>3, GotoStep DEF Authorized
  <2>4. CASE End(c, "refused")
    BY <2>1, <2>4, EndStep DEF Outs, Given
  <2> QED
    BY <1>4, <2>2, <2>3, <2>4 DEF TenantLookup
<1>5. CASE Parse(c)
  <2>1. call'[c] = call[c] /\ pc[c] = "parse" /\ call[c].live
    BY <1>1, <1>5 DEF Parse, CallSound, Standing, Authorized
  <2>2. CASE Goto(c, "account")
    BY <2>1, <2>2, GotoStep DEF Authorized
  <2>3. CASE Goto(c, "query")
    BY <2>1, <2>3, GotoStep DEF Authorized
  <2>4. CASE End(c, "badInput")
    BY <2>1, <2>4, EndStep DEF Outs, Given
  <2> QED
    BY <1>5, <2>2, <2>3, <2>4 DEF Parse
<1>6. CASE Query(c) \/ Assemble(c)
  <2>1. call'[c] = call[c] /\ pc[c] \in {"query", "account"} /\ call[c].live
    BY <1>1, <1>6 DEF Query, Assemble, CallSound, Standing, Authorized
  <2>2. PICK r \in {"answered", "built", "error"} : End(c, r)
    BY <1>6 DEF Query, Assemble
  <2> QED
    BY <2>1, <2>2, EndStep DEF Outs
<1>7. CASE Decode(c)
  <2>1. call'[c] = call[c] /\ pc[c] = "decode" /\ call[c].live /\ call[c].tool \in Rails
    BY <1>1, <1>7 DEF Decode, CallSound, Standing, Authorized, Progress
  <2>2. ASSUME NEW tx \in call[c].signed, Pins(c, tx), Goto(c, "broadcast")
        PROVE  CallSound(c)'
    <3>1. \A s \in call[c].signed : Pins(c, s)
      BY <1>1, <2>2 DEF CallSound, SignedSound
    <3> QED
      BY <2>1, <2>2, <3>1, GotoStep DEF Authorized
  <2>3. CASE End(c, "badInput") \/ End(c, "wrongSigner")
    BY <2>1, <2>3, EndStep DEF Outs, Given
  <2> QED
    BY <1>7, <2>2, <2>3 DEF Decode
<1> QED
  BY <1>2, <1>3, <1>4, <1>5, <1>6, <1>7, BeginStep, BroadcastStep DEF Step

\* The invariant is inductive.
LEMMA InvStep == Inv /\ [Next]_vars => Inv'
<1> SUFFICES ASSUME Inv, [Next]_vars PROVE Inv'
  OBVIOUS
<1>1. TypeOK'
  BY TypeStep DEF Inv
<1>2. Onward
  BY <1>1, StepOnward DEF Inv
<1>3. CommittedBehind' /\ PayloadsSound'
  BY <1>1, <1>2, WorldStep
<1>4. ASSUME NEW c \in Calls PROVE CallSound(c)'
  <2>1. CASE Step(c)
    BY <1>1, <1>2, <2>1, OwnStep
  <2>2. CASE ~Step(c)
    <3>1. pc'[c] = pc[c] /\ call'[c] = call[c] /\ out'[c] = out[c]
      <4>1. ASSUME NEW d \in Calls, d # c, Step(d)
            PROVE  pc'[c] = pc[c] /\ call'[c] = call[c] /\ out'[c] = out[c]
        BY <4>1 DEF Inv, TypeOK, Step, Call, Submit, Begin, Leave, CheckTenant, TenantLookup,
           Parse, Query, Assemble, Decode, Broadcast, Goto, End
      <4>2. (\E d \in Calls : Step(d)) \/ UNCHANGED <<pc, call, out>>
        BY DEF Next, vars, callVars, Forget, Withdraw, Elsewhere, Block
      <4> QED
        BY <2>2, <4>1, <4>2
    <3> QED
      BY <1>2, <3>1, CallStable DEF Inv
  <2> QED
    BY <2>1, <2>2
<1> QED
  BY <1>1, <1>3, <1>4 DEF Inv

\* So it holds in every state the service reaches.
THEOREM AlwaysSound == Spec => []Inv
BY InitInv, InvStep, PTL DEF Spec

\* Calls, payloads, tenants and both chains keep their types, whatever the
\* interleaving of calls, withdrawals, wallets and blocks.
THEOREM TypeCorrect == Spec => []TypeOK
<1>1. Inv => TypeOK
  BY DEF Inv
<1> QED
  BY <1>1, AlwaysSound, PTL

\* However many calls run at once and whoever passes whose payload to which
\* rail, what lands was built for, is owned by, was signed by and was handed
\* in by one account (txbuild.go:17-22, broadcast.go:40-48).
THEOREM NobodyTransactsForOthers == Spec => []OwnTransactionsOnly
<1>1. Inv => OwnTransactionsOnly
  BY DEF Inv, CallSound, OwnTransaction, OwnTransactionsOnly
<1> QED
  BY <1>1, AlwaysSound, PTL

\* Whatever the accounts do on either chain, the chain of the agent families
\* never finds a payload of this service signed for another chain, and finds
\* its sequence wrong only if the account has moved on there; the other chain
\* of a split deployment never accepts it (wire.go:324-344).
THEOREM PayloadsFit == Spec => []PayloadFitsItsChain
<1>1. Inv => PayloadFitsItsChain
  BY DEF Inv, CallSound, Fits, PayloadFitsItsChain
<1> QED
  BY <1>1, AlwaysSound, PTL

\* Although authorize looks a tenant up twice and a call may be overtaken by
\* the kill switch anywhere, a tenant gets nothing from a call it makes after
\* its withdrawal (service.go:70-85).
THEOREM WithdrawnMeansNothing == Spec => []WithdrawnTenantGetsNothing
<1>1. Inv => WithdrawnTenantGetsNothing
  BY DEF Inv, CallSound, GetsNothing, WithdrawnTenantGetsNothing
<1> QED
  BY <1>1, AlwaysSound, PTL
=============================================================================
