------------------------ MODULE ParamsCache_proofs --------------------------
(***************************************************************************)
(* Proofs about ParamsCache, for every number of calls, every TTL and      *)
(* every timeout: the params a verification uses are at most               *)
(* TTL + QueryTimeout seconds behind the chain, fills are a TTL apart, the *)
(* cache never goes back, and the cache implements BoundedStaleness.  The  *)
(* argument is that paramsMu is held across the query, so that nothing     *)
(* changes the cache between a call's look at it and its fill.             *)
(***************************************************************************)
EXTENDS ParamsCache, TLAPS

\* No stamp of the history lies ahead of the clock, and the version in force
\* is stamped with the present.
HistorySound ==
  /\ \A v \in Versions : inForce[v] <= clock
  /\ inForce[params] = clock

\* A call between Lock and Unlock is the holder of the mutex.
MutexHeld == \A q \in Requests : pc[q] \notin {"idle", "lock"} => mu = q

\* A cached entry was in force at most a round trip before its stamp.
CacheSound ==
  cache # Nil =>
    /\ cache.fetched <= clock
    /\ cache.version <= params
    /\ cache.fetched - QueryTimeout <= inForce[cache.version]

\* A call that found the cache too old finds it so until it fills it.
OldUntilFilled == \A q \in Requests : pc[q] \in {"ask", "wait", "answered"} => ~Fresh(clock)

\* A query in flight left in the past; an answer was in force when it was
\* served, after the query left, and is no older than what is cached.
AnswerSound ==
  \A q \in Requests :
    /\ pc[q] \in {"wait", "answered"} => sent[q] <= clock
    /\ pc[q] = "answered" =>
         /\ sent[q] <= inForce[answer[q]]
         /\ cache.version <= answer[q] /\ answer[q] <= params

Inv ==
  /\ TypeOK
  /\ HistorySound
  /\ MutexHeld
  /\ CacheSound
  /\ OldUntilFilled
  /\ AnswerSound
  /\ ParamsAreRecent

-----------------------------------------------------------------------------
\* What the types say of the numbers, wherever arithmetic needs it.
LEMMA Numbers ==
  ASSUME TypeOK
  PROVE  /\ clock \in Int /\ params \in Int /\ TTL \in Int /\ QueryTimeout \in Int
         /\ cache.version \in Int /\ cache.fetched \in Int
         /\ \A q \in Requests : sent[q] \in Int /\ answer[q] \in Int /\ judged[q] \in Int
         /\ \A v \in Versions : inForce[v] \in Int
BY MaxVersionAssumption, TTLAssumption, QueryTimeoutAssumption, MaxTimeAssumption
   DEF TypeOK, Times, Versions, Entries, Nil, Never

\* The initial states satisfy the invariant.
LEMMA InitInv == Init => Inv
<1> SUFFICES ASSUME Init PROVE Inv
  OBVIOUS
<1> USE MaxVersionAssumption, TTLAssumption, QueryTimeoutAssumption, MaxTimeAssumption
<1>1. TypeOK
  BY DEF Init, TypeOK, Times, Versions, Labels
<1>2. HistorySound
  BY DEF Init, HistorySound, Versions, Never
<1> QED
  BY <1>1, <1>2 DEF Init, Inv, MutexHeld, CacheSound, OldUntilFilled, AnswerSound,
     ParamsAreRecent

\* A new version of the params, or a second, preserves the invariant: the
\* stamps only move forward.
LEMMA WorldStep ==
  ASSUME Inv, (Govern \/ Tick) /\ UNCHANGED hung
  PROVE  Inv'
<1> USE MaxVersionAssumption, TTLAssumption, QueryTimeoutAssumption, MaxTimeAssumption
    DEF Inv
<1>1. /\ clock' \in Times /\ clock <= clock' /\ params' \in Versions /\ params <= params'
      /\ inForce' = [inForce EXCEPT ![params'] = clock']
      /\ UNCHANGED <<cache, mu, pc, sent, answer, got, judged, hung>>
  BY DEF Govern, Tick, callVars, TypeOK, Times, Versions
<1>2. TypeOK'
  BY <1>1 DEF TypeOK
<1>3. \A v \in Versions : inForce[v] <= inForce'[v] /\ inForce'[v] <= clock'
  BY <1>1, Numbers DEF HistorySound, TypeOK, Times
<1>4. HistorySound'
  BY <1>1, <1>3 DEF HistorySound, TypeOK
<1>5. MutexHeld'
  BY <1>1 DEF MutexHeld
<1>6. ASSUME cache # Nil PROVE cache.version \in Versions
  BY <1>6 DEF TypeOK, Entries
<1>7. clock' \in Int /\ params' \in Int /\ \A v \in Versions : inForce'[v] \in Int
  BY <1>2 DEF TypeOK, Times, Versions, Never
<1>8. CacheSound'
  BY <1>1, <1>3, <1>6, <1>7, Numbers DEF CacheSound
<1>9. OldUntilFilled'
  BY <1>1, <1>7, Numbers DEF OldUntilFilled, Fresh
<1>10. AnswerSound'
  <2>1. \A q \in Requests : answer[q] \in Versions
    BY DEF TypeOK
  <2> QED
    BY <1>1, <1>3, <1>7, <2>1, Numbers DEF AnswerSound
<1>11. ParamsAreRecent'
  <2>1. \A q \in Requests : got[q] # -1 => got[q] \in Versions
    BY DEF TypeOK
  <2> QED
    BY <1>1, <1>3, <1>7, <2>1, Numbers DEF ParamsAreRecent
<1> QED
  BY <1>2, <1>4, <1>5, <1>8, <1>9, <1>10, <1>11

\* The steps of a call keep the types.
LEMMA CallType ==
  ASSUME TypeOK, NEW q \in Requests, Call(q) \/ Step(q), UNCHANGED hung
  PROVE  TypeOK'
<1> USE MaxVersionAssumption, MaxTimeAssumption DEF TypeOK
<1>0. 0 \in Times /\ 0 \in Versions /\ clock \in Times
  BY DEF Times, Versions
<1>1. CASE Call(q)
  BY <1>0, <1>1 DEF Call, Labels
<1>2. CASE Lock(q)
  BY <1>2 DEF Lock, Labels
<1>3. CASE Check(q)
  <2>1. CASE Fresh(clock)
    <3>1. cache.version \in Versions
      BY <2>1 DEF Fresh, Entries
    <3> QED
      BY <1>0, <1>3, <2>1, <3>1 DEF Check, Return, Labels
  <2>2. CASE ~Fresh(clock)
    BY <1>3, <2>2 DEF Check, Labels
  <2> QED
    BY <2>1, <2>2
<1>4. CASE Ask(q)
  BY <1>4 DEF Ask, Labels
<1>5. CASE Serve(q)
  BY <1>5 DEF Serve, Labels
<1>6. CASE Fail(q)
  BY <1>0, <1>6 DEF Fail, Return, Labels
<1>7. CASE Receive(q)
  <2>1. cache' \in Entries
    BY <1>0, <1>7 DEF Receive, Entries
  <2> QED
    BY <1>0, <1>7, <2>1 DEF Receive, Return, Labels
<1> QED
  BY <1>1, <1>2, <1>3, <1>4, <1>5, <1>6, <1>7 DEF Step

\* Only the call that moves changes, and the world stands still meanwhile.
LEMMA OthersStay ==
  ASSUME TypeOK, NEW q \in Requests, Call(q) \/ Step(q)
  PROVE  /\ UNCHANGED <<clock, params, inForce>>
         /\ \A p \in Requests \ {q} :
              /\ pc'[p] = pc[p] /\ sent'[p] = sent[p] /\ answer'[p] = answer[p]
              /\ got'[p] = got[p] /\ judged'[p] = judged[p]
BY DEF TypeOK, Call, Step, Lock, Check, Return, Ask, Serve, Fail, Receive

\* The steps of a call preserve the invariant.
LEMMA CallStep ==
  ASSUME Inv, NEW q \in Requests, Call(q) \/ Step(q), UNCHANGED hung
  PROVE  Inv'
<1> USE DEF Inv
<1>1. TypeOK'
  BY CallType
<1>2. /\ UNCHANGED <<clock, params, inForce>>
      /\ \A p \in Requests \ {q} :
           /\ pc'[p] = pc[p] /\ sent'[p] = sent[p] /\ answer'[p] = answer[p]
           /\ got'[p] = got[p] /\ judged'[p] = judged[p]
  BY OthersStay
<1>3. HistorySound'
  BY <1>2 DEF HistorySound
<1>4. MutexHeld'
  <2> SUFFICES ASSUME NEW p \in Requests, pc'[p] \notin {"idle", "lock"}
               PROVE  mu' = p
    BY DEF MutexHeld
  <2>1. CASE p = q
    BY <2>1 DEF Call, Step, Lock, Check, Return, Ask, Serve, Fail, Receive, TypeOK, MutexHeld
  <2>2. CASE p # q
    <3>1. mu = p /\ p # NoRequest
      BY <1>2, <2>2, NoRequestAssumption DEF MutexHeld
    <3>2. pc[q] \in {"idle", "lock"} /\ ~Lock(q)
      BY <2>2, <3>1 DEF MutexHeld, Lock
    <3> QED
      BY <3>1, <3>2 DEF Call, Step, Check, Ask, Serve, Fail, Receive
  <2> QED
    BY <2>1, <2>2
<1>5. CASE Receive(q)
  <2>1. /\ cache' = [version |-> answer[q], fetched |-> clock]
        /\ judged'[q] = clock /\ got'[q] = answer[q] /\ pc'[q] = "idle"
        /\ clock - sent[q] <= QueryTimeout
    BY <1>5 DEF Receive, Return, TypeOK
  <2>2. /\ sent[q] <= inForce[answer[q]] /\ answer[q] <= params
        /\ answer[q] \in Versions
    BY <1>5 DEF Receive, AnswerSound, TypeOK
  <2>3. clock - QueryTimeout <= inForce[answer[q]]
    BY <2>1, <2>2, Numbers
  <2>4. CacheSound'
    BY <1>2, <2>1, <2>2, <2>3, Numbers DEF CacheSound
  <2>5. \A p \in Requests : pc'[p] \in {"idle", "lock"}
    BY <1>2, <1>5, <2>1 DEF Receive, MutexHeld
  <2>6. OldUntilFilled' /\ AnswerSound'
    BY <2>5 DEF OldUntilFilled, AnswerSound
  <2>7. ParamsAreRecent'
    BY <1>2, <2>1, <2>2, <2>3, Numbers, TTLAssumption DEF ParamsAreRecent
  <2> QED
    BY <1>1, <1>3, <1>4, <2>4, <2>6, <2>7
<1>6. CASE ~Receive(q)
  <2>1. cache' = cache
    BY <1>6 DEF Call, Step, Lock, Check, Ask, Serve, Fail
  <2>2. CacheSound'
    BY <1>2, <2>1 DEF CacheSound
  <2>3. OldUntilFilled'
    BY <1>2, <1>6, <2>1 DEF OldUntilFilled, Fresh, Call, Step, Lock, Check, Return, Ask,
       Serve, Fail, TypeOK
  <2>4. AnswerSound'
    <3> SUFFICES ASSUME NEW p \in Requests
                 PROVE  /\ pc'[p] \in {"wait", "answered"} => sent'[p] <= clock
                        /\ pc'[p] = "answered" =>
                             /\ sent'[p] <= inForce[answer'[p]]
                             /\ cache.version <= answer'[p] /\ answer'[p] <= params
      BY <1>2, <2>1 DEF AnswerSound
    <3>1. CASE p # q
      BY <1>2, <3>1 DEF AnswerSound
    <3>2. CASE p = q /\ Ask(q)
      BY <3>2, Numbers DEF Ask, TypeOK
    <3>3. CASE p = q /\ Serve(q)
      <4>1. /\ pc'[q] = "answered" /\ answer'[q] = params /\ sent'[q] = sent[q]
            /\ sent[q] <= clock
        BY <3>3 DEF Serve, TypeOK, AnswerSound
      <4>2. inForce[params] = clock
        BY DEF HistorySound
      <4>3. cache.version <= params
        BY Numbers DEF CacheSound, Nil, TypeOK, Versions
      <4> QED
        BY <3>3, <4>1, <4>2, <4>3, Numbers
    <3>4. CASE p = q /\ ~Ask(q) /\ ~Serve(q)
      BY <1>6, <3>4 DEF Call, Step, Lock, Check, Return, Fail, TypeOK
    <3> QED
      BY <3>1, <3>2, <3>3, <3>4
  <2>5. ParamsAreRecent'
    <3> SUFFICES ASSUME NEW p \in Requests, got'[p] # -1
                 PROVE  judged'[p] - inForce[got'[p]] < TTL + QueryTimeout
      BY <1>2 DEF ParamsAreRecent
    <3>1. CASE p # q
      BY <1>2, <3>1 DEF ParamsAreRecent
    <3>2. CASE p = q /\ Check(q) /\ Fresh(clock)
      <4>1. judged'[q] = clock /\ got'[q] = cache.version
        BY <3>2 DEF Check, Return, TypeOK
      <4>2. clock - cache.fetched < TTL /\ cache.fetched - QueryTimeout <= inForce[cache.version]
        BY <3>2 DEF Fresh, CacheSound
      <4>3. cache.version \in Versions
        BY <3>2 DEF Fresh, TypeOK, Entries
      <4> QED
        BY <3>2, <4>1, <4>2, <4>3, Numbers
    <3>3. CASE p = q /\ ~(Check(q) /\ Fresh(clock))
      <4>1. got'[q] = -1 \/ (got'[q] = got[q] /\ judged'[q] = judged[q])
        BY <1>6, <3>3 DEF Call, Step, Lock, Check, Return, Ask, Serve, Fail, TypeOK
      <4> QED
        BY <3>3, <4>1 DEF ParamsAreRecent
    <3> QED
      BY <3>1, <3>2, <3>3
  <2> QED
    BY <1>1, <1>3, <1>4, <2>2, <2>3, <2>4, <2>5
<1> QED
  BY <1>5, <1>6

\* Every step preserves the invariant.
LEMMA NextInv == Inv /\ [Next]_vars => Inv'
<1> SUFFICES ASSUME Inv, [Next]_vars PROVE Inv'
  OBVIOUS
<1>1. CASE (Govern \/ Tick) /\ UNCHANGED hung
  BY <1>1, WorldStep
<1>2. ASSUME NEW q \in Requests, q \notin hung /\ (Call(q) \/ Step(q)) /\ UNCHANGED hung
      PROVE  Inv'
  BY <1>2, CallStep
<1>3. ASSUME NEW q \in Requests, Hang(q)
      PROVE  Inv'
  BY <1>3 DEF Hang, callVars, Inv, TypeOK, HistorySound, MutexHeld, CacheSound,
     OldUntilFilled, Fresh, AnswerSound, ParamsAreRecent
<1>4. CASE UNCHANGED vars
  BY <1>4 DEF vars, callVars, Inv, TypeOK, HistorySound, MutexHeld, CacheSound,
     OldUntilFilled, Fresh, AnswerSound, ParamsAreRecent
<1> QED
  BY <1>1, <1>2, <1>3, <1>4 DEF Next

\* The inductive invariant holds of every reachable state.
LEMMA InvHolds == Spec => []Inv
BY InitInv, NextInv, PTL DEF Spec

\* Type correctness of the params cache.
THEOREM TypeCorrect == Spec => []TypeOK
<1>1. Inv => TypeOK
  BY DEF Inv
<1> QED
  BY <1>1, InvHolds, PTL

\* The params walletParams returns were in force less than TTL + QueryTimeout
\* seconds before their age was judged (service.go:130-143).
THEOREM ParamsBounded == Spec => []ParamsAreRecent
<1>1. Inv => ParamsAreRecent
  BY DEF Inv
<1> QED
  BY <1>1, InvHolds, PTL

-----------------------------------------------------------------------------
\* Only Receive changes the cache.
LEMMA CacheChange ==
  ASSUME [Next]_vars
  PROVE  cache' = cache \/ \E q \in Requests : Receive(q)
BY DEF Next, vars, Govern, Tick, Hang, Call, Step, Lock, Check, Ask, Serve, Fail

\* Fills are a TTL apart: the call that fills found the entry too old under
\* the mutex it still holds (service.go:131-142).
THEOREM OneFillPerTTL == Spec => FillsAreSpaced
<1>1. Inv /\ [Next]_vars =>
        [cache' # cache /\ cache # Nil => cache'.fetched - cache.fetched >= TTL]_vars
  <2> SUFFICES ASSUME Inv, [Next]_vars, cache' # cache, cache # Nil
               PROVE  cache'.fetched - cache.fetched >= TTL
    OBVIOUS
  <2>1. PICK q \in Requests : Receive(q)
    BY CacheChange
  <2>2. ~(clock - cache.fetched < TTL)
    BY <2>1 DEF Receive, Inv, OldUntilFilled, Fresh
  <2>3. cache'.fetched = clock
    BY <2>1 DEF Receive
  <2> QED
    BY <2>2, <2>3, Numbers DEF Inv
<1> QED
  BY <1>1, InvHolds, PTL DEF Spec, FillsAreSpaced

\* The cache never goes back to older params: no fill overtakes another
\* (service.go:131-142).
THEOREM NoRegress == Spec => NeverRegresses
<1>1. Inv /\ [Next]_vars => [cache'.version >= cache.version]_vars
  <2> SUFFICES ASSUME Inv, [Next]_vars PROVE cache'.version >= cache.version
    OBVIOUS
  <2>1. CASE cache' = cache
    BY <2>1, Numbers DEF Inv
  <2>2. ASSUME NEW q \in Requests, Receive(q)
        PROVE  cache'.version >= cache.version
    BY <2>2, Numbers DEF Receive, Inv, AnswerSound
  <2> QED
    BY <2>1, <2>2, CacheChange
<1> QED
  BY <1>1, InvHolds, PTL DEF Spec, NeverRegresses

-----------------------------------------------------------------------------
\* The refinement of BoundedStaleness: the variables of the abstraction.
truthBar    == [x \in {"params"} |-> params]
lastTrueBar == [x \in {"params"} |-> inForce]
openBar     == [q \in Requests |-> pc[q] # "idle"]
askedBar    == [q \in Requests |-> "params"]
settledBar  == [q \in Requests |-> -2]
givenBar    == [q \in Requests |-> IF pc[q] = "idle" THEN got[q] ELSE -2]

\* Initial states map to initial states.
LEMMA InitRefines == Init => Staleness!Init
<1> SUFFICES ASSUME Init PROVE Staleness!Init
  OBVIOUS
<1> USE MaxVersionAssumption, TTLAssumption, QueryTimeoutAssumption
<1>1. truthBar \in [{"params"} -> Versions]
  BY DEF Init, truthBar, Versions
<1>2. \A x \in {"params"} : \A a \in Versions :
        IF a = truthBar[x] THEN lastTrueBar[x][a] = 0
                           ELSE lastTrueBar[x][a] <= -(TTL + QueryTimeout)
  BY DEF Init, truthBar, lastTrueBar, Never
<1>3. openBar = [q \in Requests |-> FALSE] /\ askedBar \in [Requests -> {"params"}]
  BY DEF Init, openBar, askedBar
<1>4. givenBar \in [Requests -> {-2, -1}]
  BY DEF Init, givenBar
<1> QED
  BY <1>1, <1>2, <1>3, <1>4
     DEF Init, Staleness!Init, truthBar, lastTrueBar, openBar, askedBar, settledBar, givenBar

\* A step of governance or of the clock is a step of the abstract world.
LEMMA WorldRefines ==
  ASSUME Inv, Inv', Govern \/ Tick
  PROVE  Staleness!World
<1>1. /\ clock' \in {clock, clock + 1}
      /\ inForce' = [inForce EXCEPT ![params'] = clock']
      /\ UNCHANGED <<pc, got>>
  BY DEF Govern, Tick, callVars
<1>2. truthBar' \in [{"params"} -> Versions]
  BY DEF Inv, TypeOK, truthBar
<1>3. lastTrueBar' = [x \in {"params"} |-> [a \in Versions |->
                        IF a = truthBar'[x] THEN clock' ELSE lastTrueBar[x][a]]]
  <2>1. inForce' = [a \in Versions |-> IF a = params' THEN clock' ELSE inForce[a]]
    BY <1>1 DEF Inv, TypeOK
  <2> QED
    BY <2>1 DEF lastTrueBar, truthBar
<1>4. UNCHANGED <<openBar, askedBar, settledBar, givenBar>>
  BY <1>1 DEF openBar, askedBar, settledBar, givenBar
<1> QED
  BY <1>1, <1>2, <1>3, <1>4
     DEF Staleness!World, truthBar, lastTrueBar, openBar, askedBar, settledBar, givenBar

\* A call's own step is Ask, Give or Decline, or nothing is seen of it.
LEMMA CallRefines ==
  ASSUME Inv, Inv', NEW q \in Requests, Call(q) \/ Step(q)
  PROVE  Staleness!Next \/ UNCHANGED Staleness!vars
<1>1. /\ pc \in [Requests -> Labels] /\ got \in [Requests -> Versions \cup {-1}]
      /\ UNCHANGED <<clock, params, inForce>>
  BY OthersStay DEF Inv, TypeOK
<1>2. /\ truthBar' = truthBar /\ lastTrueBar' = lastTrueBar
      /\ askedBar' = askedBar /\ settledBar' = settledBar
      /\ settledBar[q] = -2 /\ settledBar = [settledBar EXCEPT ![q] = -2]
      /\ askedBar[q] = "params" /\ askedBar = [askedBar EXCEPT ![q] = "params"]
  BY <1>1 DEF truthBar, lastTrueBar, askedBar, settledBar
<1>3. CASE Call(q)
  <2>1. openBar[q] = FALSE /\ openBar' = [openBar EXCEPT ![q] = TRUE]
    BY <1>1, <1>3 DEF Call, openBar
  <2>2. givenBar' = [givenBar EXCEPT ![q] = -2]
    BY <1>1, <1>3 DEF Call, givenBar
  <2>3. Staleness!Ask(q)
    BY <1>1, <1>2, <2>1, <2>2
       DEF Staleness!Ask, truthBar, lastTrueBar, openBar, askedBar, settledBar, givenBar
  <2> QED
    BY <2>3 DEF Staleness!Next
<1>4. CASE Lock(q) \/ (Check(q) /\ ~Fresh(clock)) \/ Ask(q) \/ Serve(q)
  <2>1. openBar' = openBar /\ givenBar' = givenBar
    BY <1>1, <1>4 DEF Lock, Check, Ask, Serve, openBar, givenBar
  <2> QED
    BY <1>1, <1>2, <2>1
       DEF Staleness!vars, truthBar, lastTrueBar, openBar, askedBar, settledBar, givenBar
<1>5. ASSUME NEW v, pc[q] # "idle", Return(q, v)
      PROVE  /\ openBar[q] /\ openBar' = [openBar EXCEPT ![q] = FALSE]
             /\ givenBar' = [givenBar EXCEPT ![q] = v]
  BY <1>1, <1>5 DEF Return, openBar, givenBar
<1>6. ASSUME NEW v \in Versions, pc[q] # "idle", Return(q, v),
             clock - inForce[v] < TTL + QueryTimeout
      PROVE  Staleness!Give(q)
  <2>1. clock - lastTrueBar[askedBar[q]][v] < TTL + QueryTimeout
    BY <1>2, <1>6 DEF lastTrueBar
  <2> QED
    BY <1>1, <1>2, <1>5, <1>6, <2>1
       DEF Staleness!Give, Staleness!Recent, Staleness!End,
           truthBar, lastTrueBar, openBar, askedBar, settledBar, givenBar
<1>7. ASSUME (Check(q) /\ Fresh(clock)) \/ Receive(q)
      PROVE  Staleness!Next
  <2>1. PICK v \in Versions :
          Return(q, v) /\ got'[q] = v /\ judged'[q] = clock /\ pc[q] # "idle"
    <3>1. CASE Check(q) /\ Fresh(clock)
      <4>1. cache.version \in Versions
        BY <3>1 DEF Fresh, Inv, TypeOK, Entries
      <4> QED
        BY <1>1, <3>1, <4>1 DEF Check, Return, Inv, TypeOK
    <3>2. CASE Receive(q)
      BY <1>1, <3>2 DEF Receive, Return, Inv, TypeOK
    <3> QED
      BY <1>7, <3>1, <3>2
  <2>2. clock - inForce[v] < TTL + QueryTimeout
    <3>1. v # -1
      BY MaxVersionAssumption DEF Versions
    <3>2. ParamsAreRecent'
      BY DEF Inv
    <3> QED
      BY <1>1, <2>1, <3>1, <3>2 DEF ParamsAreRecent
  <2> QED
    BY <1>6, <2>1, <2>2 DEF Staleness!Next
<1>8. CASE Fail(q)
  <2>1. Return(q, -1) /\ pc[q] # "idle"
    BY <1>8 DEF Fail
  <2>2. Staleness!Decline(q)
    BY <1>1, <1>2, <1>5, <2>1
       DEF Staleness!Decline, Staleness!End,
           truthBar, lastTrueBar, openBar, askedBar, settledBar, givenBar
  <2> QED
    BY <2>2 DEF Staleness!Next
<1> QED
  BY <1>3, <1>4, <1>7, <1>8 DEF Step

\* Every step is a step of BoundedStaleness or a stutter.
LEMMA NextRefines == Inv /\ Inv' /\ [Next]_vars => [Staleness!Next]_(Staleness!vars)
<1> SUFFICES ASSUME Inv, Inv', [Next]_vars
             PROVE  Staleness!Next \/ UNCHANGED Staleness!vars
  OBVIOUS
<1>1. CASE Govern \/ Tick
  BY <1>1, WorldRefines DEF Staleness!Next
<1>2. ASSUME NEW q \in Requests, Call(q) \/ Step(q)
      PROVE  Staleness!Next \/ UNCHANGED Staleness!vars
  BY <1>2, CallRefines
<1>3. CASE UNCHANGED vars \/ \E q \in Requests : Hang(q)
  BY <1>3 DEF vars, callVars, Hang, Staleness!vars
<1> QED
  BY <1>1, <1>2, <1>3 DEF Next

\* walletParams implements BoundedStaleness under the refinement mapping: a
\* call ends with params in force less than TTL + QueryTimeout seconds before,
\* or with an error, however the calls queue on the mutex (service.go:130-143).
THEOREM Refinement == Spec => ImplementsBoundedStaleness
<1>1. Spec => Staleness!Spec
  BY InitRefines, NextRefines, InvHolds, PTL DEF Spec, Staleness!Spec
<1> QED
  BY <1>1 DEF ImplementsBoundedStaleness
=============================================================================
