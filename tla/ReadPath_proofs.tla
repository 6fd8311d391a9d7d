--------------------------- MODULE ReadPath_proofs --------------------------
(***************************************************************************)
(* Proofs about the delegated read path, for every number of concurrent    *)
(* calls and credentials, every TTL, timeout and cap:                      *)
(*   - checkRootState and its cache (RootStateCache): types, verdicts at   *)
(*     most TTL + QueryTimeout seconds behind the chain, and the           *)
(*     refinement of BoundedStaleness;                                     *)
(*   - the table of tenants (ReadTenants): its cap, its refusals and that  *)
(*     no live tenant is pushed out;                                       *)
(*   - the two composed (ReadPath): what a served read rests on.           *)
(***************************************************************************)
EXTENDS ReadPath, FiniteSetTheorems, TLAPS

-----------------------------------------------------------------------------
\* checkRootState.

\* The state x (an entry or an answer) speaks for or against every credential
\* of root r as the chain did at time t or later.
SpokeSince(x, r, t) ==
  \A e \in Epochs : t <= IF Accepts(x, e) THEN held[r][e] ELSE barred[r][e]

\* No stamp of the history lies ahead of the clock.
HistoryPast ==
  \A r \in Roots : \A e \in Epochs : held[r][e] <= clock /\ barred[r][e] <= clock

\* What the chain says now is stamped with the present.
HistoryNow ==
  \A r \in Roots : \A e \in Epochs :
    clock = IF Honours(chain[r], e) THEN held[r][e] ELSE barred[r][e]

\* A query in flight left in the past, and a served answer is not older than
\* the query.
AnswerSound ==
  \A q \in Requests :
    /\ pc[q] \in {"wait", "answered"} => sent[q] <= clock
    /\ pc[q] = "answered" /\ answer[q].live => SpokeSince(answer[q], cred[q].root, sent[q])

\* A cached entry was true of the chain at most a round trip before its stamp.
CacheSound ==
  \A r \in Roots :
    cache[r] # NoEntry => SpokeSince(cache[r], r, cache[r].fetched - QueryTimeout)

\* So is the entry a request is about to store or to decide on, and it was
\* fresh when its age was judged.
EntrySound ==
  \A q \in Requests :
    pc[q] \in {"store", "decide"} =>
      /\ entry[q] # NoEntry
      /\ judged[q] - entry[q].fetched < TTL
      /\ SpokeSince(entry[q], cred[q].root, entry[q].fetched - QueryTimeout)

\* A verdict belongs to the last call, which has returned.
VerdictWhenIdle == \A q \in Requests : pc[q] # "idle" => verdict[q] = "none"

Inv ==
  /\ TypeOK
  /\ HistoryPast
  /\ HistoryNow
  /\ AnswerSound
  /\ CacheSound
  /\ EntrySound
  /\ VerdictWhenIdle
  /\ VerdictIsRecent

-----------------------------------------------------------------------------
\* The initial states satisfy the invariant.
LEMMA InitInv == Init => Inv
<1> SUFFICES ASSUME Init PROVE Inv
  OBVIOUS
<1> USE RootsAssumption, MaxEpochAssumption, TTLAssumption,
        QueryTimeoutAssumption, MaxTimeAssumption
<1>1. TypeOK
  <2>1. (CHOOSE r \in Roots : TRUE) \in Roots
    BY RootsAssumption
  <2>2. chain \in [Roots -> RootStates]
    BY DEF Init
  <2>3. /\ held \in [Roots -> [Epochs -> Times \cup {Never}]]
        /\ barred \in [Roots -> [Epochs -> Times \cup {Never}]]
    BY DEF Init, Times
  <2> QED
    BY <2>1, <2>2, <2>3 DEF Init, TypeOK, Times, Epochs, Credentials, RootStates,
       Entries, NoEntry, NoAnswer, Labels, Verdicts
<1>2. HistoryPast /\ HistoryNow
  BY DEF Init, HistoryPast, HistoryNow, Never, Honours
<1>3. AnswerSound /\ CacheSound /\ EntrySound /\ VerdictWhenIdle
  BY DEF Init, AnswerSound, CacheSound, EntrySound, VerdictWhenIdle
<1>4. VerdictIsRecent
  BY DEF Init, VerdictIsRecent
<1> QED
  BY <1>1, <1>2, <1>3, <1>4 DEF Inv

\* Bringing the history up to the clock only moves stamps forward, and
\* stamps what the chain says with the present.
LEMMA RecordAdvances ==
  ASSUME TypeOK, HistoryPast,
         chain' \in [Roots -> RootStates], clock' \in Times, clock <= clock',
         Record(chain', clock')
  PROVE  /\ held' \in [Roots -> [Epochs -> Times \cup {Never}]]
         /\ barred' \in [Roots -> [Epochs -> Times \cup {Never}]]
         /\ \A r \in Roots : \A e \in Epochs :
              /\ held[r][e] <= held'[r][e] /\ held'[r][e] <= clock'
              /\ barred[r][e] <= barred'[r][e] /\ barred'[r][e] <= clock'
              /\ clock' = IF Honours(chain'[r], e) THEN held'[r][e] ELSE barred'[r][e]
<1> USE TTLAssumption, QueryTimeoutAssumption, MaxTimeAssumption
<1>1. ASSUME NEW r \in Roots, NEW e \in Epochs
      PROVE  /\ held'[r][e] = IF Honours(chain'[r], e) THEN clock' ELSE held[r][e]
             /\ barred'[r][e] = IF Honours(chain'[r], e) THEN barred[r][e] ELSE clock'
             /\ held[r][e] \in Times \cup {Never}
             /\ barred[r][e] \in Times \cup {Never}
             /\ held[r][e] <= clock /\ barred[r][e] <= clock
  BY DEF Record, HistoryPast, TypeOK
<1>2. /\ held' \in [Roots -> [Epochs -> Times \cup {Never}]]
      /\ barred' \in [Roots -> [Epochs -> Times \cup {Never}]]
  BY <1>1 DEF Record
<1>3. ASSUME NEW r \in Roots, NEW e \in Epochs
      PROVE  /\ held[r][e] <= held'[r][e] /\ held'[r][e] <= clock'
             /\ barred[r][e] <= barred'[r][e] /\ barred'[r][e] <= clock'
             /\ clock' = IF Honours(chain'[r], e) THEN held'[r][e] ELSE barred'[r][e]
  <2>1. clock \in Times
    BY DEF TypeOK
  <2> QED
    BY <1>1, <2>1 DEF Times, Never
<1> QED
  BY <1>2, <1>3

\* A step of the chain or of the clock preserves the invariant: the stamps it
\* moves forward only make what the requests and the cache hold more recent.
LEMMA EnvironmentStep ==
  ASSUME Inv,
         chain' \in [Roots -> RootStates], clock' \in Times, clock <= clock',
         Record(chain', clock'), UNCHANGED <<cache, callVars>>
  PROVE  Inv'
<1> USE TTLAssumption, QueryTimeoutAssumption, MaxTimeAssumption DEF Inv
<1>1. /\ held' \in [Roots -> [Epochs -> Times \cup {Never}]]
      /\ barred' \in [Roots -> [Epochs -> Times \cup {Never}]]
      /\ \A r \in Roots : \A e \in Epochs :
           /\ held[r][e] <= held'[r][e] /\ held'[r][e] <= clock'
           /\ barred[r][e] <= barred'[r][e] /\ barred'[r][e] <= clock'
           /\ clock' = IF Honours(chain'[r], e) THEN held'[r][e] ELSE barred'[r][e]
  BY RecordAdvances
<1>2. TypeOK'
  BY <1>1 DEF TypeOK, callVars
<1>3. HistoryPast' /\ HistoryNow'
  BY <1>1 DEF HistoryPast, HistoryNow
<1>4. ASSUME NEW r \in Roots, NEW e \in Epochs
      PROVE  /\ held[r][e] \in Int /\ held'[r][e] \in Int
             /\ barred[r][e] \in Int /\ barred'[r][e] \in Int
  BY <1>1 DEF TypeOK, Times, Never
<1>5. ASSUME NEW x, NEW r \in Roots, NEW t \in Int, SpokeSince(x, r, t)
      PROVE  SpokeSince(x, r, t)'
  BY <1>1, <1>4, <1>5 DEF SpokeSince
<1>6. AnswerSound'
  <2> SUFFICES ASSUME NEW q \in Requests
               PROVE  /\ pc'[q] \in {"wait", "answered"} => sent'[q] <= clock'
                      /\ pc'[q] = "answered" /\ answer'[q].live =>
                           SpokeSince(answer[q], cred[q].root, sent[q])'
    BY DEF AnswerSound
  <2>1. sent[q] \in Int /\ cred[q].root \in Roots /\ clock \in Int /\ clock' \in Int
    BY DEF TypeOK, Times, Credentials
  <2>2. UNCHANGED <<pc, cred, sent, answer>>
    BY DEF callVars
  <2> QED
    BY <1>5, <2>1, <2>2 DEF AnswerSound
<1>7. CacheSound'
  <2>1. ASSUME NEW r \in Roots, cache[r] # NoEntry
        PROVE  cache[r].fetched - QueryTimeout \in Int
    BY <2>1 DEF TypeOK, Entries, Times
  <2> QED
    BY <1>5, <2>1 DEF CacheSound
<1>8. EntrySound'
  <2>1. ASSUME NEW q \in Requests, entry[q] # NoEntry
        PROVE  entry[q].fetched - QueryTimeout \in Int /\ cred[q].root \in Roots
    BY <2>1 DEF TypeOK, Entries, Times, Credentials
  <2>2. UNCHANGED <<pc, cred, entry, judged>>
    BY DEF callVars
  <2> QED
    BY <1>5, <2>1, <2>2 DEF EntrySound
<1>9. VerdictWhenIdle'
  BY DEF VerdictWhenIdle, callVars
<1>10. VerdictIsRecent'
  <2> SUFFICES ASSUME NEW q \in Requests
               PROVE  /\ verdict[q] = "ok" =>
                           judged[q] - held'[cred[q].root][cred[q].epoch]
                             < TTL + QueryTimeout
                      /\ verdict[q] = "refused" =>
                           judged[q] - barred'[cred[q].root][cred[q].epoch]
                             < TTL + QueryTimeout
    BY DEF VerdictIsRecent, callVars
  <2>1. judged[q] \in Int /\ cred[q].root \in Roots /\ cred[q].epoch \in Epochs
    BY DEF TypeOK, Times, Credentials
  <2> QED
    BY <1>1, <1>4, <2>1 DEF VerdictIsRecent
<1> QED
  BY <1>2, <1>3, <1>6, <1>7, <1>8, <1>9, <1>10

\* The steps of a request keep the types.
LEMMA RequestType ==
  ASSUME TypeOK, NEW q \in Requests, Call(q) \/ Step(q)
  PROVE  TypeOK'
<1> USE MaxTimeAssumption, MaxEpochAssumption
    DEF TypeOK, Labels, Verdicts, Times, Epochs
<1>0. NoAnswer \in RootStates
  BY DEF NoAnswer, RootStates
<1>1. CASE Call(q)
  BY <1>1 DEF Call, history
<1>2. CASE Lookup(q)
  <2>1. cache[cred[q].root] \in Entries \cup {NoEntry}
    BY DEF Credentials
  <2> QED
    BY <1>2, <2>1 DEF Lookup, history
<1>3. CASE Ask(q)
  BY <1>3 DEF Ask, history
<1>4. CASE Serve(q)
  <2>1. chain[cred[q].root] \in RootStates
    BY DEF Credentials
  <2> QED
    BY <1>4, <2>1 DEF Serve, history
<1>5. CASE Fail(q)
  BY <1>0, <1>5 DEF Fail, EndQuery, history
<1>6. CASE Receive(q)
  <2>1. [epoch |-> answer[q].epoch, paused |-> answer[q].paused, fetched |-> clock]
          \in Entries
    BY DEF RootStates, Entries
  <2> QED
    BY <1>0, <1>6, <2>1 DEF Receive, EndQuery, history
<1>7. CASE Store(q)
  BY <1>7 DEF Store, history, Credentials
<1>8. CASE Decide(q)
  BY <1>8 DEF Decide, history
<1> QED
  BY <1>1, <1>2, <1>3, <1>4, <1>5, <1>6, <1>7, <1>8 DEF Step

\* The steps of a request preserve the invariant: an answer is as recent as
\* its query, an entry at most a round trip older than its stamp, and the
\* cache hands an entry on only while the stamp is younger than the TTL.
LEMMA RequestStep ==
  ASSUME Inv, NEW q \in Requests, Call(q) \/ Step(q)
  PROVE  Inv'
<1> USE TTLAssumption, QueryTimeoutAssumption, MaxTimeAssumption DEF Inv
<1>1. TypeOK'
  BY RequestType
<1>2. UNCHANGED <<clock, chain, held, barred>>
  BY DEF Call, Step, Lookup, Ask, Serve, Fail, Receive, Store, Decide, history
<1>3. HistoryPast' /\ HistoryNow'
  BY <1>2 DEF HistoryPast, HistoryNow
<1>4. ASSUME NEW x, NEW r, NEW t
      PROVE  SpokeSince(x, r, t)' <=> SpokeSince(x, r, t)
  BY <1>2 DEF SpokeSince
<1>5. \A p \in Requests \ {q} :
        /\ pc'[p] = pc[p] /\ cred'[p] = cred[p] /\ entry'[p] = entry[p]
        /\ sent'[p] = sent[p] /\ answer'[p] = answer[p] /\ judged'[p] = judged[p]
        /\ verdict'[p] = verdict[p]
  BY DEF TypeOK, Call, Step, Lookup, Ask, Serve, Fail, Receive, Store, Decide, EndQuery
<1>6. cred[q].root \in Roots /\ cred[q].epoch \in Epochs
  BY DEF TypeOK, Credentials
<1>7. AnswerSound'
  <2> SUFFICES ASSUME NEW p \in Requests
               PROVE  /\ pc'[p] \in {"wait", "answered"} => sent'[p] <= clock'
                      /\ pc'[p] = "answered" /\ answer'[p].live =>
                           SpokeSince(answer'[p], cred'[p].root, sent'[p])
    BY <1>4 DEF AnswerSound
  <2>1. CASE p # q
    BY <1>2, <1>5, <2>1 DEF AnswerSound
  <2>2. CASE p = q /\ Ask(q)
    BY <2>2 DEF Ask, TypeOK, Times
  <2>3. CASE p = q /\ Serve(q)
    <3>1. sent[q] <= clock /\ sent'[q] = sent[q] /\ cred'[q] = cred[q] /\ clock' = clock
      BY <2>3 DEF Serve, AnswerSound
    <3>2. answer'[q] = chain[cred[q].root]
      BY <2>3 DEF Serve, TypeOK
    <3>3. ASSUME chain[cred[q].root].live
          PROVE  SpokeSince(chain[cred[q].root], cred[q].root, clock)
      <4> SUFFICES ASSUME NEW e \in Epochs
                   PROVE  clock <= IF Accepts(chain[cred[q].root], e)
                                     THEN held[cred[q].root][e]
                                     ELSE barred[cred[q].root][e]
        BY DEF SpokeSince
      <4>1. Honours(chain[cred[q].root], e) <=> Accepts(chain[cred[q].root], e)
        BY <3>3 DEF Honours, Accepts
      <4>2. clock = IF Honours(chain[cred[q].root], e)
                      THEN held[cred[q].root][e] ELSE barred[cred[q].root][e]
        BY <1>6 DEF HistoryNow
      <4>3. clock \in Int
        BY DEF TypeOK, Times
      <4> QED
        BY <4>1, <4>2, <4>3
    <3>4. ASSUME chain[cred[q].root].live
          PROVE  SpokeSince(chain[cred[q].root], cred[q].root, sent[q])
      <4>1. ASSUME NEW e \in Epochs
            PROVE  /\ held[cred[q].root][e] \in Int /\ barred[cred[q].root][e] \in Int
                   /\ clock \in Int /\ sent[q] \in Int
        BY <1>6 DEF TypeOK, Times, Never
      <4> QED
        BY <3>1, <3>3, <3>4, <4>1 DEF SpokeSince
    <3> QED
      BY <2>3, <3>1, <3>2, <3>4
  <2>4. CASE p = q /\ ~Ask(q) /\ ~Serve(q)
    BY <2>4 DEF Call, Step, Lookup, Fail, Receive, Store, Decide, TypeOK
  <2> QED
    BY <2>1, <2>2, <2>3, <2>4
<1>8. EntrySound'
  <2> SUFFICES ASSUME NEW p \in Requests, pc'[p] \in {"store", "decide"}
               PROVE  /\ entry'[p] # NoEntry
                      /\ judged'[p] - entry'[p].fetched < TTL
                      /\ SpokeSince(entry'[p], cred'[p].root,
                                    entry'[p].fetched - QueryTimeout)
    BY <1>4 DEF EntrySound
  <2>1. CASE p # q
    BY <1>5, <2>1 DEF EntrySound
  <2>2. CASE p = q /\ Lookup(q)
    <3> DEFINE en == cache[cred[q].root]
    <3>1. Fresh(en, clock) /\ entry'[q] = en /\ judged'[q] = clock /\ cred'[q] = cred[q]
      BY <2>2 DEF Lookup, TypeOK
    <3>2. SpokeSince(en, cred[q].root, en.fetched - QueryTimeout)
      BY <1>6, <3>1 DEF CacheSound, Fresh
    <3> QED
      BY <2>2, <3>1, <3>2 DEF Fresh
  <2>3. CASE p = q /\ Receive(q)
    <3> DEFINE en == [epoch |-> answer[q].epoch, paused |-> answer[q].paused,
                      fetched |-> clock]
    <3>1. entry'[q] = en /\ judged'[q] = clock /\ cred'[q] = cred[q]
      BY <2>3 DEF Receive, TypeOK
    <3>2. /\ SpokeSince(answer[q], cred[q].root, sent[q])
          /\ clock - QueryTimeout <= sent[q]
      BY <2>3 DEF Receive, AnswerSound, TypeOK, Times
    <3>3. SpokeSince(en, cred[q].root, clock - QueryTimeout)
      BY <1>6, <3>2 DEF SpokeSince, Accepts, TypeOK, Times, Never
    <3>4. en # NoEntry /\ clock - en.fetched < TTL
      BY DEF NoEntry, TypeOK, Times
    <3> HIDE DEF en
    <3>5. en.fetched = clock
      BY DEF en
    <3> QED
      BY <2>3, <3>1, <3>3, <3>4, <3>5
  <2>4. CASE p = q /\ Store(q)
    BY <2>4 DEF Store, EntrySound
  <2>5. CASE p = q /\ ~Lookup(q) /\ ~Receive(q) /\ ~Store(q)
    BY <2>5 DEF Call, Step, Ask, Serve, Fail, Decide, TypeOK
  <2> QED
    BY <2>1, <2>2, <2>3, <2>4, <2>5
<1>9. CacheSound'
  <2> SUFFICES ASSUME NEW r \in Roots, cache'[r] # NoEntry
               PROVE  SpokeSince(cache'[r], r, cache'[r].fetched - QueryTimeout)
    BY <1>4 DEF CacheSound
  <2>1. CASE Store(q) /\ r = cred[q].root
    BY <2>1 DEF Store, EntrySound, TypeOK
  <2>2. CASE Store(q) /\ r # cred[q].root
    BY <2>2 DEF Store, CacheSound, TypeOK
  <2>3. CASE ~Store(q)
    BY <2>3 DEF Call, Step, Lookup, Ask, Serve, Fail, Receive, Decide, CacheSound
  <2> QED
    BY <2>1, <2>2, <2>3
<1>10. VerdictWhenIdle'
  BY DEF VerdictWhenIdle, Call, Step, Lookup, Ask, Serve, Fail, Receive, Store,
     Decide, TypeOK
<1>11. VerdictIsRecent'
  <2> SUFFICES ASSUME NEW p \in Requests
               PROVE  /\ verdict'[p] = "ok" =>
                           judged'[p] - held[cred'[p].root][cred'[p].epoch]
                             < TTL + QueryTimeout
                      /\ verdict'[p] = "refused" =>
                           judged'[p] - barred[cred'[p].root][cred'[p].epoch]
                             < TTL + QueryTimeout
    BY <1>2 DEF VerdictIsRecent
  <2>1. CASE p # q
    BY <1>5, <2>1 DEF VerdictIsRecent
  <2>2. CASE p = q /\ Decide(q)
    <3> DEFINE r == cred[q].root
               e == cred[q].epoch
    <3>1. /\ judged'[q] = judged[q] /\ cred'[q] = cred[q]
          /\ verdict'[q] = IF Accepts(entry[q], e) THEN "ok" ELSE "refused"
      BY <2>2 DEF Decide, TypeOK
    <3>2. /\ entry[q].fetched - QueryTimeout
               <= IF Accepts(entry[q], e) THEN held[r][e] ELSE barred[r][e]
          /\ judged[q] - entry[q].fetched < TTL
          /\ entry[q] \in Entries
      BY <1>6, <2>2 DEF Decide, EntrySound, SpokeSince, TypeOK
    <3>3. /\ entry[q].fetched \in Int /\ judged[q] \in Int
          /\ held[r][e] \in Int /\ barred[r][e] \in Int
      BY <1>6, <3>2 DEF TypeOK, Entries, Times, Never
    <3> HIDE DEF r, e
    <3>4. CASE Accepts(entry[q], e)
      <4>1. judged[q] - held[r][e] < TTL + QueryTimeout
        BY <3>2, <3>3, <3>4
      <4> QED
        BY <2>2, <3>1, <3>4, <4>1 DEF r, e
    <3>5. CASE ~Accepts(entry[q], e)
      <4>1. judged[q] - barred[r][e] < TTL + QueryTimeout
        BY <3>2, <3>3, <3>5
      <4> QED
        BY <2>2, <3>1, <3>5, <4>1 DEF r, e
    <3> QED
      BY <3>4, <3>5
  <2>3. CASE p = q /\ ~Decide(q)
    BY <2>3 DEF Call, Step, Lookup, Ask, Serve, Fail, Receive, Store,
       VerdictWhenIdle, TypeOK
  <2> QED
    BY <2>1, <2>2, <2>3
<1> QED
  BY <1>1, <1>3, <1>7, <1>8, <1>9, <1>10, <1>11

\* Every step of the specification preserves the invariant.
LEMMA NextInv == Inv /\ [Next]_vars => Inv'
<1> SUFFICES ASSUME Inv, [Next]_vars PROVE Inv'
  OBVIOUS
<1> USE DEF history
<1>1. CASE Tick
  <2>1. /\ chain' \in [Roots -> RootStates] /\ clock' \in Times /\ clock <= clock'
        /\ Record(chain', clock') /\ UNCHANGED <<cache, callVars>>
    BY <1>1, MaxTimeAssumption DEF Tick, Record, Inv, TypeOK, Times
  <2> QED
    BY <2>1, EnvironmentStep
<1>2. CASE \E r \in Roots : Pause(r) \/ Resume(r) \/ NewEpoch(r) \/ Remove(r)
  <2>1. PICK r \in Roots : Pause(r) \/ Resume(r) \/ NewEpoch(r) \/ Remove(r)
    BY <1>2
  <2>2. \E s \in RootStates : SetRoot(r, s)
    <3>1. chain[r] \in RootStates
      BY DEF Inv, TypeOK
    <3>2. /\ [chain[r] EXCEPT !.paused = TRUE] \in RootStates
          /\ [chain[r] EXCEPT !.paused = FALSE] \in RootStates
          /\ [chain[r] EXCEPT !.live = FALSE] \in RootStates
          /\ chain[r].epoch < MaxEpoch =>
               [chain[r] EXCEPT !.epoch = @ + 1] \in RootStates
      <4>1. [chain[r] EXCEPT !.paused = TRUE] \in RootStates
        BY <3>1 DEF RootStates
      <4>2. [chain[r] EXCEPT !.paused = FALSE] \in RootStates
        BY <3>1 DEF RootStates
      <4>3. [chain[r] EXCEPT !.live = FALSE] \in RootStates
        BY <3>1 DEF RootStates
      <4>4. ASSUME chain[r].epoch < MaxEpoch
            PROVE  [chain[r] EXCEPT !.epoch = @ + 1] \in RootStates
        <5>1. chain[r].epoch + 1 \in Epochs
          BY <3>1, <4>4, MaxEpochAssumption DEF RootStates, Epochs
        <5> QED
          BY <3>1, <5>1 DEF RootStates
      <4> QED
        BY <4>1, <4>2, <4>3, <4>4
    <3>3. CASE Pause(r)
      BY <3>2, <3>3, Zenon DEF Pause
    <3>4. CASE Resume(r)
      BY <3>2, <3>4, Zenon DEF Resume
    <3>5. CASE NewEpoch(r)
      <4> DEFINE next == [chain[r] EXCEPT !.epoch = @ + 1]
      <4>1. next \in RootStates
        BY <3>2, <3>5 DEF NewEpoch
      <4>2. SetRoot(r, next)
        BY <3>5, Zenon DEF NewEpoch
      <4> HIDE DEF next
      <4> QED
        BY <4>1, <4>2
    <3>6. CASE Remove(r)
      BY <3>2, <3>6, Zenon DEF Remove
    <3> QED
      BY <2>1, <3>3, <3>4, <3>5, <3>6
  <2>3. /\ chain' \in [Roots -> RootStates] /\ clock' \in Times /\ clock <= clock'
        /\ Record(chain', clock') /\ UNCHANGED <<cache, callVars>>
    BY <2>2, MaxTimeAssumption DEF SetRoot, Record, Inv, TypeOK, Times
  <2> QED
    BY <2>3, EnvironmentStep
<1>3. CASE \E q \in Requests : Call(q) \/ Step(q)
  BY <1>3, RequestStep
<1>4. CASE UNCHANGED vars
  BY <1>4 DEF vars, callVars, Inv, TypeOK, HistoryPast, HistoryNow, AnswerSound,
     CacheSound, EntrySound, SpokeSince, VerdictWhenIdle, VerdictIsRecent
<1> QED
  BY <1>1, <1>2, <1>3, <1>4 DEF Next, Environment

\* The invariant holds of every reachable state.
LEMMA InvHolds == Spec => []Inv
BY InitInv, NextInv, PTL DEF Spec

\* checkRootState's state keeps its types: the cache holds entries stamped by
\* the clock, and every request is at a point of the code.
THEOREM TypeCorrect == Spec => []TypeOK
<1>1. Inv => TypeOK
  BY DEF Inv
<1> QED
  BY <1>1, InvHolds, PTL

\* Revocation blindness is bounded: for every set of concurrent calls, every
\* set of roots, every TTL and every query timeout, a verdict on a root's
\* state is one the chain gave less than TTL + QueryTimeout seconds before
\* the entry's age was judged.
THEOREM BlindnessBounded == Spec => []VerdictIsRecent
<1>1. Inv => VerdictIsRecent
  BY DEF Inv
<1> QED
  BY <1>1, InvHolds, PTL

-----------------------------------------------------------------------------
(***************************************************************************)
(* checkRootState implements BoundedStaleness.                             *)
(***************************************************************************)

\* The variables of BoundedStaleness under the refinement mapping.
truthBar == [c \in Credentials |-> IF Honours(chain[c.root], c.epoch) THEN "ok" ELSE "refused"]
lastTrueBar ==
  [c \in Credentials |-> [a \in {"ok", "refused"} |->
     IF a = "ok" THEN held[c.root][c.epoch] ELSE barred[c.root][c.epoch]]]
openBar == [q \in Requests |-> pc[q] # "idle"]
settledBar ==
  [q \in Requests |->
     IF pc[q] \in {"store", "decide"} THEN Judgement(entry[q], cred[q].epoch) ELSE "none"]

LEMMA InitRefines == Init => Staleness!Init
<1> SUFFICES ASSUME Init PROVE Staleness!Init
  OBVIOUS
<1> USE TTLAssumption, QueryTimeoutAssumption
<1>1. Inv
  BY InitInv
<1>2. cred \in [Requests -> Credentials] /\ verdict \in [Requests -> {"none", "unavailable"}]
  BY <1>1 DEF Init, Inv, TypeOK
<1>3. ASSUME NEW c \in Credentials, NEW a \in {"ok", "refused"}
      PROVE  IF a = truthBar[c] THEN lastTrueBar[c][a] = 0
                                ELSE lastTrueBar[c][a] <= -(TTL + QueryTimeout)
  <2>1. c.root \in Roots /\ c.epoch \in Epochs
    BY DEF Credentials
  <2>2. CASE Honours(chain[c.root], c.epoch)
    <3>1. held[c.root][c.epoch] = 0 /\ barred[c.root][c.epoch] = Never
      BY <2>1, <2>2 DEF Init
    <3> QED
      BY <2>2, <3>1 DEF truthBar, lastTrueBar, Never
  <2>3. CASE ~Honours(chain[c.root], c.epoch)
    <3>1. held[c.root][c.epoch] = Never /\ barred[c.root][c.epoch] = 0
      BY <2>1, <2>3 DEF Init
    <3> QED
      BY <2>3, <3>1 DEF truthBar, lastTrueBar, Never
  <2> QED
    BY <2>2, <2>3
<1>4. truthBar \in [Credentials -> {"ok", "refused"}]
  BY DEF truthBar
<1>5. openBar = [q \in Requests |-> FALSE] /\ settledBar = [q \in Requests |-> "none"]
  BY DEF Init, openBar, settledBar
<1> QED
  BY <1>2, <1>3, <1>4, <1>5 DEF Init, Staleness!Init, truthBar, lastTrueBar, openBar, settledBar

\* The chain's transactions and the clock are the world of the abstraction.
LEMMA WorldRefines ==
  ASSUME Inv, chain' \in [Roots -> RootStates], clock' \in {clock, clock + 1},
         Record(chain', clock'), UNCHANGED <<cache, callVars>>
  PROVE  Staleness!World
<1>1. truthBar' \in [Credentials -> {"ok", "refused"}]
  BY DEF truthBar
<1>2. ASSUME NEW c \in Credentials, NEW a \in {"ok", "refused"}
      PROVE  lastTrueBar'[c][a] = IF a = truthBar'[c] THEN clock' ELSE lastTrueBar[c][a]
  <2>1. c.root \in Roots /\ c.epoch \in Epochs
    BY DEF Credentials
  <2>2. /\ held'[c.root][c.epoch] =
             IF Honours(chain'[c.root], c.epoch) THEN clock' ELSE held[c.root][c.epoch]
        /\ barred'[c.root][c.epoch] =
             IF Honours(chain'[c.root], c.epoch) THEN barred[c.root][c.epoch] ELSE clock'
    BY <2>1 DEF Record
  <2> QED
    BY <2>2 DEF truthBar, lastTrueBar
<1>3. lastTrueBar' = [c \in Credentials |-> [a \in {"ok", "refused"} |->
                        IF a = truthBar'[c] THEN clock' ELSE lastTrueBar[c][a]]]
  BY <1>2 DEF lastTrueBar
<1>4. UNCHANGED <<openBar, cred, settledBar, verdict>>
  BY DEF openBar, settledBar, callVars
<1> QED
  BY <1>1, <1>3, <1>4 DEF Staleness!World, truthBar, lastTrueBar, openBar, settledBar

\* A settled judgement is recent: the entry it rests on is sound and its age
\* was judged at this instant.
SettledRecent ==
  \A q \in Requests :
    pc[q] \in {"store", "decide"} /\ judged[q] = clock =>
      clock - lastTrueBar[cred[q]][Judgement(entry[q], cred[q].epoch)] < TTL + QueryTimeout

LEMMA SettledIsRecent == Inv => SettledRecent
<1> SUFFICES ASSUME Inv, NEW q \in Requests, pc[q] \in {"store", "decide"}, judged[q] = clock
             PROVE  clock - lastTrueBar[cred[q]][Judgement(entry[q], cred[q].epoch)]
                      < TTL + QueryTimeout
  BY DEF SettledRecent
<1> DEFINE r == cred[q].root
           e == cred[q].epoch
<1>1. cred[q] \in Credentials /\ r \in Roots /\ e \in Epochs
  BY DEF Inv, TypeOK, Credentials
<1>2. /\ clock - entry[q].fetched < TTL
      /\ entry[q].fetched - QueryTimeout
           <= IF Accepts(entry[q], e) THEN held[r][e] ELSE barred[r][e]
      /\ entry[q] \in Entries
  BY <1>1 DEF Inv, EntrySound, SpokeSince, TypeOK
<1>3. /\ entry[q].fetched \in Int /\ clock \in Int
      /\ held[r][e] \in Int /\ barred[r][e] \in Int
  BY <1>1, <1>2, TTLAssumption, QueryTimeoutAssumption, MaxTimeAssumption
     DEF Inv, TypeOK, Entries, Times, Never
<1>4. lastTrueBar[cred[q]][Judgement(entry[q], e)] =
        IF Accepts(entry[q], e) THEN held[r][e] ELSE barred[r][e]
  BY <1>1 DEF lastTrueBar, Judgement
<1> HIDE DEF r, e
<1> QED
  BY <1>2, <1>3, <1>4, TTLAssumption, QueryTimeoutAssumption DEF e

\* A request's steps leave the chain's side of the abstraction alone.
LEMMA TruthStays ==
  ASSUME UNCHANGED <<chain, held, barred>>
  PROVE  truthBar' = truthBar /\ lastTrueBar' = lastTrueBar
BY DEF truthBar, lastTrueBar

\* A call's own step is Ask, Settle, Give or Decline, or nothing is seen of it.
LEMMA RequestRefines ==
  ASSUME Inv, Inv', NEW q \in Requests, Call(q) \/ Step(q)
  PROVE  Staleness!Next \/ UNCHANGED Staleness!vars
<1> USE DEF history
<1>1. /\ pc \in [Requests -> Labels] /\ entry \in [Requests -> Entries \cup {NoEntry}]
      /\ cred \in [Requests -> Credentials] /\ verdict \in [Requests -> Verdicts]
  BY DEF Inv, TypeOK
<1>2. /\ UNCHANGED <<clock, chain, held, barred>>
      /\ truthBar' = truthBar /\ lastTrueBar' = lastTrueBar
  <2>1. UNCHANGED <<clock, chain, held, barred>>
    BY DEF Call, Step, Lookup, Ask, Serve, Fail, Receive, Store, Decide
  <2> QED
    BY <2>1, TruthStays
<1>3. CASE Call(q)
  <2>1. openBar[q] = FALSE /\ openBar' = [openBar EXCEPT ![q] = TRUE]
    BY <1>1, <1>3 DEF Call, openBar
  <2>2. settledBar' = settledBar
    BY <1>1, <1>3 DEF Call, settledBar
  <2>3. Staleness!Ask(q)
    BY <1>2, <1>3, <2>1, <2>2 DEF Call, Staleness!Ask, truthBar, lastTrueBar, openBar, settledBar
  <2> QED
    BY <2>3 DEF Staleness!Next
<1>4. ASSUME \/ Lookup(q) /\ Fresh(cache[cred[q].root], clock)
             \/ Receive(q)
      PROVE  Staleness!Settle(q)
  <2>1. /\ pc[q] \in {"lookup", "answered"} /\ pc'[q] \in {"store", "decide"}
        /\ judged'[q] = clock' /\ cred' = cred /\ verdict' = verdict
        /\ \A p \in Requests \ {q} : pc'[p] = pc[p] /\ entry'[p] = entry[p]
    BY <1>1, <1>2, <1>4 DEF Lookup, Receive, Inv, TypeOK
  <2> DEFINE a == Judgement(entry'[q], cred[q].epoch)
  <2>2. a \in {"ok", "refused"}
    BY DEF Judgement
  <2>3. clock - lastTrueBar[cred[q]][a] < TTL + QueryTimeout
    <3>1. SettledRecent'
      BY SettledIsRecent, PTL
    <3> QED
      BY <1>2, <2>1, <3>1 DEF SettledRecent
  <2>4. openBar[q] /\ openBar' = openBar
    BY <1>1, <2>1 DEF openBar
  <2>5. settledBar[q] = "none" /\ settledBar' = [settledBar EXCEPT ![q] = a]
    BY <1>1, <2>1 DEF settledBar, Judgement
  <2> HIDE DEF a
  <2> QED
    BY <1>2, <2>1, <2>2, <2>3, <2>4, <2>5
       DEF Staleness!Settle, Staleness!Recent, truthBar, lastTrueBar, openBar, settledBar
<1>5. CASE (Lookup(q) /\ ~Fresh(cache[cred[q].root], clock)) \/ Ask(q) \/ Serve(q) \/ Store(q)
  <2>1. openBar' = openBar /\ settledBar' = settledBar /\ UNCHANGED <<cred, verdict>>
    BY <1>1, <1>5 DEF Lookup, Ask, Serve, Store, openBar, settledBar
  <2> QED
    BY <1>2, <2>1 DEF Staleness!vars, truthBar, lastTrueBar, openBar, settledBar
<1>6. CASE Decide(q)
  <2> DEFINE a == Judgement(entry[q], cred[q].epoch)
  <2>1. a \in {"ok", "refused"} /\ settledBar[q] = a /\ openBar[q]
    BY <1>6 DEF Decide, settledBar, openBar, Judgement
  <2>2. /\ openBar' = [openBar EXCEPT ![q] = FALSE]
        /\ settledBar' = [settledBar EXCEPT ![q] = "none"]
        /\ verdict' = [verdict EXCEPT ![q] = a] /\ cred' = cred
    BY <1>1, <1>6 DEF Decide, settledBar, openBar, Judgement
  <2> HIDE DEF a
  <2>3. Staleness!Give(q)
    BY <1>2, <2>1, <2>2
       DEF Staleness!Give, Staleness!End, truthBar, lastTrueBar, openBar, settledBar
  <2> QED
    BY <2>3 DEF Staleness!Next
<1>7. CASE Fail(q)
  <2>1. settledBar[q] = "none" /\ openBar[q]
    BY <1>7 DEF Fail, settledBar, openBar
  <2>2. /\ openBar' = [openBar EXCEPT ![q] = FALSE]
        /\ settledBar' = [settledBar EXCEPT ![q] = "none"]
        /\ verdict' = [verdict EXCEPT ![q] = "unavailable"] /\ cred' = cred
    BY <1>1, <1>7 DEF Fail, settledBar, openBar
  <2>3. Staleness!Decline(q)
    BY <1>2, <2>1, <2>2
       DEF Staleness!Decline, Staleness!End, truthBar, lastTrueBar, openBar, settledBar
  <2> QED
    BY <2>3 DEF Staleness!Next
<1> QED
  BY <1>3, <1>4, <1>5, <1>6, <1>7 DEF Step, Staleness!Next

\* Every step is a step of BoundedStaleness or a stutter.
LEMMA NextRefines == Inv /\ Inv' /\ [Next]_vars => [Staleness!Next]_(Staleness!vars)
<1> SUFFICES ASSUME Inv, Inv', [Next]_vars
             PROVE  Staleness!Next \/ UNCHANGED Staleness!vars
  OBVIOUS
<1>1. CASE Environment
  <2>1. chain' \in [Roots -> RootStates]
    BY DEF Inv, TypeOK
  <2>2. clock' \in {clock, clock + 1} /\ Record(chain', clock') /\ UNCHANGED <<cache, callVars>>
    BY <1>1 DEF Environment, Tick, Pause, Resume, NewEpoch, Remove, SetRoot, Record
  <2>3. Staleness!World
    BY <2>1, <2>2, WorldRefines
  <2> QED
    BY <2>3 DEF Staleness!Next
<1>2. CASE \E q \in Requests : Call(q) \/ Step(q)
  BY <1>2, RequestRefines
<1>3. CASE UNCHANGED vars
  BY <1>3 DEF vars, callVars, history, Staleness!vars
<1> QED
  BY <1>1, <1>2, <1>3 DEF Next

\* checkRootState implements BoundedStaleness under the refinement mapping:
\* a call settles once, on what the chain said less than TTL + QueryTimeout
\* seconds before, and what other calls store meanwhile changes nothing
\* (reads.go:88-114).
THEOREM Refinement == Spec => ImplementsBoundedStaleness
<1>1. Spec => Staleness!Spec
  BY InitRefines, NextRefines, InvHolds, PTL DEF Spec, Staleness!Spec
<1> QED
  BY <1>1 DEF ImplementsBoundedStaleness

-----------------------------------------------------------------------------
\* The table of synthetic tenants.

\* A handler that was admitted, and not crowded out, still has its entry when
\* it comes to look it up, unless the token has expired since.
AdmittedKeepsPlace ==
  \A h \in Requests :
    tpc[h] = "lookup" /\ ~crowded[h] => tcred[h] \in byID \/ Table!Expired(tcred[h], clock)

\* A result belongs to the last call, which has returned.
ResultWhenIdle == \A h \in Requests : tpc[h] # "idle" => result[h] = "none"

TenantInv ==
  /\ Table!TypeOK
  /\ Table!TableBounded
  /\ AdmittedKeepsPlace
  /\ ResultWhenIdle
  /\ Table!UnknownHasACause

-----------------------------------------------------------------------------
\* The instance's cardinality and finiteness are the library's.
LEMMA SameCardinality ==
  ASSUME NEW S
  PROVE  /\ Table!Cardinality(S) = Cardinality(S)
         /\ Table!IsFiniteSet(S) <=> IsFiniteSet(S)
BY DEF Table!Cardinality, Cardinality, Table!IsFiniteSet, IsFiniteSet

\* Sweeping and storing keep a bounded table bounded.
LEMMA StoredBounded ==
  ASSUME NEW table, IsFiniteSet(table), Cardinality(table) <= maxReadTenants,
         NEW t, NEW c
  PROVE  /\ IsFiniteSet(Table!Stored(Table!sweepLocked(table, t), c))
         /\ Cardinality(Table!Stored(Table!sweepLocked(table, t), c)) <= maxReadTenants
<1> DEFINE swept == Table!sweepLocked(table, t)
<1>1. swept \subseteq table
  BY DEF Table!sweepLocked
<1>2. IsFiniteSet(swept) /\ Cardinality(swept) <= Cardinality(table)
  BY <1>1, FS_Subset
<1>3. Cardinality(swept) \in Nat /\ Cardinality(table) \in Nat
  BY <1>2, FS_CardinalityType
<1> HIDE DEF swept
<1>4. CASE c \notin swept /\ Cardinality(swept) >= maxReadTenants
  BY <1>2, <1>3, <1>4, CapAssumption, SameCardinality DEF Table!Stored, swept
<1>5. CASE c \in swept
  <2>1. swept \cup {c} = swept
    BY <1>5
  <2>2. Table!Stored(swept, c) = swept
    BY <1>5, <2>1 DEF Table!Stored
  <2> QED
    BY <1>2, <1>3, <2>2, CapAssumption DEF swept
<1>6. CASE c \notin swept /\ ~(Cardinality(swept) >= maxReadTenants)
  <2>1. IsFiniteSet(swept \cup {c}) /\ Cardinality(swept \cup {c}) = Cardinality(swept) + 1
    BY <1>2, <1>6, FS_AddElement
  <2>2. Table!Stored(swept, c) = swept \cup {c}
    BY <1>6, SameCardinality DEF Table!Stored
  <2>3. Cardinality(swept) + 1 <= maxReadTenants
    BY <1>3, <1>6, CapAssumption
  <2> QED
    BY <2>1, <2>2, <2>3 DEF swept
<1> QED
  BY <1>4, <1>5, <1>6

\* The sweep drops only expired entries, and storing drops none.
LEMMA LiveKept ==
  ASSUME NEW t, NEW c
  PROVE  Table!Live(t) \subseteq Table!Stored(Table!sweepLocked(byID, t), c)
BY DEF Table!Live, Table!Stored, Table!sweepLocked

\* The initial states satisfy the invariant.
LEMMA TenantInitInv == Table!Init => TenantInv
<1> SUFFICES ASSUME Table!Init PROVE TenantInv
  OBVIOUS
<1>1. (CHOOSE c \in Creds : TRUE) \in Creds
  BY CredsAssumption
<1>2. Table!TypeOK
  BY <1>1, MaxTimeAssumption DEF Table!Init, Table!TypeOK, Table!Times, Table!Labels, Table!Results
<1>3. Table!TableBounded
  BY FS_EmptySet, CapAssumption, SameCardinality DEF Table!Init, Table!TableBounded
<1> QED
  BY <1>2, <1>3 DEF Table!Init, TenantInv, AdmittedKeepsPlace, ResultWhenIdle,
     Table!UnknownHasACause

\* Every step preserves the invariant.
LEMMA TenantNextInv == TenantInv /\ [Table!Next]_(Table!vars) => TenantInv'
<1> SUFFICES ASSUME TenantInv, [Table!Next]_(Table!vars) PROVE TenantInv'
  OBVIOUS
<1> USE DEF TenantInv
<1>1. CASE Table!Tick
  <2>1. Table!TypeOK'
    BY <1>1, MaxTimeAssumption DEF Table!Tick, Table!TypeOK, Table!Times
  <2>2. AdmittedKeepsPlace'
    BY <1>1, ExpiresAssumption, MaxTimeAssumption
       DEF Table!Tick, AdmittedKeepsPlace, Table!Expired, Table!TypeOK, Table!Times
  <2> QED
    BY <1>1, <2>1, <2>2 DEF Table!Tick, Table!TableBounded, ResultWhenIdle, Table!UnknownHasACause
<1>2. ASSUME NEW h \in Requests, Table!Verify(h)
      PROVE  TenantInv'
  <2>1. Table!TypeOK'
    BY <1>2, MaxTimeAssumption DEF Table!Verify, Table!TypeOK, Table!Labels, Table!Results, Table!Times
  <2> QED
    BY <1>2, <2>1 DEF Table!Verify, Table!TypeOK, Table!TableBounded, AdmittedKeepsPlace,
       ResultWhenIdle, Table!UnknownHasACause
<1>3. ASSUME NEW h \in Requests, Table!Admit(h)
      PROVE  TenantInv'
  <2> DEFINE full == Cardinality(Table!Live(clock) \ {tcred[h]}) >= maxReadTenants
  <2>1. Table!TypeOK'
    <3>1. full \in BOOLEAN
      OBVIOUS
    <3>2. crowded' \in [Requests -> BOOLEAN]
      BY <1>3, <3>1 DEF Table!Admit, Table!TypeOK
    <3>3. byID' \subseteq Creds
      BY <1>3 DEF Table!Admit, Table!TypeOK, Table!Stored, Table!sweepLocked
    <3> QED
      BY <1>3, <3>2, <3>3 DEF Table!Admit, Table!TypeOK, Table!Labels
  <2>2. Table!TableBounded'
    BY <1>3, StoredBounded, SameCardinality DEF Table!Admit, Table!TableBounded
  <2>3. AdmittedKeepsPlace'
    <3> SUFFICES ASSUME NEW g \in Requests, tpc'[g] = "lookup", ~crowded'[g]
                 PROVE  tcred[g] \in byID' \/ Table!Expired(tcred[g], clock)
      BY <1>3 DEF AdmittedKeepsPlace, Table!Admit
    <3>1. CASE g # h
      <4>1. tcred[g] \in byID \/ Table!Expired(tcred[g], clock)
        BY <1>3, <3>1 DEF Table!Admit, AdmittedKeepsPlace, Table!TypeOK
      <4> QED
        BY <1>3, <4>1, LiveKept DEF Table!Admit, Table!Live
    <3>2. CASE g = h
      <4> DEFINE swept == Table!sweepLocked(byID, clock)
      <4>1. ~full
        BY <1>3, <3>2, SameCardinality DEF Table!Admit, Table!TypeOK
      <4>2. ASSUME tcred[h] \notin swept
            PROVE  ~(Cardinality(swept) >= maxReadTenants)
        <5>1. swept = Table!Live(clock) \ {tcred[h]}
          BY <4>2 DEF Table!Live, Table!sweepLocked
        <5> QED
          BY <4>1, <5>1
      <4>3. tcred[h] \in Table!Stored(swept, tcred[h])
        BY <4>2, SameCardinality DEF Table!Stored
      <4> QED
        BY <1>3, <3>2, <4>3 DEF Table!Admit
    <3> QED
      BY <3>1, <3>2
  <2>4. ResultWhenIdle' /\ Table!UnknownHasACause'
    BY <1>3 DEF Table!Admit, Table!TypeOK, ResultWhenIdle, Table!UnknownHasACause
  <2> QED
    BY <2>1, <2>2, <2>3, <2>4
<1>4. ASSUME NEW h \in Requests, Table!LookupTenantPolicy(h)
      PROVE  TenantInv'
  <2>1. Table!TypeOK'
    BY <1>4 DEF Table!LookupTenantPolicy, Table!TypeOK, Table!Labels, Table!Results
  <2>2. Table!TableBounded' /\ AdmittedKeepsPlace' /\ ResultWhenIdle'
    BY <1>4 DEF Table!LookupTenantPolicy, Table!TypeOK, Table!TableBounded, AdmittedKeepsPlace,
       ResultWhenIdle
  <2>3. Table!UnknownHasACause'
    BY <1>4 DEF Table!LookupTenantPolicy, Table!Resolves, Table!TypeOK, AdmittedKeepsPlace,
       Table!UnknownHasACause
  <2> QED
    BY <2>1, <2>2, <2>3
<1>5. ASSUME NEW h \in Requests,
             Table!PinRefuses(h) \/ \E ok \in BOOLEAN : Table!RootChecked(h, ok)
      PROVE  TenantInv'
  <2>1. Table!TypeOK'
    BY <1>5 DEF Table!PinRefuses, Table!RootChecked, Table!Refuse, Table!TypeOK, Table!Labels, Table!Results
  <2> QED
    BY <1>5, <2>1 DEF Table!PinRefuses, Table!RootChecked, Table!Refuse, Table!TypeOK, Table!TableBounded,
       AdmittedKeepsPlace, ResultWhenIdle, Table!UnknownHasACause
<1>6. CASE UNCHANGED Table!vars
  BY <1>6 DEF Table!vars, Table!TypeOK, Table!TableBounded, AdmittedKeepsPlace, ResultWhenIdle,
     Table!UnknownHasACause
<1> QED
  BY <1>1, <1>2, <1>3, <1>4, <1>5, <1>6 DEF Table!Next

\* The invariant holds of every reachable state.
LEMMA TenantInvHolds == Table!Spec => []TenantInv
BY TenantInitInv, TenantNextInv, PTL DEF Table!Spec

\* No step of the table removes the entry of a credential that has not expired.
LEMMA TenantStays == [Table!Next]_(Table!vars) => Table!Live(clock) \subseteq byID'
<1> SUFFICES ASSUME [Table!Next]_(Table!vars) PROVE Table!Live(clock) \subseteq byID'
  OBVIOUS
<1>1. ASSUME NEW h \in Requests, Table!Admit(h)
      PROVE  Table!Live(clock) \subseteq byID'
  BY <1>1, LiveKept DEF Table!Admit
<1>2. CASE byID' = byID
  BY <1>2 DEF Table!Live
<1> QED
  BY <1>1, <1>2 DEF Table!Next, Table!vars, Table!Tick, Table!Verify, Table!RootChecked,
     Table!PinRefuses, Table!Refuse, Table!LookupTenantPolicy

-----------------------------------------------------------------------------
\* The read path.

\* How one call's two halves hang together: it is inside checkRootState
\* exactly while its handler waits for the root check, the credential checked
\* is the one presented, and what the handler has become since says how the
\* check ended.
Joined(h) ==
  /\ tpc[h] = "check" <=> pc[h] # "idle"
  /\ tpc[h] # "idle" \/ result[h] # "none" => cred[h] = RootOf[tcred[h]]
  /\ tpc[h] \in {"admit", "lookup"} => verdict[h] = "ok"
  /\ result[h] = "served" => verdict[h] = "ok" /\ judged[h] <= looked[h]
  /\ judged[h] <= clock

AllJoined == \A h \in Requests : Joined(h)

PathInv == Inv /\ TenantInv /\ AllJoined

\* A step of the path is a step of each of its halves, or leaves it alone.
LEMMA PathStep ==
  [PathNext]_pathVars => [Next]_vars /\ [Table!Next]_(Table!vars)
<1> SUFFICES ASSUME [PathNext]_pathVars
             PROVE  [Next]_vars /\ [Table!Next]_(Table!vars)
  OBVIOUS
<1>1. CASE PathTick
  BY <1>1 DEF PathTick, Next, Environment, Table!Next
<1>2. ASSUME NEW r \in Roots, Root(r)
      PROVE  [Next]_vars /\ [Table!Next]_(Table!vars)
  <2>1. Next
    BY <1>2 DEF Root, Next, Environment
  <2>2. clock' = clock
    BY <1>2 DEF Root, Pause, Resume, NewEpoch, Remove, SetRoot
  <2> QED
    BY <1>2, <2>1, <2>2 DEF Root, tenantVars, Table!vars
<1>3. ASSUME NEW h \in Requests, Begin(h)
      PROVE  Next /\ Table!Next
  BY <1>3 DEF Begin, Next, Table!Next
<1>4. ASSUME NEW h \in Requests, InCheck(h)
      PROVE  Next /\ UNCHANGED Table!vars
  <2>1. Next
    BY <1>4 DEF InCheck, Next, Step
  <2>2. clock' = clock
    BY <1>4 DEF InCheck, Lookup, Ask, Serve, Receive, Store
  <2> QED
    BY <1>4, <2>1, <2>2 DEF InCheck, tenantVars, Table!vars
<1>5. ASSUME NEW h \in Requests, EndCheck(h)
      PROVE  Next /\ Table!Next
  <2>1. Next
    BY <1>5 DEF EndCheck, Next, Step
  <2>2. \E ok \in BOOLEAN : Table!RootChecked(h, ok)
    <3>1. (verdict'[h] = "ok") \in BOOLEAN
      OBVIOUS
    <3>2. Table!RootChecked(h, verdict'[h] = "ok")
      BY <1>5 DEF EndCheck
    <3> QED
      BY <3>1, <3>2
  <2> QED
    BY <2>1, <2>2 DEF Table!Next
<1>6. ASSUME NEW h \in Requests, Proceed(h)
      PROVE  UNCHANGED vars /\ Table!Next
  BY <1>6 DEF Proceed, Table!Next
<1>7. CASE UNCHANGED pathVars
  BY <1>7 DEF pathVars, vars, tenantVars, Table!vars
<1> QED
  BY <1>1, <1>2, <1>3, <1>4, <1>5, <1>6, <1>7 DEF PathNext

\* The path implements each of its halves.
LEMMA PathIsBoth == PathSpec => Spec /\ Table!Spec
<1>1. PathInit => Init /\ Table!Init
  BY DEF PathInit
<1> QED
  BY <1>1, PathStep, PTL DEF PathSpec, Spec, Table!Spec

\* The halves start joined.
LEMMA InitJoined == PathInit => AllJoined
<1> SUFFICES ASSUME PathInit, NEW h \in Requests PROVE Joined(h)
  BY DEF AllJoined
<1>1. clock = 0 /\ judged[h] = 0 /\ pc[h] = "idle" /\ tpc[h] = "idle" /\ result[h] = "none"
  BY DEF PathInit, Init, Table!Init
<1> QED
  BY <1>1 DEF Joined

\* No step takes the halves of a call apart.
LEMMA NextJoined ==
  Inv /\ TenantInv /\ Inv' /\ TenantInv' /\ AllJoined /\ [PathNext]_pathVars => AllJoined'
<1> SUFFICES ASSUME Inv, TenantInv, Inv', TenantInv', AllJoined, [PathNext]_pathVars
             PROVE  AllJoined'
  OBVIOUS
<1>0. /\ \A h \in Requests : Joined(h)
      /\ pc \in [Requests -> Labels] /\ cred \in [Requests -> Credentials]
      /\ judged \in [Requests -> Times] /\ verdict \in [Requests -> Verdicts]
      /\ tpc \in [Requests -> Table!Labels] /\ tcred \in [Requests -> Creds]
      /\ result \in [Requests -> Table!Results] /\ looked \in [Requests -> Times]
      /\ clock \in Times
      /\ \A h \in Requests : tpc[h] # "idle" => result[h] = "none"
  BY DEF AllJoined, Inv, TypeOK, TenantInv, Table!TypeOK, Table!Times, Times, ResultWhenIdle
<1>1. CASE PathTick
  BY <1>0, <1>1, MaxTimeAssumption
     DEF PathTick, Tick, Table!Tick, callVars, AllJoined, Joined, Times
<1>2. ASSUME NEW r \in Roots, Root(r)
      PROVE  AllJoined'
  BY <1>0, <1>2 DEF Root, Pause, Resume, NewEpoch, Remove, SetRoot, callVars, tenantVars,
     AllJoined, Joined
<1>3. ASSUME NEW h \in Requests, Begin(h)
      PROVE  AllJoined'
  <2>1. Joined(h)'
    <3>1. /\ pc'[h] = "lookup" /\ tpc'[h] = "check" /\ result'[h] = "none"
          /\ cred'[h] = RootOf[tcred'[h]] /\ judged'[h] = 0
      BY <1>0, <1>3 DEF Begin, Call, Table!Verify
    <3>2. 0 <= clock'
      BY <1>0, <1>3, MaxTimeAssumption DEF Begin, Call, Times
    <3> QED
      BY <3>1, <3>2 DEF Joined
  <2>2. ASSUME NEW g \in Requests \ {h}
        PROVE  Joined(g)'
    BY <1>0, <1>3 DEF Begin, Call, Table!Verify, Joined
  <2> QED
    BY <2>1, <2>2 DEF AllJoined
<1>4. ASSUME NEW h \in Requests, InCheck(h)
      PROVE  AllJoined'
  <2>1. tpc[h] = "check" /\ result[h] = "none" /\ pc'[h] # "idle" /\ cred[h] = RootOf[tcred[h]]
    BY <1>0, <1>4 DEF InCheck, Lookup, Ask, Serve, Receive, Store, Joined
  <2>2. UNCHANGED <<tenantVars, clock, cred>> /\ judged'[h] \in {judged[h], clock}
    BY <1>0, <1>4 DEF InCheck, Lookup, Ask, Serve, Receive, Store
  <2>3. Joined(h)'
    BY <1>0, <2>1, <2>2, MaxTimeAssumption DEF Joined, tenantVars, Times
  <2>4. ASSUME NEW g \in Requests \ {h}
        PROVE  Joined(g)'
    <3>1. pc'[g] = pc[g] /\ judged'[g] = judged[g] /\ verdict'[g] = verdict[g]
      BY <1>0, <1>4 DEF InCheck, Lookup, Ask, Serve, Receive, Store
    <3> QED
      BY <1>0, <2>2, <3>1 DEF Joined, tenantVars
  <2> QED
    BY <2>3, <2>4 DEF AllJoined
<1>5. ASSUME NEW h \in Requests, EndCheck(h)
      PROVE  AllJoined'
  <2>1. /\ tpc[h] = "check" /\ result[h] = "none" /\ cred[h] = RootOf[tcred[h]]
        /\ pc'[h] = "idle" /\ verdict'[h] \in {"ok", "refused", "unavailable"}
        /\ UNCHANGED <<clock, cred, judged>>
    BY <1>0, <1>5 DEF EndCheck, Decide, Fail, Table!RootChecked, Joined
  <2>2. \/ verdict'[h] = "ok" /\ tpc'[h] = "admit" /\ result'[h] = "none"
        \/ verdict'[h] # "ok" /\ tpc'[h] = "idle" /\ result'[h] = "refused"
    BY <1>0, <1>5, <2>1 DEF EndCheck, Table!RootChecked, Table!Refuse
  <2>3. UNCHANGED <<tcred, looked>>
    BY <1>5 DEF EndCheck, Table!RootChecked, Table!Refuse
  <2>4. Joined(h)'
    BY <1>0, <2>1, <2>2, <2>3 DEF Joined
  <2>5. ASSUME NEW g \in Requests \ {h}
        PROVE  Joined(g)'
    <3>1. pc'[g] = pc[g] /\ verdict'[g] = verdict[g]
      BY <1>0, <1>5 DEF EndCheck, Decide, Fail
    <3>2. tpc'[g] = tpc[g] /\ result'[g] = result[g]
      BY <1>0, <1>5 DEF EndCheck, Table!RootChecked, Table!Refuse
    <3> QED
      BY <1>0, <2>1, <2>3, <3>1, <3>2 DEF Joined
  <2> QED
    BY <2>4, <2>5 DEF AllJoined
<1>6. ASSUME NEW h \in Requests, Proceed(h)
      PROVE  AllJoined'
  <2>1. UNCHANGED <<clock, pc, cred, judged, verdict, tcred>>
    BY <1>6 DEF Proceed, vars, callVars, Table!PinRefuses, Table!Refuse, Table!Admit,
       Table!LookupTenantPolicy
  <2>2. tpc[h] \in {"admit", "lookup"} /\ result[h] = "none"
    BY <1>0, <1>6 DEF Proceed, Table!PinRefuses, Table!Admit, Table!LookupTenantPolicy
  <2>3. \/ tpc'[h] = "idle" /\ result'[h] = "badArgs"
        \/ tpc'[h] = "lookup" /\ result'[h] = "none"
        \/ tpc'[h] = "idle" /\ result'[h] \in {"served", "unknown"} /\ looked'[h] = clock
    BY <1>0, <1>6, <2>2 DEF Proceed, Table!PinRefuses, Table!Refuse, Table!Admit,
       Table!LookupTenantPolicy
  <2>4. Joined(h)'
    BY <1>0, <2>1, <2>2, <2>3 DEF Joined
  <2>5. ASSUME NEW g \in Requests \ {h}
        PROVE  Joined(g)'
    <3>1. tpc'[g] = tpc[g] /\ result'[g] = result[g] /\ looked'[g] = looked[g]
      BY <1>0, <1>6 DEF Proceed, Table!PinRefuses, Table!Refuse, Table!Admit,
         Table!LookupTenantPolicy
    <3> QED
      BY <1>0, <2>1, <3>1 DEF Joined
  <2> QED
    BY <2>4, <2>5 DEF AllJoined
<1>7. CASE UNCHANGED pathVars
  BY <1>0, <1>7 DEF pathVars, vars, callVars, tenantVars, AllJoined, Joined
<1> QED
  BY <1>1, <1>2, <1>3, <1>4, <1>5, <1>6, <1>7 DEF PathNext

\* The invariants of both halves and their bond hold of every reachable state.
THEOREM PathInvHolds == PathSpec => []PathInv
<1>1. PathSpec => []Inv /\ []TenantInv
  BY PathIsBoth, InvHolds, TenantInvHolds, PTL
<1>2. PathSpec => []AllJoined
  BY <1>1, InitJoined, NextJoined, PTL DEF PathSpec
<1> QED
  BY <1>1, <1>2, PTL DEF PathInv

\* A delegated read is served only on a root check of its own call, made before
\* the lookup and on what the chain said less than TTL + QueryTimeout seconds
\* before, whatever tenants earlier calls left in the table (reads.go:60-81,
\* executor.go:159-170).
THEOREM ServedIsAuthorised == PathSpec => []ServedReadIsAuthorised
<1>1. PathInv => ServedReadIsAuthorised
  BY DEF PathInv, AllJoined, Joined, Inv, VerdictIsRecent, ServedReadIsAuthorised
<1> QED
  BY <1>1, PathInvHolds, PTL

\* The table never exceeds its cap, whatever reads flood it
\* (read_tenants.go:33-37, 61-65).
THEOREM CapHolds == PathSpec => []TableBounded
<1>1. PathInv => TableBounded
  BY DEF PathInv, TenantInv, TableBounded
<1> QED
  BY <1>1, PathInvHolds, PTL

\* A verified read is turned away only if its token expired on the way or the
\* cap was taken by live credentials, for every interleaving of handlers
\* (read_tenants.go:50-97).
THEOREM RefusalsExplained == PathSpec => []UnknownHasACause
<1>1. PathInv => UnknownHasACause
  BY DEF PathInv, TenantInv, UnknownHasACause
<1> QED
  BY <1>1, PathInvHolds, PTL

\* No step removes the entry of a credential that has not expired
\* (read_tenants.go:61-65, 90-97).
THEOREM NoEviction == PathSpec => LiveTenantStays
<1>1. [PathNext]_pathVars => [Table!Live(clock) \subseteq byID']_pathVars
  BY PathStep, TenantStays
<1> QED
  BY <1>1, PTL DEF PathSpec, LiveTenantStays
=============================================================================
