------------------------- MODULE OperatorTx_proofs --------------------------
(***************************************************************************)
(* Proofs about OperatorTx, for any number of concurrent calls: type       *)
(* correctness, the mutex discipline, and that two calls of this process   *)
(* never spoil each other's sequence while the chain is undisturbed.       *)
(***************************************************************************)
EXTENDS OperatorTx, TLAPS

\* Only fee-paying calls queue for the mutex.
LockedIsFeePaying ==
  \A c \in Callers : pc[c] = "lock" => ~GasFreeFor(kind[c])

\* An outcome is known only between CheckTx and the answer.
OutcomeWhenChecked == \A c \in Callers : outcome[c] # "none" => pc[c] = "checked"

\* A fee-paying call that has read the sequence undisturbed and has not been
\* checked yet still holds the sequence the node expects.
CleanIsNext ==
  \A c \in Callers :
    /\ clean[c] /\ InSection(c) /\ pc[c] \in {"sign", "broadcast", "checking"}
    => acct[c] = check /\ late = {}

\* Gas-free transactions are not refused for a sequence.
GasFreeHasNoSequence ==
  \A c \in Callers : outcome[c] = "badSequence" => ~GasFreeFor(kind[c])

Inv ==
  /\ TypeOK
  /\ SeqMuDiscipline
  /\ LockedIsFeePaying
  /\ OutcomeWhenChecked
  /\ CleanIsNext
  /\ GasFreeHasNoSequence
  /\ RefusalHasACause

-----------------------------------------------------------------------------
\* The initial states satisfy the invariant.
LEMMA InitInv == Init => Inv
BY MaxSeqAssumption, NoCallerAssumption
   DEF Init, Inv, TypeOK, SeqMuDiscipline, LockedIsFeePaying, OutcomeWhenChecked, CleanIsNext,
       GasFreeHasNoSequence, RefusalHasACause, InSection, Section, Seqs,
       Labels, Outcomes, Results

\* The types of what a call's steps may change, apart from the chain's state.
CallTypes ==
  /\ seqMu \in Callers \cup {NoCaller}
  /\ paramsMu \in Callers \cup {NoCaller}
  /\ pc \in [Callers -> Labels]
  /\ kind \in [Callers -> Kinds \cup {"none"}]
  /\ acct \in [Callers -> Seqs]
  /\ outcome \in [Callers -> Outcomes]
  /\ result \in [Callers -> Results]
  /\ clean \in [Callers -> BOOLEAN]

\* Returning keeps the types.
LEMMA ReturnType ==
  ASSUME CallTypes, NEW c \in Callers, NEW r \in Results, Return(c, r)
  PROVE  CallTypes'
BY MaxSeqAssumption DEF CallTypes, Return, Labels, Outcomes, Seqs

\* The steps of a call keep the types.
LEMMA CallType ==
  ASSUME TypeOK, NEW c \in Callers, Call(c) \/ Step(c), UNCHANGED hung
  PROVE  TypeOK'
<1> USE MaxSeqAssumption
<1>0. CallTypes
  BY DEF TypeOK, CallTypes
<1> SUFFICES /\ CallTypes'
             /\ committed' \in Seqs /\ check' \in Seqs /\ late' \subseteq Seqs
  BY DEF TypeOK, CallTypes
<1>a. \A r \in {"ok", "code", "error"} : r \in Results
  BY DEF Results
<1>1. CASE Call(c)
  BY <1>1 DEF mutexes, Call, TypeOK, CallTypes, chainVars, Labels, Results
<1>2. CASE Prepare(c)
  <2>1. CASE Return(c, "error")
    BY <1>0, <1>a, <1>2, <2>1, ReturnType DEF mutexes, Prepare, TypeOK, chainVars
  <2>2. CASE ~Return(c, "error")
    BY <1>2, <2>2 DEF mutexes, Prepare, TypeOK, CallTypes, chainVars, Labels
  <2> QED
    BY <2>1, <2>2
<1>10. CASE LockParams(c)
  BY <1>10 DEF LockParams, TypeOK, CallTypes, chainVars, Labels
<1>11. CASE AskParams(c)
  <2>1. CASE Return(c, "error")
    BY <1>0, <1>a, <1>11, <2>1, ReturnType DEF mutexes, AskParams, TypeOK, chainVars
  <2>2. CASE ~Return(c, "error")
    BY <1>11, <2>2 DEF mutexes, AskParams, TypeOK, CallTypes, chainVars, Labels
  <2> QED
    BY <2>1, <2>2
<1>12. CASE Verify(c)
  <2>1. CASE \E r \in {"ok", "error"} : Return(c, r)
    BY <1>0, <1>a, <1>12, <2>1, ReturnType DEF Verify, TypeOK, chainVars
  <2>2. CASE \A r \in {"ok", "error"} : ~Return(c, r)
    BY <1>12, <2>2 DEF Verify, mutexes, TypeOK, CallTypes, chainVars, Labels
  <2> QED
    BY <2>1, <2>2
<1>3. CASE Lock(c)
  BY <1>3 DEF Lock, TypeOK, CallTypes, chainVars, Labels
<1>4. CASE Account(c)
  <2>1. CASE Return(c, "error")
    BY <1>0, <1>a, <1>4, <2>1, ReturnType DEF mutexes, Account, TypeOK, chainVars
  <2>2. CASE ~Return(c, "error")
    <3>1. (check = committed /\ late = {}) \in BOOLEAN
      OBVIOUS
    <3>2. clean' \in [Callers -> BOOLEAN]
      BY <1>4, <2>2, <3>1 DEF mutexes, Account, TypeOK
    <3> QED
      BY <1>4, <2>2, <3>2 DEF mutexes, Account, TypeOK, CallTypes, chainVars, Labels
  <2> QED
    BY <2>1, <2>2
<1>5. CASE SignTx(c)
  <2>1. CASE Return(c, "error")
    BY <1>0, <1>a, <1>5, <2>1, ReturnType DEF mutexes, SignTx, TypeOK, chainVars
  <2>2. CASE ~Return(c, "error")
    BY <1>5, <2>2 DEF mutexes, SignTx, TypeOK, CallTypes, chainVars, Labels
  <2> QED
    BY <2>1, <2>2
<1>6. CASE Send(c)
  BY <1>6 DEF mutexes, Send, TypeOK, CallTypes, chainVars, Labels
<1>7. CASE CheckTx(c)
  BY <1>7 DEF mutexes, CheckTx, TypeOK, CallTypes, Labels, Outcomes, Seqs
<1>8. CASE Answer(c)
  BY <1>0, <1>a, <1>8, ReturnType DEF Answer, TypeOK, chainVars
<1>9. CASE GiveUp(c)
  <2>1. CallTypes'
    BY <1>0, <1>a, <1>9, ReturnType DEF mutexes, GiveUp
  <2> QED
    BY <1>9, <2>1 DEF mutexes, GiveUp, TypeOK
<1> QED
  BY <1>1, <1>2, <1>3, <1>4, <1>5, <1>6, <1>7, <1>8, <1>9, <1>10, <1>11, <1>12 DEF Step

\* What returning does to the mutex: it frees it exactly if the call held it.
LEMMA ReturnUnlocks ==
  ASSUME TypeOK, SeqMuDiscipline, NEW c \in Callers, NEW r, Return(c, r)
  PROVE  /\ SeqMuDiscipline'
         /\ pc'[c] = "idle" /\ outcome'[c] = "none" /\ clean'[c] = FALSE
         /\ \A d \in Callers \ {c} :
              /\ pc'[d] = pc[d] /\ kind'[d] = kind[d] /\ acct'[d] = acct[d]
              /\ outcome'[d] = outcome[d] /\ clean'[d] = clean[d]
<1>1. /\ pc'[c] = "idle" /\ outcome'[c] = "none" /\ clean'[c] = FALSE
      /\ \A d \in Callers \ {c} :
           /\ pc'[d] = pc[d] /\ kind'[d] = kind[d] /\ acct'[d] = acct[d]
           /\ outcome'[d] = outcome[d] /\ clean'[d] = clean[d]
  BY DEF Return, TypeOK
<1>2. SeqMuDiscipline'
  BY <1>1, NoCallerAssumption
     DEF SeqMuDiscipline, InSection, Section, Return
<1> QED
  BY <1>1, <1>2

\* A step that returns, and adds a late broadcast only if it held the mutex,
\* preserves the invariant.
LEMMA ReturnStep ==
  ASSUME Inv, TypeOK', NEW c \in Callers, NEW r, Return(c, r),
         check' = check,
         late' = late \/ InSection(c)
  PROVE  Inv'
<1> USE DEF Inv
<1>1. SeqMuDiscipline'
  BY ReturnUnlocks
<1>2. /\ LockedIsFeePaying' /\ OutcomeWhenChecked'
      /\ GasFreeHasNoSequence' /\ RefusalHasACause'
  BY ReturnUnlocks DEF LockedIsFeePaying, OutcomeWhenChecked, GasFreeHasNoSequence, RefusalHasACause
<1>3. CleanIsNext'
  <2> SUFFICES ASSUME NEW d \in Callers, clean'[d], InSection(d)',
                      pc'[d] \in {"sign", "broadcast", "checking"}
               PROVE  acct'[d] = check' /\ late' = {}
    BY DEF CleanIsNext
  <2>1. d # c
    BY ReturnUnlocks
  <2>2. clean[d] /\ InSection(d) /\ pc[d] = pc'[d] /\ acct'[d] = acct[d]
    BY <2>1, ReturnUnlocks DEF InSection
  <2>3. ~InSection(c)
    BY <2>1, <2>2 DEF SeqMuDiscipline
  <2> QED
    BY <2>2, <2>3 DEF CleanIsNext
<1> QED
  BY <1>1, <1>2, <1>3

\* The steps of a call preserve the invariant.
LEMMA CallStep ==
  ASSUME Inv, NEW c \in Callers, Call(c) \/ Step(c), UNCHANGED hung
  PROVE  Inv'
<1> USE DEF Inv
<1>0. TypeOK'
  BY CallType
<1>1. CASE \E r \in {"ok", "code", "error"} : Return(c, r) /\ ~GiveUp(c)
  <2>1. PICK r \in {"ok", "code", "error"} : Return(c, r) /\ ~GiveUp(c)
    BY <1>1
  <2>2. check' = check /\ late' = late
    BY <2>1 DEF mutexes, Call, Step, Prepare, LockParams, AskParams, Verify, Lock, Account, SignTx,
       Send, CheckTx, Answer,
       Return, chainVars, TypeOK
  <2> QED
    BY <1>0, <2>1, <2>2, ReturnStep
<1>2. CASE GiveUp(c)
  <2>1. Return(c, "error") /\ check' = check /\ (late' = late \/ InSection(c))
    BY <1>2 DEF mutexes, GiveUp, InSection, Section
  <2> QED
    BY <1>0, <2>1, ReturnStep
<1>3. CASE ~GiveUp(c) /\ \A r \in {"ok", "code", "error"} : ~Return(c, r)
  <2>1. \A d \in Callers \ {c} :
          /\ pc'[d] = pc[d] /\ kind'[d] = kind[d] /\ acct'[d] = acct[d]
          /\ outcome'[d] = outcome[d] /\ clean'[d] = clean[d]
    BY <1>3 DEF mutexes, Call, Step, Prepare, LockParams, AskParams, Verify, Lock, Account, SignTx,
       Send, CheckTx, Answer, TypeOK
  <2>2. SeqMuDiscipline'
    <3>1. CASE Lock(c)
      <4>1. seqMu = NoCaller /\ seqMu' = c /\ kind' = kind /\ pc'[c] = "account"
        BY <3>1 DEF Lock, TypeOK
      <4>2. ~GasFreeFor(kind[c])
        BY <3>1 DEF LockedIsFeePaying, Lock
      <4>3. InSection(c)'
        BY <4>1, <4>2 DEF InSection, Section
      <4>4. ASSUME NEW d \in Callers \ {c}
            PROVE  ~InSection(d)'
        BY <2>1, <4>1, NoCallerAssumption DEF SeqMuDiscipline, InSection
      <4> QED
        BY <4>1, <4>3, <4>4 DEF SeqMuDiscipline
    <3>2. CASE ~Lock(c)
      <4>1. seqMu' = seqMu /\ (InSection(c)' <=> InSection(c))
        BY <1>3, <3>2 DEF mutexes, Call, Step, Prepare, LockParams, AskParams, Verify, Account, SignTx,
           Send, CheckTx, Answer,
           InSection, Section, GasFreeFor, TypeOK
      <4> QED
        BY <2>1, <4>1 DEF SeqMuDiscipline, InSection
    <3> QED
      BY <3>1, <3>2
  <2>6. LockedIsFeePaying'
    BY <1>3, <2>1 DEF mutexes, Call, Step, Prepare, LockParams, AskParams, Verify, Lock, Account, SignTx,
       Send, CheckTx, Answer,
       LockedIsFeePaying, GasFreeFor, GasFreeKinds, OwnKinds, TypeOK
  <2>3. OutcomeWhenChecked' /\ GasFreeHasNoSequence'
    BY <1>3, <2>1 DEF mutexes, Call, Step, Prepare, LockParams, AskParams, Verify, Lock, Account, SignTx,
       Send, CheckTx, Answer,
       OutcomeWhenChecked, GasFreeHasNoSequence, TypeOK
  <2>4. RefusalHasACause'
    <3> SUFFICES ASSUME NEW d \in Callers, outcome'[d] = "badSequence"
                 PROVE  ~clean'[d]
      BY DEF RefusalHasACause
    <3>1. CASE d # c
      BY <2>1, <3>1 DEF RefusalHasACause
    <3>2. CASE d = c
      <4>1. CheckTx(c) /\ ~GasFreeFor(kind[c]) /\ acct[c] # check /\ clean' = clean
        BY <1>3, <3>2 DEF mutexes, Call, Step, Prepare, LockParams, AskParams, Verify, Lock, Account,
           SignTx, Send, CheckTx,
           Answer, OutcomeWhenChecked, TypeOK
      <4>2. InSection(c) /\ pc[c] = "checking"
        BY <4>1 DEF mutexes, CheckTx, InSection, Section
      <4> QED
        BY <3>2, <4>1, <4>2 DEF CleanIsNext
    <3> QED
      BY <3>1, <3>2
  <2>5. CleanIsNext'
    <3> SUFFICES ASSUME NEW d \in Callers, clean'[d], InSection(d)',
                        pc'[d] \in {"sign", "broadcast", "checking"}
                 PROVE  acct'[d] = check' /\ late' = {}
      BY DEF CleanIsNext
    <3>1. CASE d # c
      <4>1. InSection(d) /\ clean[d] /\ pc[d] = pc'[d] /\ acct'[d] = acct[d]
        BY <2>1, <3>1 DEF InSection
      <4>2. ~InSection(c)
        BY <3>1, <4>1 DEF SeqMuDiscipline
      <4>3. check' = check /\ late' = late
        BY <1>3, <4>2 DEF mutexes, Call, Step, Prepare, LockParams, AskParams, Verify, Lock, Account,
           SignTx, Send, CheckTx,
           Answer, InSection, Section, chainVars
      <4> QED
        BY <4>1, <4>3 DEF CleanIsNext
    <3>2. CASE d = c /\ Account(c)
      BY <1>3, <3>2 DEF mutexes, Account, chainVars, TypeOK
    <3>3. CASE d = c /\ ~Account(c)
      <4>1. SignTx(c) \/ Send(c)
        BY <1>3, <3>3 DEF mutexes, Call, Step, Prepare, LockParams, AskParams, Verify, Lock, CheckTx,
           Answer, TypeOK
      <4> QED
        BY <1>3, <3>3, <4>1 DEF mutexes, SignTx, Send, CleanIsNext, InSection, Section,
           chainVars, TypeOK
    <3> QED
      BY <3>1, <3>2, <3>3
  <2> QED
    BY <1>0, <2>2, <2>3, <2>4, <2>5, <2>6
<1> QED
  BY <1>1, <1>2, <1>3

\* The chain's own steps preserve the invariant: they raise the node's
\* sequence only when a late broadcast exists, when no call can be clean, or
\* after clearing every claim to be clean.
LEMMA ChainStep ==
  ASSUME Inv, Chain, UNCHANGED hung
  PROVE  Inv'
<1> USE MaxSeqAssumption DEF Inv
<1>1. TypeOK'
  <2>1. UNCHANGED <<seqMu, paramsMu, pc, kind, acct, outcome, result>>
    BY DEF mutexes, Chain, LateArrival, Block, Flush, ForeignTx, callVars
  <2>2. clean' \in [Callers -> BOOLEAN]
    BY DEF mutexes, Chain, LateArrival, Block, Flush, ForeignTx, Unclean, callVars, TypeOK
  <2>3. committed' \in Seqs /\ check' \in Seqs /\ late' \subseteq Seqs
    <3>1. CASE \E s \in Seqs : LateArrival(s)
      BY <3>1 DEF mutexes, LateArrival, TypeOK, Seqs
    <3>2. CASE \E s \in Seqs : Block(s)
      BY <3>2 DEF mutexes, Block, TypeOK
    <3>3. CASE Flush
      BY <3>3 DEF mutexes, Flush, TypeOK
    <3>4. CASE ForeignTx
      BY <3>4 DEF mutexes, ForeignTx, TypeOK, Seqs
    <3> QED
      BY <3>1, <3>2, <3>3, <3>4 DEF mutexes, Chain
  <2> QED
    BY <2>1, <2>2, <2>3 DEF TypeOK
<1>2. UNCHANGED <<seqMu, pc, kind, acct, outcome>>
  BY DEF mutexes, Chain, LateArrival, Block, Flush, ForeignTx, callVars
<1>3. /\ SeqMuDiscipline' /\ LockedIsFeePaying'
      /\ OutcomeWhenChecked' /\ GasFreeHasNoSequence'
  BY <1>2 DEF SeqMuDiscipline, LockedIsFeePaying, OutcomeWhenChecked, GasFreeHasNoSequence, InSection
<1>4. CASE Flush \/ ForeignTx
  <2>1. \A d \in Callers : ~clean'[d]
    BY <1>4 DEF mutexes, Flush, ForeignTx, Unclean
  <2> QED
    BY <1>1, <1>3, <2>1 DEF RefusalHasACause, CleanIsNext
<1>5. CASE \E s \in Seqs : LateArrival(s)
  <2>1. late # {} /\ clean' = clean
    BY <1>5 DEF mutexes, LateArrival, callVars
  <2>2. CleanIsNext' /\ RefusalHasACause'
    BY <1>2, <2>1 DEF CleanIsNext, RefusalHasACause, InSection
  <2> QED
    BY <1>1, <1>3, <2>2
<1>6. CASE \E s \in Seqs : Block(s)
  BY <1>1, <1>2, <1>3, <1>6 DEF mutexes, Block, callVars, CleanIsNext, RefusalHasACause, InSection
<1> QED
  BY <1>4, <1>5, <1>6 DEF mutexes, Chain

\* Every step of the specification preserves the invariant.
LEMMA NextInv == Inv /\ [Next]_vars => Inv'
<1> SUFFICES ASSUME Inv, [Next]_vars PROVE Inv'
  OBVIOUS
<1>1. CASE Calls /\ UNCHANGED hung
  BY <1>1, CallStep DEF Calls, Step
<1>2. CASE Chain /\ UNCHANGED hung
  BY <1>2, ChainStep
<1>3. CASE \E c \in Callers : Hang(c)
  BY <1>3 DEF mutexes, Hang, callVars, chainVars, Inv, TypeOK, SeqMuDiscipline, LockedIsFeePaying,
     OutcomeWhenChecked, CleanIsNext, GasFreeHasNoSequence, RefusalHasACause, InSection
<1>4. CASE UNCHANGED vars
  BY <1>4 DEF mutexes, vars, callVars, chainVars, Inv, TypeOK, SeqMuDiscipline, LockedIsFeePaying,
     OutcomeWhenChecked, CleanIsNext, GasFreeHasNoSequence, RefusalHasACause, InSection
<1> QED
  BY <1>1, <1>2, <1>3, <1>4 DEF Next

\* The invariant holds of every reachable state.
THEOREM InvHolds == Spec => []Inv
BY InitInv, NextInv, PTL DEF Spec

\* execute's and signAndBroadcastOwn's state keeps its types: in particular a
\* call never signs with a sequence beyond the account's.
THEOREM TypeCorrect == Spec => []TypeOK
<1>1. Inv => TypeOK
  BY DEF Inv
<1> QED
  BY <1>1, InvHolds, PTL

\* The mutex is held by exactly the fee-paying call between its account query
\* and its broadcast's answer, for any number of callers: the sections exclude
\* each other and every path out of one unlocks.
THEOREM SectionsExclude == Spec => []SeqMuDiscipline
<1>1. Inv => SeqMuDiscipline
  BY DEF Inv
<1> QED
  BY <1>1, InvHolds, PTL

\* A call that reads the operator's sequence while nothing is pending is never
\* refused for it because of another call of this process.
THEOREM SequenceRefusalsExplained == Spec => []RefusalHasACause
<1>1. Inv => RefusalHasACause
  BY DEF Inv
<1> QED
  BY <1>1, InvHolds, PTL
=============================================================================
