-------------------------- MODULE BoundedStaleness --------------------------
(***************************************************************************)
(* What a cache in front of the chain promises, whatever its locking: the  *)
(* agent answers a question about the chain with what was true there less  *)
(* than Lag seconds before the answer was settled, or declines.  An answer *)
(* is settled once, while its call is open, and given as it was settled.   *)
(*                                                                         *)
(* RootStateCache and ParamsCache both implement this specification,       *)
(* although one queries with no lock held and the other holds its mutex    *)
(* across the query.                                                       *)
(***************************************************************************)
EXTENDS Integers

CONSTANTS
  Clients,    \* the calls that may be open at once
  Questions,  \* what may be asked of the chain
  Answers,    \* what the chain may say
  None,       \* no answer yet
  Declined,   \* the call ended without an answer
  Lag         \* how far behind the chain an answer may be

VARIABLES
  clock,
  truth,     \* [Questions -> Answers]: what the chain says now
  lastTrue,  \* when the chain last gave each answer to each question
  open,      \* which calls are open
  asked,     \* the question of each client's last call
  settled,   \* the answer an open call will give, once it is settled
  given      \* how each client's last call ended; None while it is open

vars == <<clock, truth, lastTrue, open, asked, settled, given>>

\* The chain changes its mind, or a second passes.
World ==
  /\ clock' \in {clock, clock + 1}
  /\ truth' \in [Questions -> Answers]
  /\ lastTrue' = [q \in Questions |-> [a \in Answers |->
                    IF a = truth'[q] THEN clock' ELSE lastTrue[q][a]]]
  /\ UNCHANGED <<open, asked, settled, given>>

Ask(c) ==
  /\ ~open[c]
  /\ open' = [open EXCEPT ![c] = TRUE]
  /\ \E q \in Questions : asked' = [asked EXCEPT ![c] = q]
  /\ given' = [given EXCEPT ![c] = None]
  /\ UNCHANGED <<clock, truth, lastTrue, settled>>

\* Answer a to the question of client c is recent enough to be settled on.
Recent(c, a) == clock - lastTrue[asked[c]][a] < Lag

Settle(c) ==
  /\ open[c]
  /\ settled[c] = None
  /\ \E a \in Answers :
       /\ Recent(c, a)
       /\ settled' = [settled EXCEPT ![c] = a]
  /\ UNCHANGED <<clock, truth, lastTrue, open, asked, given>>

\* The call ends with a.
End(c, a) ==
  /\ open[c]
  /\ open' = [open EXCEPT ![c] = FALSE]
  /\ given' = [given EXCEPT ![c] = a]
  /\ settled' = [settled EXCEPT ![c] = None]
  /\ UNCHANGED <<clock, truth, lastTrue, asked>>

Give(c) ==
  \E a \in Answers :
    /\ settled[c] = a \/ (settled[c] = None /\ Recent(c, a))
    /\ End(c, a)

\* A call may be declined until its answer is settled.
Decline(c) == settled[c] = None /\ End(c, Declined)

Init ==
  /\ clock = 0
  /\ truth \in [Questions -> Answers]
  /\ \A q \in Questions : \A a \in Answers :
       IF a = truth[q] THEN lastTrue[q][a] = 0 ELSE lastTrue[q][a] <= -Lag
  /\ open = [c \in Clients |-> FALSE]
  /\ asked \in [Clients -> Questions]
  /\ settled = [c \in Clients |-> None]
  /\ given \in [Clients -> {None, Declined}]

Next ==
  \/ World
  \/ \E c \in Clients : Ask(c) \/ Settle(c) \/ Give(c) \/ Decline(c)

Spec == Init /\ [][Next]_vars
=============================================================================
