----------------------------- MODULE MCDispatch -----------------------------
\* Dispatch with two credential chains: k1 verifies and grants subaccount 0
\* of o1, k2 does not verify.
EXTENDS Dispatch, TLC

CONSTANTS k1, k2, o1, o2

MCPrincipal == k1 :> o1 @@ k2 :> o2
MCGranted == k1 :> {0} @@ k2 :> Subaccounts

\* How a request may present a bearer: not at all, in the header, in the
\* envelope, or through its conversation.
Presenting ==
  {[NoRequest EXCEPT !.header = b] : b \in Bearers \cup {None}}
    \cup {[NoRequest EXCEPT !.envelope = b] : b \in Bearers}
    \cup {[NoRequest EXCEPT !.context = x] : x \in Contexts}

\* Every tool with every credential and every proof, the queries with every
\* credential, owner and subaccount, and every other form with and without a
\* credential.
Wide ==
  {[p EXCEPT !.tool = t, !.meta = m, !.proof = q] :
     p \in Presenting, t \in Tools, m \in Chains \cup {None, Malformed},
     q \in Chains \cup {None, Malformed}}
    \cup {[p EXCEPT !.tool = t, !.meta = m, !.owner = o, !.sub = s] :
            p \in Presenting, t \in ReadTools, m \in Chains \cup {None},
            o \in Owners \cup {None, Malformed}, s \in Subaccounts \cup {None}}
    \cup {[NoRequest EXCEPT !.form = f, !.meta = m] :
            f \in Forms \ {"op"}, m \in {None, k1, Malformed}}

\* Few requests for calls that run at once: auth_verify in any conversation;
\* a query in one or outside, with and without a credential; and one with a
\* bearer, a credential and a conversation.
MCCrowd ==
  {[NoRequest EXCEPT !.tool = "auth_verify", !.context = x] : x \in Contexts}
    \cup {[NoRequest EXCEPT !.context = x, !.meta = m, !.owner = o1] :
            x \in Contexts \cup {None}, m \in {None, k1}}
    \cup {[NoRequest EXCEPT !.header = b, !.context = x, !.meta = k1, !.owner = o1] :
            b \in Bearers, x \in Contexts}

MCRequests == Wide \cup MCCrowd

Symmetry == Permutations(Calls) \cup Permutations(Bearers) \cup Permutations(Contexts)
=============================================================================
