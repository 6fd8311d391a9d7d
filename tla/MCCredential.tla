---------------------------- MODULE MCCredential ----------------------------
EXTENDS Credential, TLC

CONSTANTS user, broker, agent

Place == "clob.place_order"
All == [actions |-> {Place, ActionQueryAccount}, subs |-> {0, 1}]
Narrow == {All, [All EXCEPT !.actions = {Place}], [All EXCEPT !.subs = {0}]}

MCToken(i, a, k, to, g) ==
  [iss |-> i, aud |-> a, key |-> k, to |-> to, actions |-> g.actions, subs |-> g.subs]

\* Whose key a token is signed with: either key of its issuer, or another's.
KeysFor(i) == {[party |-> i, kind |-> "account"], [party |-> i, kind |-> "agent"]}
                \cup {[party |-> agent, kind |-> "account"]}

\* The user's own chain to the agent.
Direct == {<<MCToken(user, agent, k, {}, g)>> : k \in KeysFor(user), g \in Narrow}

\* Through a broker, who may or may not hand on to the agent.
Handed == {<<MCToken(user, broker, k, to, All), MCToken(broker, agent, l, {}, All)>> :
             k \in KeysFor(user), l \in KeysFor(broker), to \in {{}, {agent}}}

\* A narrow root whose child claims more, a chain with a missing link, one
\* addressed to somebody else and one that is too deep.
Odd ==
  LET own(p) == [party |-> p, kind |-> "account"]
      root(g, to) == MCToken(user, broker, own(user), to, g)
      leaf(i, a) == MCToken(i, a, own(i), {}, All)
  IN {<<root(g, {agent}), leaf(broker, agent)>> : g \in Narrow}
       \cup {<<root(All, {agent}), leaf(user, agent)>>,
             <<root(All, {user}), leaf(broker, user)>>,
             <<root(All, {user}), MCToken(broker, user, own(broker), {agent}, All),
               leaf(user, agent)>>}

MCChains == Direct \cup Handed \cup Odd

MCPurposes ==
  [action : {Place}, sub : {0, 1}, read : {FALSE}]
    \cup [action : {ActionQueryAccount}, sub : {1, NoSub}, read : {TRUE}]
=============================================================================
