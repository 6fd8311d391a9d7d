------------------------- MODULE MCServerLifecycle --------------------------
EXTENDS ServerLifecycle

\* Everything configured, and nothing but what must be.
Everything ==
  [required |-> TRUE, chainID |-> TRUE, restURL |-> TRUE, fee |-> "int",
   evmRPC |-> TRUE, router |-> "0x", wsvp |-> "0x", feed |-> "0x",
   comptroller |-> "0x", bridge |-> "0x", routes |-> TRUE, source |-> TRUE,
   foreign |-> <<[chain |-> "f1", rpc |-> TRUE, bridge |-> "0x"]>>, key |-> "key"]
Minimal ==
  [required |-> TRUE, chainID |-> FALSE, restURL |-> FALSE, fee |-> "",
   evmRPC |-> FALSE, router |-> "", wsvp |-> "", feed |-> "", comptroller |-> "",
   bridge |-> "", routes |-> FALSE, source |-> FALSE, foreign |-> <<>>, key |-> ""]

FC(x, r, a) == [chain |-> x, rpc |-> r, bridge |-> a]
ForeignLists ==
  {<<>>, <<FC("f1", TRUE, "0x")>>, <<FC("f1", TRUE, "0x"), FC("f2", TRUE, "0x")>>,
   <<FC("f1", TRUE, "0x"), FC("f1", TRUE, "0x")>>, <<FC("zero", TRUE, "0x")>>,
   <<FC("home", TRUE, "0x")>>, <<FC("f1", FALSE, "0x")>>, <<FC("f1", TRUE, "bad")>>}

Values(f) ==
  CASE f \in {"router", "wsvp", "feed", "comptroller", "bridge"} -> Addresses
    [] f = "fee" -> {"", "int", "bad"}
    [] f = "key" -> {"", "blank", "key", "bad"}
    [] f = "foreign" -> ForeignLists
    [] OTHER -> BOOLEAN

\* The two configurations with any two fields set to any value.
MCConfigs ==
  UNION {UNION {{[base EXCEPT ![f] = v, ![g] = w] : v \in Values(f), w \in Values(g)} :
                f \in DOMAIN base, g \in DOMAIN base} :
         base \in {Everything, Minimal}}
=============================================================================
