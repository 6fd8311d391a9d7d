-------------------------------- MODULE Boot --------------------------------
(***************************************************************************)
(* From a configuration file to a wired agent: Load and Validate           *)
(* (src/internal/config/config.go), Build (src/internal/wire/wire.go) and  *)
(* operator.Load (src/internal/operator/key.go).  Build dials the chain    *)
(* first and wires the optional families one after the other; any step may *)
(* fail, and a failing one must close the connection on its way out.       *)
(*                                                                         *)
(* The steps belong to ServerLifecycle, which runs them on main.  An       *)
(* address is absent, well-formed or not; what the clients and bindings    *)
(* of svpchain-mcp do is reduced to success or failure.                    *)
(***************************************************************************)
EXTENDS Integers, Sequences

CONSTANTS
  Configs   \* the configuration files that may be given

Addresses == {"", "0x", "bad"}
IsHexAddress(a) == a = "0x"

\* A decoded file, as far as Validate and Build look at it.  required: every
\* mandatory field is there.  An absent fee has a default.  A key comes from
\* the environment or the file, and may be blank or not a key.
ConfigRecords ==
  [required : BOOLEAN, chainID : BOOLEAN, restURL : BOOLEAN, fee : {"", "int", "bad"},
   evmRPC : BOOLEAN, router : Addresses, wsvp : Addresses, feed : Addresses,
   comptroller : Addresses, bridge : Addresses, routes : BOOLEAN, source : BOOLEAN,
   foreign : Seq([chain : {"zero", "home", "f1", "f2"}, rpc : BOOLEAN, bridge : Addresses]),
   key : {"", "blank", "key", "bad"}]

ASSUME ConfigsAssumption == Configs \subseteq ConfigRecords

VARIABLES
  cfg,    \* the configuration
  place,  \* 0 before Load, then the number of Build's next step
  conn,   \* the gRPC connection: "none", "open" or "closed"
  deps    \* the families wired so far

bootVars == <<cfg, place, conn, deps>>

-----------------------------------------------------------------------------
\* ApplyDefaults has filled in an absent fee; a given one must be a
\* non-negative integer.
validateFee(c) == c.fee \in {"", "int"}

validateSwap(c) ==
  \/ c.router = "" /\ c.wsvp = ""
  \/ IsHexAddress(c.router) /\ IsHexAddress(c.wsvp) /\ c.evmRPC

\* Mutant of validateOracle: the EVM endpoint is not asked for.
validateOracleAddress(c) == c.feed = "" \/ IsHexAddress(c.feed)

validateOracle(c) == c.feed = "" \/ (IsHexAddress(c.feed) /\ c.evmRPC)

validateLendora(c) == c.comptroller = "" \/ (IsHexAddress(c.comptroller) /\ c.evmRPC)

\* All three or none.
validateBridge(c) ==
  \/ c.bridge = "" /\ ~c.routes /\ ~c.source
  \/ IsHexAddress(c.bridge) /\ c.routes /\ c.source /\ c.evmRPC

validateForeignChains(c) ==
  c.foreign # <<>> =>
    /\ c.bridge # ""
    /\ \A i \in DOMAIN c.foreign :
         LET fc == c.foreign[i]
         IN  /\ fc.chain \notin {"zero", "home"}
             /\ \A j \in 1 .. i - 1 : c.foreign[j].chain # fc.chain
             /\ fc.rpc /\ IsHexAddress(fc.bridge)

Validate(c) ==
  /\ c.required
  /\ c.chainID = c.restURL
  /\ validateFee(c)
  /\ validateSwap(c) /\ validateOracle(c) /\ validateLendora(c)
  /\ validateBridge(c) /\ validateForeignChains(c)

-----------------------------------------------------------------------------
\* What Build does, in its order; each of bridge and foreign stands for the
\* three checks of that block.
Steps == <<"dial", "comet", "evm", "swap", "oracle", "lendora", "bridge", "foreign",
           "caps", "agent_chain", "operator">>
Built == Len(Steps) + 1

\* The configuration asks for the step.
Applies(c, s) ==
  CASE s = "evm"         -> c.evmRPC
    [] s = "swap"        -> c.evmRPC /\ c.router # ""
    [] s = "oracle"      -> c.evmRPC /\ c.feed # ""
    [] s = "lendora"     -> c.evmRPC /\ c.comptroller # ""
    [] s = "bridge"      -> c.evmRPC /\ c.bridge # ""
    [] s = "foreign"     -> c.evmRPC /\ c.bridge # "" /\ c.foreign # <<>>
    [] s = "agent_chain" -> c.restURL
    [] s = "operator"    -> c.key \notin {"", "blank"}
    [] OTHER             -> TRUE

\* Choosing the agent chain cannot fail, and a malformed key cannot be loaded.
CanFail(s) == s # "agent_chain"
CanSucceed(c, s) == s = "operator" => c.key # "bad"

\* config.Load succeeds.
Load ==
  /\ place = 0
  /\ Validate(cfg)
  /\ place' = 1
  /\ UNCHANGED <<cfg, conn, deps>>

\* Build takes its next step, or skips it.
BuildStep ==
  /\ place \in DOMAIN Steps
  /\ LET s == Steps[place]
     IN  \/ /\ Applies(cfg, s) /\ CanSucceed(cfg, s)
            /\ deps' = deps \cup {s}
            /\ conn' = IF s = "dial" THEN "open" ELSE conn
         \/ /\ ~Applies(cfg, s)
            /\ UNCHANGED <<deps, conn>>
  /\ place' = place + 1
  /\ UNCHANGED cfg

\* Build's next step fails.
StepFails ==
  /\ place \in DOMAIN Steps
  /\ Applies(cfg, Steps[place]) /\ CanFail(Steps[place])

\* Mutant of CloseConn: a foreign chain's failure returns at once.
CloseConnButForeign ==
  conn' = IF conn = "open" /\ Steps[place] # "foreign" THEN "closed" ELSE conn

\* Every error return after the dial closes the connection.
CloseConn == conn' = IF conn = "open" THEN "closed" ELSE conn

BootInit ==
  /\ cfg \in Configs
  /\ place = 0 /\ conn = "none" /\ deps = {}

BootTypeOK ==
  /\ cfg \in Configs
  /\ place \in 0 .. Built
  /\ conn \in {"none", "open", "closed"}
  /\ deps \subseteq {Steps[i] : i \in DOMAIN Steps}

\* What the file asks for, whether or not Build looks at it.
Configured(c) ==
  {s \in {Steps[i] : i \in DOMAIN Steps} :
     CASE s = "evm"         -> c.evmRPC
       [] s = "swap"        -> c.router # "" \/ c.wsvp # ""
       [] s = "oracle"      -> c.feed # ""
       [] s = "lendora"     -> c.comptroller # ""
       [] s = "bridge"      -> c.bridge # "" \/ c.routes \/ c.source
       [] s = "foreign"     -> c.foreign # <<>>
       [] s = "agent_chain" -> c.chainID \/ c.restURL
       [] s = "operator"    -> c.key \notin {"", "blank"}
       [] OTHER             -> TRUE}
=============================================================================
