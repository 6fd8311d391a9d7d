----------------------- MODULE ServerLifecycle_proofs -----------------------
(***************************************************************************)
(* Proofs about ServerLifecycle and Boot, for every configuration and      *)
(* every interleaving of main, the caches, App.Run, serve, the closer and  *)
(* the signal: the exit status is true, nothing is served after app.Close, *)
(* the connection never outlives runFull, and what is configured is what   *)
(* is served.                                                              *)
(***************************************************************************)
EXTENDS ServerLifecycle, SequenceTheorems, TLAPS

StepSet == {Steps[i] : i \in DOMAIN Steps}

\* The families wired once Build stands at step p.
Wired(c, p) == {s \in StepSet : \E i \in 1 .. p - 1 : s = Steps[i] /\ Applies(c, s)}

-----------------------------------------------------------------------------
\* Build's progress: a validated configuration, wired as far as it got; the
\* rest of the agent runs only once everything is built.
BuildSound ==
  /\ place > 0 => Validate(cfg)
  /\ deps = Wired(cfg, place)
  /\ mode = "full" /\ server # "off" => place = Built

\* Where the connection can be open, and where closed.
ConnSound ==
  /\ conn = "open" => place > 0 /\ mode = "full" /\ main # "exited"
  /\ conn = "closed" => main = "exited"
  /\ place > 0 => mode = "full"

\* Where main is when the server is not serving.
ServerSound ==
  /\ main = "boot" => server = "off"
  /\ serveErr # <<>> => server = "done"
  /\ main = "close" => server = "done"
  /\ main = "inline" => mode = "readOnly"

\* Only StartFull's end cancels, and the closer waits for the end.
CancelSound ==
  /\ main \in {"boot", "select", "inline"} => ~cancelled
  /\ closer = "closed" => Done

\* Error e on its way to main is deserved: "err" means that a part failed,
\* "nil" that one ended or that the context is done.
Deserved(e) == (e = "err" => failed) /\ (e = "nil" => quit \/ Done)

\* What a cache may report, before App.Run looks at the context.
Reported(e) == (e = "err" => failed \/ Done) /\ (e = "nil" => quit \/ Done)

\* The places where an error may be on its way to main.
ErrcSound == \A i \in 1 .. Len(errc) : Reported(errc[i])
RunSound ==
  /\ run = "judge" => Reported(runErr)
  /\ run = "send" => Deserved(runErr)
CacheErrSound == \A i \in 1 .. Len(cacheErr) : Deserved(cacheErr[i])
SrvErrSound == server = "send" => Deserved(srvErr)
ServeErrSound == \A i \in 1 .. Len(serveErr) : Deserved(serveErr[i])
RetSound ==
  main \in {"join", "close", "exited"} =>
    (ret = "err" => failed) /\ (ret = "nil" => signalled \/ quit)

StatusSound ==
  ErrcSound /\ RunSound /\ CacheErrSound /\ SrvErrSound /\ ServeErrSound /\ RetSound

Inv ==
  /\ TypeOK
  /\ BuildSound
  /\ ConnSound
  /\ ServerSound
  /\ CancelSound
  /\ StatusSound
  /\ NoServingAfterClose

-----------------------------------------------------------------------------
LEMMA StepsShape == Len(Steps) = 11 /\ DOMAIN Steps = 1 .. 11 /\ Built = 12
BY DEF Steps, Built

\* Validate leaves no family half configured: for a valid file, what Build
\* wires is what the file mentions (config.go:226-266 against wire.go).
LEMMA ValidIsWired ==
  ASSUME NEW c \in ConfigRecords, Validate(c)
  PROVE  Wired(c, Built) = Configured(c)
<1>1. ASSUME NEW s \in StepSet
      PROVE  Applies(c, s) <=>
               CASE s = "evm"         -> c.evmRPC
                 [] s = "swap"        -> c.router # "" \/ c.wsvp # ""
                 [] s = "oracle"      -> c.feed # ""
                 [] s = "lendora"     -> c.comptroller # ""
                 [] s = "bridge"      -> c.bridge # "" \/ c.routes \/ c.source
                 [] s = "foreign"     -> c.foreign # <<>>
                 [] s = "agent_chain" -> c.chainID \/ c.restURL
                 [] s = "operator"    -> c.key \notin {"", "blank"}
                 [] OTHER             -> TRUE
  BY DEF Applies, Validate, validateSwap, validateOracle, validateLendora, validateBridge,
     validateForeignChains, IsHexAddress, ConfigRecords
<1>2. Wired(c, Built) = {s \in StepSet : Applies(c, s)}
  BY StepsShape DEF Wired, StepSet
<1> QED
  BY <1>1, <1>2 DEF Configured, StepSet

\* The initial states satisfy the invariant.
LEMMA InitInv == Init => Inv
<1> SUFFICES ASSUME Init PROVE Inv
  OBVIOUS
<1> USE StepsShape DEF Init, BootInit
<1>1. TypeOK
  <2>1. BootTypeOK
    BY DEF BootTypeOK
  <2>2. errc \in Seq(Errors) /\ cacheErr \in Seq(Errors) /\ serveErr \in Seq(Errors)
    OBVIOUS
  <2> QED
    BY <2>1, <2>2 DEF TypeOK, Errors, Caches
<1>2. BuildSound
  BY DEF BuildSound, Wired
<1>3. ConnSound /\ ServerSound /\ CancelSound /\ NoServingAfterClose
  BY DEF ConnSound, ServerSound, CancelSound, NoServingAfterClose
<1>4. StatusSound
  BY DEF StatusSound, ErrcSound, RunSound, CacheErrSound, SrvErrSound, ServeErrSound, RetSound
<1> QED
  BY <1>1, <1>2, <1>3, <1>4 DEF Inv

-----------------------------------------------------------------------------
\* Everything main, the goroutines and the signal do.
Action ==
  \/ Signal \/ BootStep \/ StartFull \/ BootReadOnly \/ ConfigRefused \/ BuildFails
  \/ CardFails \/ FlagsRefused \/ CacheHalfDown \/ Join \/ ServerHalfDown \/ Close
  \/ ReturnInline \/ StartCaches \/ RunReceives \/ RunJudges \/ RunCancelled \/ RunSends
  \/ ListenFails \/ Listen \/ ServeReturns \/ ServeSends \/ CloseServer
  \/ \E c \in Caches, e \in Errors : CacheEnds(c, e)

LEMMA NextCases == [Next]_vars => (main # "exited" /\ Action) \/ UNCHANGED vars
BY DEF Next, Gone, Main, Run, Serve, CacheStep, Action

\* The steps of main up to StartFull, which touch the boot state.
LEMMA BootType ==
  ASSUME TypeOK, Action
  PROVE  BootTypeOK'
<1> USE StepsShape DEF TypeOK, BootTypeOK
<1>1. CASE BootStep
  BY <1>1 DEF BootStep, Load, BuildStep
<1>2. CASE ConfigRefused \/ BuildFails \/ CardFails \/ FlagsRefused
  BY <1>2 DEF ConfigRefused, BuildFails, CardFails, FlagsRefused, Refuse, Exit, CloseConn
<1>3. CASE Close
  BY <1>3 DEF Close, Exit
<1>4. CASE UNCHANGED bootVars
  BY <1>4 DEF bootVars
<1> QED
  BY <1>1, <1>2, <1>3, <1>4 DEF Action, Signal, StartFull, BootReadOnly, CacheHalfDown,
     Join, ServerHalfDown, ReturnInline, StartCaches, RunReceives, RunJudges,
     RunCancelled, RunSends, ListenFails, Listen, ServeReturns, ServeSends, CloseServer,
     CacheEnds, mainVars

LEMMA TypeStep ==
  ASSUME TypeOK, Action
  PROVE  TypeOK'
<1>1. BootTypeOK'
  BY BootType
<1>2. mode' \in {"full", "readOnly"} /\ signalled' \in BOOLEAN /\ cancelled' \in BOOLEAN
  BY DEF TypeOK, Action, Signal, BootStep, StartFull, BootReadOnly, ConfigRefused,
     BuildFails, CardFails, FlagsRefused, Refuse, CacheHalfDown, Join, ServerHalfDown,
     Close, ReturnInline, StartCaches, RunReceives, RunJudges, RunCancelled, RunSends,
     ListenFails, Listen, ServeReturns, ServeSends, CloseServer, CacheEnds, stop
<1>3. main' \in {"boot", "select", "join", "close", "inline", "exited"}
  BY DEF TypeOK, Action, Signal, BootStep, StartFull, BootReadOnly, ConfigRefused,
     BuildFails, CardFails, FlagsRefused, Refuse, Exit, CacheHalfDown, Join, ServerHalfDown,
     Close, ReturnInline, StartCaches, RunReceives, RunJudges, RunCancelled, RunSends,
     ListenFails, Listen, ServeReturns, ServeSends, CloseServer, CacheEnds, mainVars
<1>4. /\ errc' \in Seq(Errors) /\ cacheErr' \in Seq(Errors) /\ serveErr' \in Seq(Errors)
      /\ ret' \in Errors /\ runErr' \in Errors /\ srvErr' \in Errors
  <2> USE DEF TypeOK
  <2>1. \A s \in Seq(Errors), e \in Errors : Append(s, e) \in Seq(Errors)
    OBVIOUS
  <2>2. \A s \in Seq(Errors) : s # <<>> => Head(s) \in Errors /\ Tail(s) \in Seq(Errors)
    OBVIOUS
  <2>3. "err" \in Errors /\ "nil" \in Errors
    BY DEF Errors
  <2>4. CASE CacheHalfDown \/ Join \/ ServerHalfDown
    BY <2>2, <2>4 DEF CacheHalfDown, Join, ServerHalfDown, cacheVars, serveVars
  <2>5. CASE RunReceives \/ RunJudges \/ RunCancelled \/ RunSends
    BY <2>1, <2>2, <2>3, <2>5 DEF RunReceives, RunJudges, RunCancelled, RunSends,
       mainVars, serveVars
  <2>6. CASE ListenFails \/ ServeReturns \/ ServeSends
    BY <2>1, <2>3, <2>6 DEF ListenFails, ServeReturns, ServeSends, mainVars, cacheVars
  <2>7. CASE ConfigRefused \/ BuildFails \/ CardFails \/ FlagsRefused \/ Close \/ ReturnInline
    BY <2>3, <2>7 DEF ConfigRefused, BuildFails, CardFails, FlagsRefused, Refuse, Exit, Close,
       ReturnInline, cacheVars, serveVars
  <2>8. ASSUME NEW c \in Caches, NEW e \in Errors, CacheEnds(c, e)
        PROVE  /\ errc' \in Seq(Errors) /\ cacheErr' \in Seq(Errors) /\ serveErr' \in Seq(Errors)
               /\ ret' \in Errors /\ runErr' \in Errors /\ srvErr' \in Errors
    BY <2>1, <2>8 DEF CacheEnds, mainVars, serveVars
  <2>9. CASE Signal \/ BootStep \/ StartFull \/ BootReadOnly \/ StartCaches \/ Listen
             \/ CloseServer
    BY <2>9 DEF Signal, BootStep, StartFull, BootReadOnly, StartCaches, Listen, CloseServer,
       mainVars, cacheVars, serveVars
  <2> QED
    BY <2>4, <2>5, <2>6, <2>7, <2>8, <2>9 DEF Action
<1>5. /\ cache' \in [Caches -> {"off", "running", "ended"}]
      /\ run' \in {"off", "start", "select", "judge", "send", "done"}
      /\ server' \in {"off", "listen", "serving", "send", "done"}
      /\ closer' \in {"off", "waiting", "closed"}
  BY DEF TypeOK, Action, Signal, BootStep, StartFull, BootReadOnly, ConfigRefused,
     BuildFails, CardFails, FlagsRefused, Refuse, CacheHalfDown, Join, ServerHalfDown,
     Close, ReturnInline, StartCaches, RunReceives, RunJudges, RunCancelled, RunSends,
     ListenFails, Listen, ServeReturns, ServeSends, CloseServer, CacheEnds,
     cacheVars, serveVars
<1>6. failed' \in BOOLEAN /\ quit' \in BOOLEAN
  BY DEF TypeOK, Action, Signal, BootStep, StartFull, BootReadOnly, ConfigRefused,
     BuildFails, CardFails, FlagsRefused, Refuse, CacheHalfDown, Join, ServerHalfDown,
     Close, ReturnInline, StartCaches, RunReceives, RunJudges, RunCancelled, RunSends,
     ListenFails, Listen, ServeReturns, ServeSends, CloseServer, CacheEnds
<1> QED
  BY <1>1, <1>2, <1>3, <1>4, <1>5, <1>6 DEF TypeOK

-----------------------------------------------------------------------------
\* Build's progress survives every step: only BootStep moves it, and only
\* StartFull, which finds everything built, starts the server.
LEMMA BuildStepSound ==
  ASSUME Inv, Action
  PROVE  BuildSound'
<1> USE StepsShape DEF Inv, BuildSound
<1>1. CASE BootStep
  <2>1. cfg' = cfg /\ server' = server /\ server = "off"
    BY <1>1 DEF BootStep, Load, BuildStep, serveVars, ServerSound
  <2>2. CASE Load
    <3>1. place = 0 /\ place' = 1 /\ Validate(cfg) /\ deps' = deps
      BY <2>2 DEF Load
    <3>2. Wired(cfg, 1) = Wired(cfg, 0)
      BY DEF Wired
    <3> QED
      BY <2>1, <3>1, <3>2
  <2>3. CASE BuildStep
    <3>1. place \in 1 .. 11 /\ place' = place + 1
      BY <2>3 DEF BuildStep
    <3>2. Applies(cfg, Steps[place]) => Wired(cfg, place + 1) = Wired(cfg, place) \cup {Steps[place]}
      BY <3>1 DEF Wired, StepSet
    <3>3. ~Applies(cfg, Steps[place]) => Wired(cfg, place + 1) = Wired(cfg, place)
      BY <3>1 DEF Wired, StepSet
    <3>4. deps' = Wired(cfg, place + 1)
      BY <2>3, <3>2, <3>3 DEF BuildStep
    <3> QED
      BY <2>1, <3>1, <3>4
  <2> QED
    BY <1>1, <2>2, <2>3 DEF BootStep
<1>2. CASE ~BootStep
  <2>1. UNCHANGED <<cfg, place, deps, mode>>
    BY <1>2 DEF Action, Signal, StartFull, BootReadOnly, ConfigRefused, BuildFails, CardFails,
       FlagsRefused, Refuse, CacheHalfDown, Join, ServerHalfDown, Close, ReturnInline,
       StartCaches, RunReceives, RunJudges, RunCancelled, RunSends, ListenFails, Listen,
       ServeReturns, ServeSends, CloseServer, CacheEnds, mainVars, bootVars
  <2>2. mode = "full" /\ server' # "off" => server # "off" \/ place = Built
    BY <1>2 DEF Action, Signal, StartFull, BootReadOnly, ConfigRefused, BuildFails, CardFails,
       FlagsRefused, Refuse, CacheHalfDown, Join, ServerHalfDown, Close, ReturnInline,
       StartCaches, RunReceives, RunJudges, RunCancelled, RunSends, ListenFails, Listen,
       ServeReturns, ServeSends, CloseServer, CacheEnds, serveVars
  <2> QED
    BY <2>1, <2>2
<1> QED
  BY <1>1, <1>2

\* Every way out of main closes the connection, and none of the other steps
\* touches it.
LEMMA ConnStepSound ==
  ASSUME Inv, Action
  PROVE  ConnSound'
<1> USE StepsShape DEF Inv, ConnSound, TypeOK, BootTypeOK
<1>1. CASE BootStep
  BY <1>1 DEF BootStep, Load, BuildStep
<1>2. CASE ConfigRefused \/ BuildFails \/ CardFails \/ FlagsRefused
  BY <1>2 DEF ConfigRefused, BuildFails, CardFails, FlagsRefused, Refuse, Exit, CloseConn
<1>3. CASE Close
  BY <1>3 DEF Close, Exit
<1>4. CASE ReturnInline
  BY <1>4 DEF ReturnInline, Exit, bootVars, ServerSound
<1>5. CASE UNCHANGED <<mode, place, conn>> /\ (main' = "exited" <=> main = "exited")
  BY <1>5
<1> QED
  BY <1>1, <1>2, <1>3, <1>4, <1>5 DEF Action, Signal, StartFull, BootReadOnly, CacheHalfDown,
     Join, ServerHalfDown, StartCaches, RunReceives, RunJudges, RunCancelled, RunSends,
     ListenFails, Listen, ServeReturns, ServeSends, CloseServer, CacheEnds, mainVars, bootVars

\* The server's place follows main's.
LEMMA ServerStepSound ==
  ASSUME Inv, main # "exited", Action
  PROVE  ServerSound' /\ NoServingAfterClose'
<1> USE DEF Inv, ServerSound
<1>1. CASE BootStep \/ StartFull \/ BootReadOnly
  BY <1>1 DEF BootStep, StartFull, BootReadOnly, Load, BuildStep, serveVars, bootVars,
     ConnSound, NoServingAfterClose
<1>2. CASE ConfigRefused \/ BuildFails \/ CardFails \/ FlagsRefused
  BY <1>2 DEF ConfigRefused, BuildFails, CardFails, FlagsRefused, Refuse, Exit, serveVars,
     NoServingAfterClose
<1>3. CASE CacheHalfDown \/ Join \/ ServerHalfDown
  BY <1>3 DEF CacheHalfDown, Join, ServerHalfDown, serveVars, bootVars, ConnSound,
     NoServingAfterClose
<1>4. CASE Close \/ ReturnInline
  BY <1>4 DEF Close, ReturnInline, Exit, serveVars, bootVars, NoServingAfterClose
<1>5. CASE ListenFails \/ Listen \/ ServeReturns \/ ServeSends
  BY <1>5 DEF ListenFails, Listen, ServeReturns, ServeSends, mainVars, bootVars, ConnSound,
     NoServingAfterClose
<1>6. CASE UNCHANGED <<mode, main, conn, server, serveErr>>
  BY <1>6 DEF NoServingAfterClose
<1> QED
  BY <1>1, <1>2, <1>3, <1>4, <1>5, <1>6 DEF Action, Signal, StartCaches, RunReceives,
     RunJudges, RunCancelled, RunSends, CloseServer, CacheEnds, mainVars, bootVars, serveVars

\* The context is done for a reason, and stays done.
LEMMA CancelStepSound ==
  ASSUME Inv, Action
  PROVE  CancelSound' /\ (Done => Done')
<1> USE DEF Inv, TypeOK, CancelSound, Done
<1>1. CASE Signal \/ CloseServer
  BY <1>1 DEF Signal, CloseServer, stop, mainVars, serveVars
<1>2. CASE CacheHalfDown \/ Join \/ ServerHalfDown
  BY <1>2 DEF CacheHalfDown, Join, ServerHalfDown, stop, serveVars
<1>3. CASE Listen
  BY <1>3 DEF Listen, stop, mainVars
<1>4. CASE /\ UNCHANGED <<stop, closer>>
           /\ main' \in {"boot", "select", "inline"} => main \in {"boot", "select", "inline"}
  BY <1>4 DEF stop
<1> QED
  BY <1>1, <1>2, <1>3, <1>4 DEF Action, BootStep, StartFull, BootReadOnly, ConfigRefused,
     BuildFails, CardFails, FlagsRefused, Refuse, Exit, Close, ReturnInline, StartCaches,
     RunReceives, RunJudges, RunCancelled, RunSends, ListenFails, ServeReturns, ServeSends,
     CacheEnds, mainVars, serveVars

\* What is deserved stays deserved, along with its reasons.
LEMMA ReasonsStay ==
  ASSUME Inv, Action
  PROVE  /\ failed => failed'
         /\ quit => quit'
         /\ signalled => signalled'
         /\ \A e \in Errors : (Deserved(e) => Deserved(e)') /\ (Reported(e) => Reported(e)')
<1>1. /\ failed => failed'
      /\ quit => quit'
      /\ signalled => signalled'
  BY DEF Inv, TypeOK, Action, Signal, BootStep, StartFull, BootReadOnly, ConfigRefused, BuildFails,
     CardFails, FlagsRefused, Refuse, CacheHalfDown, Join, ServerHalfDown, Close, ReturnInline,
     StartCaches, RunReceives, RunJudges, RunCancelled, RunSends, ListenFails, Listen,
     ServeReturns, ServeSends, CloseServer, CacheEnds, stop
<1>2. Done => Done'
  BY CancelStepSound
<1> QED
  BY <1>1, <1>2 DEF Deserved, Reported

\* An error may leave the head of a channel, or join its end.
LEMMA ChannelHead ==
  ASSUME NEW s \in Seq(Errors), s # <<>>
  PROVE  /\ Head(s) = s[1] /\ 1 \in 1 .. Len(s)
         /\ \A i \in 1 .. Len(Tail(s)) : i + 1 \in 1 .. Len(s) /\ Tail(s)[i] = s[i + 1]
OBVIOUS

LEMMA ChannelAppend ==
  ASSUME NEW s \in Seq(Errors), NEW e \in Errors
  PROVE  \A i \in 1 .. Len(Append(s, e)) :
           (i \in 1 .. Len(s) /\ Append(s, e)[i] = s[i]) \/ Append(s, e)[i] = e
OBVIOUS

\* App.Run and the channels it receives from and sends to.
LEMMA RunStepSound ==
  ASSUME Inv, Action
  PROVE  ErrcSound' /\ RunSound' /\ CacheErrSound'
<1> USE DEF Inv, StatusSound
<1>0. /\ errc \in Seq(Errors) /\ cacheErr \in Seq(Errors) /\ runErr \in Errors
      /\ \A i \in 1 .. Len(errc) : errc[i] \in Errors
      /\ \A i \in 1 .. Len(cacheErr) : cacheErr[i] \in Errors
  BY DEF TypeOK
<1>1. \A e \in Errors : (Deserved(e) => Deserved(e)') /\ (Reported(e) => Reported(e)')
  BY ReasonsStay
<1>2. errc' = errc => ErrcSound'
  BY <1>0, <1>1 DEF ErrcSound
<1>3. run' = run /\ runErr' = runErr => RunSound'
  BY <1>0, <1>1 DEF RunSound
<1>4. cacheErr' = cacheErr => CacheErrSound'
  BY <1>0, <1>1 DEF CacheErrSound
<1>5. ASSUME NEW c \in Caches, NEW e \in Errors, CacheEnds(c, e)
      PROVE  ErrcSound' /\ RunSound' /\ CacheErrSound'
  <2>1. Reported(e)'
    BY <1>5 DEF CacheEnds, Reported, Done, stop, TypeOK, Errors
  <2>2. errc' = Append(errc, e)
    BY <1>5 DEF CacheEnds
  <2>3. ErrcSound'
    BY <1>0, <1>1, <2>1, <2>2, ChannelAppend DEF ErrcSound
  <2> QED
    BY <1>3, <1>4, <1>5, <2>3 DEF CacheEnds
<1>6. CASE RunReceives
  <2>1. /\ errc # <<>> /\ runErr' = Head(errc) /\ errc' = Tail(errc) /\ run' = "judge"
        /\ cacheErr' = cacheErr
    BY <1>6 DEF RunReceives
  <2>2. Reported(Head(errc))
    BY <1>0, <2>1, ChannelHead DEF ErrcSound
  <2>3. RunSound'
    BY <1>0, <1>1, <2>1, <2>2, ChannelHead DEF RunSound
  <2>4. ErrcSound'
    BY <1>0, <1>1, <2>1, ChannelHead DEF ErrcSound
  <2> QED
    BY <1>4, <2>1, <2>3, <2>4
<1>7. CASE RunJudges
  <2>1. /\ run = "judge" /\ run' = "send"
        /\ runErr' = (IF runErr = "err" /\ ~Done THEN "err" ELSE "nil")
        /\ errc' = errc /\ cacheErr' = cacheErr
    BY <1>7 DEF RunJudges
  <2>2. Deserved(IF runErr = "err" /\ ~Done THEN "err" ELSE "nil")
    BY <1>0, <2>1 DEF RunSound, Reported, Deserved, Errors
  <2>3. Deserved(runErr)'
    BY <1>1, <2>1, <2>2 DEF Errors
  <2> QED
    BY <1>2, <1>4, <2>1, <2>3 DEF RunSound
<1>8. CASE RunCancelled
  <2>1. /\ Done /\ run' = "send" /\ runErr' = "nil" /\ errc' = errc /\ cacheErr' = cacheErr
    BY <1>8 DEF RunCancelled
  <2>2. Deserved("nil")
    BY <2>1 DEF Deserved
  <2>3. Deserved(runErr)'
    BY <1>1, <2>1, <2>2 DEF Errors
  <2> QED
    BY <1>2, <1>4, <2>1, <2>3 DEF RunSound
<1>9. CASE RunSends
  <2>1. /\ run = "send" /\ cacheErr' = Append(cacheErr, runErr) /\ run' = "done"
        /\ errc' = errc
    BY <1>9 DEF RunSends
  <2>2. Deserved(runErr)
    BY <2>1 DEF RunSound
  <2>3. CacheErrSound'
    BY <1>0, <1>1, <2>1, <2>2, ChannelAppend DEF CacheErrSound
  <2> QED
    BY <1>2, <2>1, <2>3 DEF RunSound
<1>10. CASE CacheHalfDown
  <2>1. cacheErr # <<>> /\ cacheErr' = Tail(cacheErr) /\ UNCHANGED <<errc, run, runErr>>
    BY <1>10 DEF CacheHalfDown
  <2>2. CacheErrSound'
    BY <1>0, <1>1, <2>1, ChannelHead DEF CacheErrSound
  <2> QED
    BY <1>2, <1>3, <2>1, <2>2
<1>11. CASE StartFull \/ StartCaches
  BY <1>2, <1>4, <1>11 DEF StartFull, StartCaches, RunSound
<1>12. CASE UNCHANGED cacheVars
  BY <1>2, <1>3, <1>4, <1>12 DEF cacheVars
<1> QED
  BY <1>5, <1>6, <1>7, <1>8, <1>9, <1>10, <1>11, <1>12 DEF Action, Signal, BootStep,
     BootReadOnly, ConfigRefused, BuildFails, CardFails, FlagsRefused, Refuse, Join,
     ServerHalfDown, Close, ReturnInline, ListenFails, Listen, ServeReturns, ServeSends,
     CloseServer

\* serve and the channel it sends to.
LEMMA ServeStepSound ==
  ASSUME Inv, Action
  PROVE  SrvErrSound' /\ ServeErrSound'
<1> USE DEF Inv, StatusSound
<1>0. /\ serveErr \in Seq(Errors) /\ srvErr \in Errors
      /\ \A i \in 1 .. Len(serveErr) : serveErr[i] \in Errors
  BY DEF TypeOK
<1>1. \A e \in Errors : Deserved(e) => Deserved(e)'
  BY ReasonsStay
<1>2. server' = server /\ srvErr' = srvErr => SrvErrSound'
  BY <1>0, <1>1 DEF SrvErrSound
<1>3. serveErr' = serveErr => ServeErrSound'
  BY <1>0, <1>1 DEF ServeErrSound
<1>4. CASE ListenFails
  BY <1>3, <1>4 DEF ListenFails, SrvErrSound, Deserved
<1>5. CASE ServeReturns
  <2>1. CASE closer = "closed" /\ srvErr' = "nil"
    <3>1. Deserved("nil")
      BY <2>1 DEF CancelSound, Deserved
    <3> QED
      BY <1>1, <1>3, <1>5, <2>1, <3>1 DEF ServeReturns, SrvErrSound, Errors
  <2>2. CASE srvErr' = "err" /\ failed'
    BY <1>3, <1>5, <2>2 DEF ServeReturns, SrvErrSound, Deserved
  <2> QED
    BY <1>5, <2>1, <2>2 DEF ServeReturns
<1>6. CASE ServeSends
  <2>1. server = "send" /\ serveErr' = Append(serveErr, srvErr) /\ server' = "done"
    BY <1>6 DEF ServeSends
  <2>2. Deserved(srvErr)
    BY <2>1 DEF SrvErrSound
  <2>3. ServeErrSound'
    BY <1>0, <1>1, <2>1, <2>2, ChannelAppend DEF ServeErrSound
  <2> QED
    BY <2>1, <2>3 DEF SrvErrSound
<1>7. CASE Join \/ ServerHalfDown
  <2>1. serveErr # <<>> /\ serveErr' = Tail(serveErr) /\ UNCHANGED <<server, srvErr>>
    BY <1>7 DEF Join, ServerHalfDown
  <2>2. ServeErrSound'
    BY <1>0, <1>1, <2>1, ChannelHead DEF ServeErrSound
  <2> QED
    BY <1>2, <2>1, <2>2
<1>8. CASE UNCHANGED serveErr /\ (server' # "send" \/ UNCHANGED <<server, srvErr>>)
  BY <1>2, <1>3, <1>8 DEF SrvErrSound
<1> QED
  BY <1>4, <1>5, <1>6, <1>7, <1>8 DEF Action, Signal, BootStep, StartFull, BootReadOnly,
     ConfigRefused, BuildFails, CardFails, FlagsRefused, Refuse, CacheHalfDown, Close,
     ReturnInline, StartCaches, RunReceives, RunJudges, RunCancelled, RunSends, Listen,
     CloseServer, CacheEnds, serveVars

\* What main returns with.
LEMMA RetStepSound ==
  ASSUME Inv, Action
  PROVE  RetSound'
<1> USE DEF Inv, StatusSound
<1>1. /\ failed => failed'
      /\ quit => quit'
      /\ signalled => signalled'
  BY ReasonsStay
<1>2. CASE ConfigRefused \/ BuildFails \/ CardFails \/ FlagsRefused
  BY <1>2 DEF ConfigRefused, BuildFails, CardFails, FlagsRefused, Refuse, Exit, RetSound
<1>3. CASE CacheHalfDown
  <2>1. /\ main = "select" /\ cacheErr # <<>> /\ ret' = Head(cacheErr)
        /\ UNCHANGED <<signalled, failed, quit>>
    BY <1>3 DEF CacheHalfDown
  <2>2. Deserved(Head(cacheErr)) /\ ~cancelled
    BY <2>1, ChannelHead DEF CacheErrSound, CancelSound, TypeOK
  <2> QED
    BY <2>1, <2>2 DEF Deserved, Done, RetSound
<1>4. CASE ServerHalfDown
  <2>1. /\ main = "select" /\ serveErr # <<>> /\ ret' = Head(serveErr)
        /\ UNCHANGED <<signalled, failed, quit>>
    BY <1>4 DEF ServerHalfDown
  <2>2. Deserved(Head(serveErr)) /\ ~cancelled
    BY <2>1, ChannelHead DEF ServeErrSound, CancelSound, TypeOK
  <2> QED
    BY <2>1, <2>2 DEF Deserved, Done, RetSound
<1>5. CASE Join \/ Close
  BY <1>5 DEF Join, Close, Exit, stop, RetSound
<1>6. CASE ReturnInline
  <2>1. /\ main = "inline" /\ server = "send" /\ ret' = srvErr
        /\ UNCHANGED <<signalled, failed, quit>>
    BY <1>6 DEF ReturnInline, Exit, stop
  <2>2. Deserved(srvErr) /\ ~cancelled
    BY <2>1 DEF SrvErrSound, CancelSound
  <2> QED
    BY <2>1, <2>2 DEF Deserved, Done, RetSound
<1>7. CASE main' \in {"boot", "select", "inline"}
  BY <1>7 DEF RetSound
<1>8. CASE UNCHANGED <<main, ret>>
  BY <1>1, <1>8 DEF RetSound
<1> QED
  BY <1>2, <1>3, <1>4, <1>5, <1>6, <1>7, <1>8 DEF Action, Signal, BootStep, StartFull,
     BootReadOnly, StartCaches, RunReceives, RunJudges, RunCancelled, RunSends, ListenFails,
     Listen, ServeReturns, ServeSends, CloseServer, CacheEnds, mainVars

-----------------------------------------------------------------------------
\* The invariant is inductive.
LEMMA NextInv == Inv /\ [Next]_vars => Inv'
<1> SUFFICES ASSUME Inv, [Next]_vars PROVE Inv'
  OBVIOUS
<1>1. CASE main # "exited" /\ Action
  BY <1>1, TypeStep, BuildStepSound, ConnStepSound, ServerStepSound, CancelStepSound,
     RunStepSound, ServeStepSound, RetStepSound DEF Inv, StatusSound
<1>2. CASE UNCHANGED vars
  <2>1. UNCHANGED <<mode, signalled, cancelled, main, ret, cfg, place, conn, deps, cache, errc,
                    run, runErr, cacheErr, server, srvErr, serveErr, closer, failed, quit>>
    BY <1>2 DEF vars, stop, mainVars, bootVars, cacheVars, serveVars
  <2>2. TypeOK' /\ BuildSound' /\ ConnSound' /\ ServerSound' /\ CancelSound'
        /\ NoServingAfterClose'
    BY <2>1 DEF Inv, TypeOK, BootTypeOK, BuildSound, ConnSound, ServerSound, CancelSound,
       Done, NoServingAfterClose
  <2>3. StatusSound'
    BY <2>1 DEF Inv, StatusSound, ErrcSound, RunSound, CacheErrSound, SrvErrSound,
       ServeErrSound, RetSound, Reported, Deserved, Done
  <2> QED
    BY <2>2, <2>3 DEF Inv
<1> QED
  BY <1>1, <1>2, NextCases

\* The invariant holds of every reachable state.
THEOREM InvHolds == Spec => []Inv
BY InitInv, NextInv, PTL DEF Spec

\* Places, channels and the boot state keep their types; no channel ever
\* holds anything but an error or nil.
THEOREM TypeCorrect == Spec => []TypeOK
<1>1. Inv => TypeOK
  BY DEF Inv
<1> QED
  BY <1>1, InvHolds, PTL

\* The process exits with 1 only if a part failed of itself and with 0 only
\* after a signal or a cache that ended without an error, for every
\* interleaving of the goroutines (main.go:46-49, server.go:86-98,
\* wire.go:88-95).
THEOREM ExitStatus == Spec => []ExitStatusIsTrue
<1>1. Inv => ExitStatusIsTrue
  BY DEF Inv, StatusSound, RetSound, ExitStatusIsTrue
<1> QED
  BY <1>1, InvHolds, PTL

\* Whichever half goes down first, the HTTP server has stopped by the time
\* app.Close closes the connection (server.go:87-93, main.go:61).
THEOREM CloseComesLast == Spec => []NoServingAfterClose
<1>1. Inv => NoServingAfterClose
  BY DEF Inv
<1> QED
  BY <1>1, InvHolds, PTL

\* Every way main can end, from any configuration and at any step of Build,
\* leaves the connection closed or never opened (wire.go:149-358, main.go:61).
THEOREM NoConnectionLeaks == Spec => []ConnectionClosedAtExit
<1>1. Inv => ConnectionClosedAtExit
  BY DEF Inv, ConnSound, ConnectionClosedAtExit
<1> QED
  BY <1>1, InvHolds, PTL

\* For every configuration that Validate lets through, with any number of
\* foreign chains, the families that are served are those the file mentions
\* (config.go:226-266, wire.go:158-374).
THEOREM NothingSilentlyLeftOut == Spec => []ConfiguredIsServed
<1>1. Inv => ConfiguredIsServed
  <2> SUFFICES ASSUME Inv, mode = "full", server = "serving"
               PROVE  deps = Configured(cfg)
    BY DEF ConfiguredIsServed
  <2>1. place = Built /\ deps = Wired(cfg, place) /\ Validate(cfg)
    BY StepsShape DEF Inv, BuildSound
  <2>2. cfg \in ConfigRecords
    BY ConfigsAssumption DEF Inv, TypeOK, BootTypeOK
  <2> QED
    BY <2>1, <2>2, ValidIsWired
<1> QED
  BY <1>1, InvHolds, PTL
=============================================================================
