-------------------------- MODULE ServerLifecycle ---------------------------
(***************************************************************************)
(* The life of the agent process: main and runFull                         *)
(* (src/cmd/svpchain-dex-agent/main.go), StartFull and serve               *)
(* (src/internal/a2aserver/server.go), App.Run and App.Close               *)
(* (src/internal/wire/wire.go).  The goroutines are main, one per          *)
(* background cache, App.Run, serve and the one that closes the HTTP       *)
(* server; they meet at the channels errc, cacheErr and serveErr and at    *)
(* the context that SIGINT, SIGTERM or StartFull cancels.  What main does  *)
(* before any of them runs, loading the configuration and building the     *)
(* agent, is in module Boot.                                               *)
(*                                                                         *)
(* The caches (markets, lendora) are external: Run ends when the context   *)
(* does, or by itself with an error or without one.                        *)
(***************************************************************************)
EXTENDS Boot

\* The background caches; lendora runs only if it is configured.
Caches == {"markets", "lendora"}

VARIABLES
  mode,      \* "full" (with -config) or "readOnly"
  signalled, \* SIGINT or SIGTERM has arrived: the root context is done
  cancelled, \* StartFull has called its cancel
  main,      \* main's place
  ret,       \* the error main is returning with
  cache,     \* the place of each cache's goroutine
  errc,      \* App.Run's channel of capacity 2
  run,       \* App.Run's place
  runErr,    \* the error App.Run is returning
  cacheErr,  \* StartFull's channel of capacity 1
  server,    \* serve's place
  srvErr,    \* the error serve is returning
  serveErr,  \* StartFull's channel of capacity 1
  closer,    \* the place of the goroutine that closes the HTTP server
  failed,    \* history: some part has failed of itself
  quit       \* history: some cache has ended of itself without an error

stop == <<signalled, cancelled>>
mainVars == <<main, ret, bootVars>>
cacheVars == <<cache, errc, run, runErr, cacheErr>>
serveVars == <<server, srvErr, serveErr, closer>>
vars == <<mode, stop, mainVars, cacheVars, serveVars, failed, quit>>

Errors == {"nil", "err"}

\* The context the goroutines of StartFull see; in read-only mode serve has
\* the root context, which nobody else cancels.
Done == signalled \/ cancelled

-----------------------------------------------------------------------------
\* A signal reaches signal.NotifyContext.
Signal ==
  /\ ~signalled /\ main # "exited"
  /\ signalled' = TRUE
  /\ UNCHANGED <<mode, cancelled, mainVars, cacheVars, serveVars, failed, quit>>

\* main returns: os.Exit(1) on an error, 0 otherwise.  app.Close has run.
Exit(e) ==
  /\ main' = "exited"
  /\ ret' = e

\* runFull: config.Load, then the steps of Build.
BootStep ==
  /\ main = "boot" /\ mode = "full"
  /\ Load \/ BuildStep
  /\ UNCHANGED <<mode, stop, main, ret, cacheVars, serveVars, failed, quit>>

\* Build has succeeded; StartFull hands over the card and starts its
\* goroutines.
StartFull ==
  /\ main = "boot" /\ mode = "full" /\ place = Built
  /\ main' = "select"
  /\ run' = "start"
  /\ server' = "listen"
  /\ UNCHANGED <<mode, stop, ret, bootVars, cache, errc, runErr, cacheErr, srvErr,
                 serveErr, closer, failed, quit>>

\* runReadOnly: StartServer calls serve on the main goroutine.
BootReadOnly ==
  /\ main = "boot" /\ mode = "readOnly"
  /\ main' = "inline"
  /\ server' = "listen"
  /\ UNCHANGED <<mode, stop, ret, bootVars, cacheVars, srvErr, serveErr, closer,
                 failed, quit>>

\* main returns an error before anything runs.
Refuse ==
  /\ main = "boot"
  /\ Exit("err")
  /\ failed' = TRUE
  /\ UNCHANGED <<mode, stop, cfg, place, deps, cacheVars, serveVars, quit>>

\* The configuration file is unreadable, malformed or invalid.
ConfigRefused ==
  /\ mode = "full" /\ place = 0
  /\ Refuse
  /\ UNCHANGED conn

\* A step of Build fails.
BuildFails ==
  /\ mode = "full" /\ StepFails
  /\ Refuse
  /\ CloseConn

\* The delegated service's card does not marshal; the deferred app.Close runs.
CardFails ==
  /\ mode = "full" /\ place = Built /\ "operator" \in deps
  /\ Refuse
  /\ conn' = "closed"

\* Neither a configuration nor an indexer URL was given.
FlagsRefused ==
  /\ mode = "readOnly"
  /\ Refuse
  /\ UNCHANGED conn

-----------------------------------------------------------------------------
\* App.Run starts one goroutine per cache.
StartCaches ==
  /\ run = "start"
  /\ cache' = [c \in Caches |-> IF c = "lendora" /\ "lendora" \notin deps
                                 THEN "off" ELSE "running"]
  /\ run' = "select"
  /\ UNCHANGED <<mode, stop, mainVars, errc, runErr, cacheErr, serveVars, failed, quit>>

\* A cache's Run ends with error e: of itself, or because the context is done
\* (and then with or without an error).  The send does not block: errc has
\* room for every cache.
CacheEnds(c, e) ==
  /\ cache[c] = "running"
  /\ Len(errc) < 2
  /\ cache' = [cache EXCEPT ![c] = "ended"]
  /\ errc' = Append(errc, e)
  /\ failed' = (failed \/ (e = "err" /\ ~Done))
  /\ quit' = (quit \/ (e = "nil" /\ ~Done))
  /\ UNCHANGED <<mode, stop, mainVars, run, runErr, cacheErr, serveVars>>

\* App.Run's select takes the first cache's error ...
RunReceives ==
  /\ run = "select" /\ errc # <<>>
  /\ runErr' = Head(errc)
  /\ errc' = Tail(errc)
  /\ run' = "judge"
  /\ UNCHANGED <<mode, stop, mainVars, cache, cacheErr, serveVars, failed, quit>>

\* Mutant of RunJudges: an error during shutdown counts as one.
RunJudgesAlways ==
  /\ run = "judge"
  /\ run' = "send"
  /\ UNCHANGED <<mode, stop, mainVars, cache, errc, runErr, cacheErr, serveVars,
                 failed, quit>>

\* ... and reports it unless the context is done by now.
RunJudges ==
  /\ run = "judge"
  /\ runErr' = IF runErr = "err" /\ ~Done THEN "err" ELSE "nil"
  /\ run' = "send"
  /\ UNCHANGED <<mode, stop, mainVars, cache, errc, cacheErr, serveVars, failed, quit>>

\* Or the select takes ctx.Done.
RunCancelled ==
  /\ run = "select" /\ Done
  /\ runErr' = "nil"
  /\ run' = "send"
  /\ UNCHANGED <<mode, stop, mainVars, cache, errc, cacheErr, serveVars, failed, quit>>

\* App.Run returns into cacheErr.
RunSends ==
  /\ run = "send" /\ Len(cacheErr) < 1
  /\ cacheErr' = Append(cacheErr, runErr)
  /\ run' = "done"
  /\ UNCHANGED <<mode, stop, mainVars, cache, errc, runErr, serveVars, failed, quit>>

-----------------------------------------------------------------------------
\* serve: net.Listen fails, or the closer is started and the server serves.
ListenFails ==
  /\ server = "listen"
  /\ server' = "send" /\ srvErr' = "err"
  /\ failed' = TRUE
  /\ UNCHANGED <<mode, stop, mainVars, cacheVars, serveErr, closer, quit>>

Listen ==
  /\ server = "listen"
  /\ server' = "serving"
  /\ closer' = "waiting"
  /\ UNCHANGED <<mode, stop, mainVars, cacheVars, srvErr, serveErr, failed, quit>>

\* Mutant of CloseServer: the closer waits for the signal only.
CloseServerOnSignal ==
  /\ closer = "waiting" /\ signalled
  /\ closer' = "closed"
  /\ UNCHANGED <<mode, stop, mainVars, cacheVars, server, srvErr, serveErr, failed, quit>>

\* Mutant of CloseServer: the closer waits for StartFull's cancel only.
CloseServerOnCancel ==
  /\ closer = "waiting" /\ cancelled
  /\ closer' = "closed"
  /\ UNCHANGED <<mode, stop, mainVars, cacheVars, server, srvErr, serveErr, failed, quit>>

\* The closer: once the context is done, srv.Close.
CloseServer ==
  /\ closer = "waiting" /\ Done
  /\ closer' = "closed"
  /\ UNCHANGED <<mode, stop, mainVars, cacheVars, server, srvErr, serveErr, failed, quit>>

\* srv.Serve returns: ErrServerClosed after Close, which is no error, or an
\* error of its own before.
ServeReturns ==
  /\ server = "serving"
  /\ \/ closer = "closed" /\ srvErr' = "nil" /\ UNCHANGED failed
     \/ closer # "closed" /\ srvErr' = "err" /\ failed' = TRUE
  /\ server' = "send"
  /\ UNCHANGED <<mode, stop, mainVars, cacheVars, serveErr, closer, quit>>

\* serve returns into serveErr.
ServeSends ==
  /\ server = "send" /\ mode = "full" /\ Len(serveErr) < 1
  /\ serveErr' = Append(serveErr, srvErr)
  /\ server' = "done"
  /\ UNCHANGED <<mode, stop, mainVars, cacheVars, srvErr, closer, failed, quit>>

-----------------------------------------------------------------------------
\* Mutant of CacheHalfDown: the server is not waited for.
CacheHalfDownNoJoin ==
  /\ main = "select" /\ cacheErr # <<>>
  /\ ret' = Head(cacheErr)
  /\ cacheErr' = Tail(cacheErr)
  /\ cancelled' = TRUE
  /\ main' = "close"
  /\ UNCHANGED <<mode, signalled, bootVars, cache, errc, run, runErr, serveVars, failed, quit>>

\* StartFull's select takes cacheErr: cancel, then wait for the server.
CacheHalfDown ==
  /\ main = "select" /\ cacheErr # <<>>
  /\ ret' = Head(cacheErr)
  /\ cacheErr' = Tail(cacheErr)
  /\ cancelled' = TRUE
  /\ main' = "join"
  /\ UNCHANGED <<mode, signalled, bootVars, cache, errc, run, runErr, serveVars, failed, quit>>

Join ==
  /\ main = "join" /\ serveErr # <<>>
  /\ serveErr' = Tail(serveErr)
  /\ main' = "close"
  /\ UNCHANGED <<mode, stop, ret, bootVars, cacheVars, server, srvErr, closer, failed,
                 quit>>

\* Or it takes serveErr: cancel, and return without waiting for the caches.
ServerHalfDown ==
  /\ main = "select" /\ serveErr # <<>>
  /\ ret' = Head(serveErr)
  /\ serveErr' = Tail(serveErr)
  /\ cancelled' = TRUE
  /\ main' = "close"
  /\ UNCHANGED <<mode, signalled, bootVars, cacheVars, server, srvErr, closer, failed, quit>>

\* runFull's deferred app.Close, then main returns.
Close ==
  /\ main = "close"
  /\ conn' = "closed"
  /\ Exit(ret)
  /\ UNCHANGED <<mode, stop, cfg, place, deps, cacheVars, serveVars, failed, quit>>

\* In read-only mode serve returns to main.
ReturnInline ==
  /\ main = "inline" /\ server = "send"
  /\ server' = "done"
  /\ Exit(srvErr)
  /\ UNCHANGED <<mode, stop, bootVars, cacheVars, srvErr, serveErr, closer, failed, quit>>

-----------------------------------------------------------------------------
Init ==
  /\ mode \in {"full", "readOnly"}
  /\ signalled = FALSE /\ cancelled = FALSE
  /\ main = "boot" /\ ret = "nil" /\ BootInit
  /\ cache = [c \in Caches |-> "off"]
  /\ errc = <<>> /\ cacheErr = <<>> /\ serveErr = <<>>
  /\ run = "off" /\ runErr = "nil"
  /\ server = "off" /\ srvErr = "nil" /\ closer = "off"
  /\ failed = FALSE /\ quit = FALSE

Main == \/ BootStep \/ StartFull \/ BootReadOnly \/ ConfigRefused \/ BuildFails \/ CardFails
        \/ FlagsRefused \/ CacheHalfDown \/ Join \/ ServerHalfDown \/ Close \/ ReturnInline
Run == StartCaches \/ RunReceives \/ RunJudges \/ RunCancelled \/ RunSends
CacheStep(c) == \E e \in Errors : CacheEnds(c, e)
Serve == ListenFails \/ Listen \/ ServeReturns \/ ServeSends
ServeOn == ListenFails \/ Listen \/ (closer = "closed" /\ ServeReturns) \/ ServeSends

\* The process is gone: nothing runs any more.
Gone == main = "exited" /\ UNCHANGED vars

Next ==
  \/ /\ main # "exited"
     /\ \/ Signal \/ Main \/ Run \/ Serve \/ CloseServer
        \/ \E c \in Caches : CacheStep(c)
  \/ Gone

Spec == Init /\ [][Next]_vars

\* Goroutines run on and net.Listen and srv.Serve after Close return.  No
\* signal, no failure and no end of a cache is promised, not even that a
\* cache honours the context.
Fairness ==
  /\ WF_vars(main # "exited" /\ Main)
  /\ WF_vars(main # "exited" /\ Run)
  /\ WF_vars(main # "exited" /\ ServeOn)
  /\ WF_vars(main # "exited" /\ CloseServer)

FairSpec == Spec /\ Fairness

-----------------------------------------------------------------------------
TypeOK ==
  /\ mode \in {"full", "readOnly"}
  /\ signalled \in BOOLEAN /\ cancelled \in BOOLEAN
  /\ main \in {"boot", "select", "join", "close", "inline", "exited"}
  /\ ret \in Errors /\ runErr \in Errors /\ srvErr \in Errors
  /\ BootTypeOK
  /\ cache \in [Caches -> {"off", "running", "ended"}]
  /\ errc \in Seq(Errors) /\ cacheErr \in Seq(Errors) /\ serveErr \in Seq(Errors)
  /\ run \in {"off", "start", "select", "judge", "send", "done"}
  /\ server \in {"off", "listen", "serving", "send", "done"}
  /\ closer \in {"off", "waiting", "closed"}
  /\ failed \in BOOLEAN /\ quit \in BOOLEAN

\* The exit status tells the truth: 1 only if some part failed of itself,
\* never because of the signal and what it makes the caches and the server
\* return; 0 only after a signal or after a cache that ended without an error
\* (main.go:46-49, server.go:86-98, wire.go:88-95).  Before there are goroutines
\* it is otherwise: a step of Build that fails because the signal cancelled its
\* context is a failure like any other, and main does not tell it apart.
ExitStatusIsTrue ==
  main = "exited" =>
    /\ ret = "err" => failed
    /\ ret = "nil" => signalled \/ quit

\* app.Close waits for the front door: by the time the gRPC connection is
\* closed, the HTTP server no longer accepts requests, whichever half went
\* down first (server.go:87-93, main.go:61).  srv.Close does not wait for
\* handlers in flight, and neither does this.
NoServingAfterClose == conn = "closed" => server # "serving"

\* The connection never outlives runFull: every way main can end, from a
\* configuration that is refused, through each step of Build that can fail,
\* to the end of StartFull, leaves it closed or never opened
\* (wire.go:149-358, main.go:61).
ConnectionClosedAtExit == main = "exited" => conn # "open"

\* What the operator configured is what is served: no family that the file
\* mentions, even by half of its fields, is silently left out of a running
\* agent (config.go:226-266 against the conditions of wire.go:158-374).  A
\* blank key file is not one: operator.Load takes it for no key.
ConfiguredIsServed ==
  mode = "full" /\ server = "serving" => deps = Configured(cfg)

\* A signal is always followed by the exit, even if no cache honours the
\* context (main.go:35-38).
SignalStopsAgent == signalled ~> main = "exited"

\* Either half failing takes the whole agent down (server.go:83-85): once a
\* cache or the server has failed, the process ends.
FailureStopsAgent == failed \/ quit ~> main = "exited"
=============================================================================
