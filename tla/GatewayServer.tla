----------------------------- MODULE GatewayServer -----------------------------
(***************************************************************************)
(* The gateway's process: cmd/gateway/main.go from the configuration file  *)
(* to the exit, the server's goroutine (internal/gateway/server.go) and    *)
(* the middleware around each request (internal/gateway/middleware.go).    *)
(*                                                                         *)
(* main, the listening goroutine, the request goroutines, the signals and  *)
(* the timer of the shutdown interleave.  net/http is modelled by what the *)
(* code relies on: Shutdown closes the listener, makes ListenAndServe      *)
(* return ErrServerClosed, and waits for the requests in flight.  What a   *)
(* handler does is reduced to the reply it begins, and to whether it panics *)
(* or returns; nothing bounds the time it takes.                           *)
(***************************************************************************)
EXTENDS GatewayConfig

CONSTANTS Requests, None

Statuses == {200, 204, 400, 500}   \* what a handler begins its reply with
Codes == {"ok", "fatal", "panic", "killed"}

ASSUME NoneAssumption == None \notin Statuses /\ None \notin Codes

VARIABLES
    cfg,       \* the configuration file, then what Load made of it
    main,      \* where main() is
    exit,      \* how the process ended
    listener,  \* the goroutine that runs ListenAndServe
    errCh,     \* an error that Start returned and main has not read
    notified,  \* signal.Notify was called
    quit,      \* the channel of signals holds one
    expired,   \* the ten seconds of the shutdown are over
    req        \* each request

vars == <<cfg, main, exit, listener, errCh, notified, quit, expired, req>>

(***************************************************************************)
(* A request's own responseWriter, the one the logging middleware reads    *)
(* (written, statusCode), and the writer of net/http beneath it (sent: the *)
(* status on the wire).  extra: the JSON body of recoveryMiddleware was    *)
(* appended to a reply that had begun.  logged: the status in the log line.*)
(***************************************************************************)
NewRequest == [pc |-> "none", written |-> FALSE, statusCode |-> 200, sent |-> None,
               extra |-> FALSE, logged |-> None]

Init ==
    /\ cfg \in ConfigFiles
    /\ main = "load" /\ exit = None /\ listener = "none" /\ errCh = FALSE
    /\ notified = FALSE /\ quit = FALSE /\ expired = FALSE
    /\ req = [r \in Requests |-> NewRequest]

Running == exit = None
InFlight(r) == req[r].pc \in {"handler", "replying"}

\* The process ends: nobody answers the requests in flight any more.
Exit(code) ==
    /\ exit' = code
    /\ main' = "exited"
    /\ req' = [r \in Requests |-> IF InFlight(r) THEN [req[r] EXCEPT !.pc = "cut"] ELSE req[r]]
    /\ UNCHANGED <<cfg, listener, errCh, notified, quit, expired>>

MainGoes(from, to) == main = from /\ main' = to
-----------------------------------------------------------------------------
\* config.Load fails, or OPENAI_API_KEY is not set.
RefuseConfig == main = "load" /\ Exit("fatal")

LoadConfig ==
    /\ MainGoes("load", "collection")
    /\ cfg' \in Loads(cfg)
    /\ UNCHANGED <<exit, listener, errCh, notified, quit, expired, req>>

startUnchanged == <<cfg, listener, errCh, notified, quit, expired>>

\* cache.New, if the cache is wanted: the collection is created, or is there
\* already; then Redis must answer.  Neither is tried again.
EnsureCollection ==
    \/ /\ MainGoes("collection", IF CacheIsEnabled(cfg) THEN "redis" ELSE "build")
       /\ UNCHANGED <<startUnchanged, exit, req>>
    \/ main = "collection" /\ CacheIsEnabled(cfg) /\ Exit("fatal")

ConnectRedis ==
    \/ MainGoes("redis", "build") /\ UNCHANGED <<startUnchanged, exit, req>>
    \/ main = "redis" /\ Exit("fatal")

\* NewServer: the mux panics when a route can not be registered.
NewServer ==
    \/ /\ RoutesRegister(cfg) /\ MainGoes("build", "start")
       /\ UNCHANGED <<startUnchanged, exit, req>>
    \/ main = "build" /\ ~RoutesRegister(cfg) /\ Exit("panic")

StartServer ==
    /\ MainGoes("start", "notify")
    /\ listener' = "starting"
    /\ UNCHANGED <<cfg, exit, errCh, notified, quit, expired, req>>

Notify ==
    /\ MainGoes("notify", "select")
    /\ notified' = TRUE
    /\ UNCHANGED <<cfg, exit, listener, errCh, quit, expired, req>>

SelectSignal ==
    /\ MainGoes("select", "shutdown")
    /\ quit /\ quit' = FALSE
    /\ UNCHANGED <<cfg, exit, listener, errCh, notified, expired, req>>

\* log.Fatalf: no Shutdown, and no wait for the requests in flight.
SelectError == main = "select" /\ errCh /\ Exit("fatal")

\* srv.Shutdown closes the listener, also one that has not begun to listen.
Shutdown ==
    /\ MainGoes("shutdown", "draining")
    /\ listener' = "closed"
    /\ UNCHANGED <<cfg, exit, errCh, notified, quit, expired, req>>

\* Mutant of Drained: Close, which does not wait, instead of Shutdown.
CloseAtOnce == main = "draining" /\ Exit("ok")

Drained == main = "draining" /\ (\A r \in Requests : ~InFlight(r)) /\ Exit("ok")

\* Mutant of ShutdownExpires: the deadline is not watched.
ShutdownWaits ==
    main = "draining" /\ expired /\ (\A r \in Requests : ~InFlight(r)) /\ Exit("fatal")

ShutdownExpires == main = "draining" /\ expired /\ Exit("fatal")

-----------------------------------------------------------------------------
Listen ==
    /\ Running /\ listener = "starting"
    /\ \/ listener' = "open" /\ UNCHANGED errCh
       \/ listener' = "broken" /\ errCh' = TRUE    \* the port is taken
    /\ UNCHANGED <<cfg, main, exit, notified, quit, expired, req>>

\* Accept fails for good: Start returns an error while requests are served.
ListenerBreaks ==
    /\ Running /\ listener = "open"
    /\ listener' = "broken" /\ errCh' = TRUE
    /\ UNCHANGED <<cfg, main, exit, notified, quit, expired, req>>

\* SIGINT or SIGTERM: it kills a process that has not called Notify, and is
\* dropped when the channel holds one.
Signal ==
    /\ Running
    /\ IF notified
       THEN quit' = TRUE /\ UNCHANGED <<cfg, main, exit, listener, errCh, notified, expired, req>>
       ELSE Exit("killed")

DeadlinePasses ==
    /\ main = "draining" /\ ~expired
    /\ expired' = TRUE
    /\ UNCHANGED <<cfg, main, exit, listener, errCh, notified, quit, req>>

-----------------------------------------------------------------------------
Become(r, state) ==
    /\ req' = [req EXCEPT ![r] = state]
    /\ UNCHANGED <<cfg, main, exit, listener, errCh, notified, quit, expired>>

\* recoveryMiddleware, loggingMiddleware and requestIDMiddleware are entered.
Enter(r) ==
    /\ Running /\ listener = "open" /\ req[r].pc = "none"
    /\ Become(r, [req[r] EXCEPT !.pc = "handler"])

\* responseWriter.WriteHeader: the first status is kept and passed on.
WriteHeader(state, status) ==
    IF state.written THEN state
    ELSE [state EXCEPT !.statusCode = status, !.written = TRUE,
                       !.sent = IF @ = None THEN status ELSE @]

\* Mutant of Write: the status that Write implies is not the one remembered.
WriteUnremembered(state) ==
    [state EXCEPT !.written = TRUE, !.statusCode = 0, !.sent = IF @ = None THEN 200 ELSE @]

\* responseWriter.Write: the status 200 is implied if there is none.
Write(state) == [state EXCEPT !.written = TRUE, !.sent = IF @ = None THEN 200 ELSE @]

\* The handler begins its reply, by WriteHeader or at once by Write.
BeginReply(r) ==
    /\ Running /\ req[r].pc = "handler"
    /\ \E s \in {WriteHeader(req[r], status) : status \in Statuses} \cup {Write(req[r])} :
          Become(r, [s EXCEPT !.pc = "replying"])

\* The handler returns, and loggingMiddleware logs what its writer holds.
Return(r) ==
    /\ Running /\ req[r].pc = "replying"
    /\ Become(r, [req[r] EXCEPT !.pc = "returned", !.logged = req[r].statusCode])

\* The handler panics: recoveryMiddleware, outside the logging, writes an
\* error to the writer of net/http, which keeps a status it has sent.
Panic(r) ==
    /\ Running /\ InFlight(r)
    /\ Become(r, [req[r] EXCEPT !.pc = "recovered", !.extra = req[r].sent # None,
                                !.sent = IF @ = None THEN 500 ELSE @])

-----------------------------------------------------------------------------
Main ==
    \/ RefuseConfig \/ LoadConfig \/ EnsureCollection \/ ConnectRedis \/ NewServer
    \/ StartServer \/ Notify
    \/ SelectSignal \/ SelectError \/ Shutdown \/ Drained \/ ShutdownExpires

Next ==
    \/ Main \/ Listen \/ ListenerBreaks \/ Signal \/ DeadlinePasses
    \/ \E r \in Requests : Enter(r) \/ BeginReply(r) \/ Return(r) \/ Panic(r)

\* main and the timer go on; a handler may take for ever.
Spec == Init /\ [][Next]_vars /\ WF_vars(Main) /\ WF_vars(DeadlinePasses)

-----------------------------------------------------------------------------
RequestState ==
    [pc : {"none", "handler", "replying", "returned", "recovered", "cut"},
     written : BOOLEAN, statusCode : Statuses, sent : Statuses \cup {None},
     extra : BOOLEAN, logged : Statuses \cup {None}]

TypeOK ==
    /\ cfg \in Config
    /\ main \in {"load", "collection", "redis", "build", "start", "notify", "select",
                "shutdown", "draining", "exited"}
    /\ exit \in Codes \cup {None}
    /\ listener \in {"none", "starting", "open", "broken", "closed"}
    /\ errCh \in BOOLEAN /\ notified \in BOOLEAN /\ quit \in BOOLEAN /\ expired \in BOOLEAN
    /\ req \in [Requests -> RequestState]

\* What the other components take for granted of the configuration they are
\* built with: the window's size and threshold (EntropyWindow), a soft
\* threshold below the hard one (SpeculativeExecutor), a similarity that no
\* pair of prompts is too far from, and entries that live (SemanticCache).
Sound(c) ==
    /\ c.windowSize >= 1 /\ c.threshold > 0
    /\ 0 < c.softMult * c.threshold /\ c.softMult * c.threshold < 10 * c.threshold
    /\ c.topLogprobs >= 1 /\ c.port > 0
    /\ CacheIsEnabled(c) => c.similarity \in 1 .. 100 /\ c.ttl > 0 /\ c.dimensions > 0

\* No file, whatever it omits or sets to zero, makes the gateway listen with a
\* configuration that its components were not written for.
ListensWithSoundConfig ==
    listener \in {"starting", "open", "broken"} => Sound(cfg) /\ RoutesRegister(cfg)

\* A request in flight is cut only by a signal before main could be notified
\* of it, by an error of the listener, or by the end of the grace period: a
\* process that reports success has answered all that it accepted.
CutOnlyForCause ==
    \A r \in Requests :
       req[r].pc = "cut" =>
          \/ exit = "killed" /\ ~notified
          \/ exit = "fatal" /\ (errCh \/ expired)

\* A log line tells the status the client was sent.  A handler that panicked
\* has none; its client gets a 500 unless the reply had begun, and then the
\* error's body after the part that was written.
LogTellsWhatWasSent ==
    /\ TypeOK
    /\ \A r \in Requests :
          /\ req[r].pc = "returned" => req[r].logged = req[r].sent /\ ~req[r].extra
          /\ req[r].pc = "recovered" =>
                /\ req[r].logged = None
                /\ req[r].extra \/ req[r].sent = 500
                /\ req[r].extra = req[r].written

\* Once main is notified, a signal ends the process, even if a handler never
\* returns and whatever the listener does meanwhile.
SignalEnds == quit ~> ~Running

-----------------------------------------------------------------------------
(***************************************************************************)
(* The inductive invariant behind the safety properties.                   *)
(***************************************************************************)
\* Nobody listens until main has passed the checks that lead to the start.
Booting == {"load", "collection", "redis", "build", "start"}

StartInv ==
    /\ main \in Booting => listener = "none"
    /\ main \in {"notify", "select", "shutdown", "draining"} => listener # "none"
    /\ main \in Booting \ {"load"} \/ listener # "none" => Sound(cfg)
    /\ main = "start" \/ listener # "none" => RoutesRegister(cfg)
    /\ listener = "none" => \A r \in Requests : req[r].pc = "none"

ExitInv ==
    /\ main = "exited" <=> ~Running
    /\ main \in {"select", "shutdown", "draining"} => notified
    /\ main \in Booting \cup {"notify"} => ~notified
    /\ CutOnlyForCause

\* What a request's two writers hold at each place.
WritersAgree(s) ==
    /\ s.pc \in {"none", "handler"} => ~s.written /\ s.statusCode = 200 /\ s.sent = None
    /\ s.pc = "replying" => s.written /\ s.sent = s.statusCode
    /\ s.pc \in {"none", "handler", "replying"} => s.logged = None /\ ~s.extra
    /\ s.pc = "returned" => s.logged = s.sent /\ ~s.extra
    /\ s.pc = "recovered" =>
          s.logged = None /\ (s.extra \/ s.sent = 500) /\ s.extra = s.written

IInv == TypeOK /\ StartInv /\ ExitInv /\ \A r \in Requests : WritersAgree(req[r])

=============================================================================
