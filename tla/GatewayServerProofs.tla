-------------------------- MODULE GatewayServerProofs --------------------------
(***************************************************************************)
(* Proofs about the gateway's process for any configuration files and any  *)
(* number of requests.                                                     *)
(***************************************************************************)
EXTENDS GatewayServer, TLAPS

\* What Load returns is a configuration the components were written for.
LEMMA LoadedIsSound ==
    ASSUME NEW file \in Config, NEW c \in Loads(file)
    PROVE  c \in Config /\ Sound(c)
<1>1. c = applyDefaults(file) /\ validate(c)
  BY DEF Loads
<1>2. c \in Config
  <2>1. \A x \in Config : [x EXCEPT !.port = Default(@, 8080)] \in Config
    BY DEF Config, Default
  <2>2. \A x \in Config : [x EXCEPT !.threshold = Default(@, 20)] \in Config
    BY DEF Config, Default
  <2>3. \A x \in Config : [x EXCEPT !.windowSize = Default(@, 10)] \in Config
    BY DEF Config, Default
  <2>4. \A x \in Config : [x EXCEPT !.earlyExitCount = Default(@, 10)] \in Config
    BY DEF Config, Default
  <2>5. \A x \in Config : [x EXCEPT !.topLogprobs = Default(@, 5)] \in Config
    BY DEF Config, Default
  <2>6. \A x \in Config : [x EXCEPT !.softMult = Default(@, 8)] \in Config
    BY DEF Config, Default
  <2>7. \A x \in Config : [x EXCEPT !.similarity = Default(@, 95)] \in Config
    BY DEF Config, Default
  <2>8. \A x \in Config : [x EXCEPT !.ttl = Default(@, 3600)] \in Config
    BY DEF Config, Default
  <2>9. \A x \in Config : [x EXCEPT !.dimensions = Default(@, 1536)] \in Config
    BY DEF Config, Default
  <2>10. \A x \in Config : [x EXCEPT !.metricsPath = IF @ = NoPath THEN "/metrics" ELSE @] \in Config
    <3> SUFFICES ASSUME NEW x \in Config
                 PROVE  [x EXCEPT !.metricsPath = IF @ = NoPath THEN "/metrics" ELSE @] \in Config
      OBVIOUS
    <3>1. (IF x.metricsPath = NoPath THEN "/metrics" ELSE x.metricsPath) \in MetricsPaths
      BY DEF Config, MetricsPaths
    <3>. QED
      BY <3>1 DEF Config
  <2>. DEFINE c1 == [file EXCEPT !.port = Default(@, 8080)]
              c2 == [c1 EXCEPT !.threshold = Default(@, 20)]
              c3 == [c2 EXCEPT !.windowSize = Default(@, 10)]
              c4 == [c3 EXCEPT !.earlyExitCount = Default(@, 10)]
              c5 == [c4 EXCEPT !.topLogprobs = Default(@, 5)]
              c6 == [c5 EXCEPT !.softMult = Default(@, 8)]
              c7 == [c6 EXCEPT !.similarity = Default(@, 95)]
              c8 == [c7 EXCEPT !.ttl = Default(@, 3600)]
              c9 == [c8 EXCEPT !.dimensions = Default(@, 1536)]
              c10 == [c9 EXCEPT !.metricsPath = IF @ = NoPath THEN "/metrics" ELSE @]
  <2>11. c = c10
    BY <1>1 DEF applyDefaults
  <2>12. c1 \in Config
    BY <2>1
  <2>. HIDE DEF c1
  <2>13. c2 \in Config
    BY <2>2, <2>12
  <2>. HIDE DEF c2
  <2>14. c3 \in Config
    BY <2>3, <2>13
  <2>. HIDE DEF c3
  <2>15. c4 \in Config
    BY <2>4, <2>14
  <2>. HIDE DEF c4
  <2>16. c5 \in Config
    BY <2>5, <2>15
  <2>. HIDE DEF c5
  <2>17. c6 \in Config
    BY <2>6, <2>16
  <2>. HIDE DEF c6
  <2>18. c7 \in Config
    BY <2>7, <2>17
  <2>. HIDE DEF c7
  <2>19. c8 \in Config
    BY <2>8, <2>18
  <2>. HIDE DEF c8
  <2>20. c9 \in Config
    BY <2>9, <2>19
  <2>. HIDE DEF c9
  <2>21. c10 \in Config
    BY <2>10, <2>20
  <2>. QED
    BY <2>11, <2>21
<1>3. /\ c.port \in Int /\ c.threshold \in Int /\ c.windowSize \in Int
      /\ c.topLogprobs \in Int /\ c.softMult \in Int
  BY <1>2 DEF Config
<1>bounds. /\ c.port >= 1 /\ c.threshold > 0 /\ c.windowSize >= 1
      /\ c.topLogprobs \in 1 .. 20 /\ c.softMult > 0 /\ c.softMult < 10
  BY <1>1 DEF validate
<1>4. c.softMult \in Int /\ c.threshold \in Int /\ 0 < c.softMult /\ c.softMult < 10 /\ c.threshold > 0
  BY <1>bounds, <1>3
<1>5. \A m \in 1 .. 9, t \in Int : t > 0 => 0 < m * t /\ m * t < 10 * t
  <2> SUFFICES ASSUME NEW m \in 1 .. 9, NEW t \in Int, t > 0
               PROVE  0 < m * t /\ m * t < 10 * t
    OBVIOUS
  <2>1. m = 1 \/ m = 2 \/ m = 3 \/ m = 4 \/ m = 5 \/ m = 6 \/ m = 7 \/ m = 8 \/ m = 9
    OBVIOUS
  <2>. QED
    BY <2>1
<1>6. c.softMult \in 1 .. 9
  BY <1>4
<1>7. 0 < c.softMult * c.threshold /\ c.softMult * c.threshold < 10 * c.threshold
  BY <1>4, <1>5, <1>6
<1>8. c.topLogprobs >= 1 /\ c.port > 0 /\ c.windowSize >= 1
  BY <1>bounds, <1>3
<1>9. CacheIsEnabled(c) => c.similarity \in 1 .. 100 /\ c.ttl > 0 /\ c.dimensions > 0
  BY <1>1 DEF validate
<1>10. Sound(c)
  BY <1>4, <1>7, <1>8, <1>9 DEF Sound
<1>. QED
  BY <1>2, <1>10

LEMMA InitInv == Init => IInv
<1> SUFFICES ASSUME Init PROVE IInv
  OBVIOUS
<1>1. TypeOK
  BY ConfigAssumption DEF Init, TypeOK, NewRequest, RequestState, Statuses
<1>2. StartInv /\ ExitInv
  BY DEF Init, StartInv, ExitInv, CutOnlyForCause, Running, NewRequest, Booting
<1>3. \A r \in Requests : WritersAgree(req[r])
  BY DEF Init, WritersAgree, NewRequest
<1>. QED
  BY <1>1, <1>2, <1>3 DEF IInv

-----------------------------------------------------------------------------
\* The process ends for a reason that explains the requests it cuts.
LEMMA ExitKeeps ==
    ASSUME IInv, NEW code \in Codes, Exit(code), Running,
           \A r \in Requests : InFlight(r) =>
              \/ code = "killed" /\ ~notified
              \/ code = "fatal" /\ (errCh \/ expired)
    PROVE  IInv'
<1>. DEFINE after(r) == IF InFlight(r) THEN [req[r] EXCEPT !.pc = "cut"] ELSE req[r]
<1>0. /\ req' = [r \in Requests |-> after(r)] /\ main' = "exited" /\ exit' = code
      /\ UNCHANGED <<cfg, listener, errCh, notified, quit, expired>>
  BY DEF Exit
<1>1. ASSUME NEW r \in Requests
      PROVE  /\ after(r) \in RequestState /\ WritersAgree(after(r))
             /\ after(r).pc = "none" <=> req[r].pc = "none"
             /\ after(r).pc = "cut" => InFlight(r) \/ req[r].pc = "cut"
  BY DEF IInv, TypeOK, InFlight, RequestState, WritersAgree
<1>. HIDE DEF after
<1>2. \A r \in Requests : req'[r] = after(r)
  BY <1>0
<1>3. \A r \in Requests : req[r].pc # "cut"
  BY NoneAssumption DEF IInv, ExitInv, CutOnlyForCause, Running, Codes
<1>4. TypeOK'
  BY <1>0, <1>1 DEF IInv, TypeOK
<1>5. StartInv'
  BY <1>0, <1>1, <1>2 DEF IInv, StartInv, Booting
<1>6. ExitInv'
  BY <1>0, <1>1, <1>2, <1>3, NoneAssumption DEF IInv, ExitInv, CutOnlyForCause, Running, Codes, Booting
<1>7. \A r \in Requests : WritersAgree(req'[r])
  BY <1>1, <1>2
<1>. QED
  BY <1>4, <1>5, <1>6, <1>7 DEF IInv

\* A step that leaves the requests and the exit alone.
LEMMA QuietStep ==
    ASSUME IInv, UNCHANGED <<req, exit>>, TypeOK', StartInv',
           main' = "exited" <=> main = "exited",
           main' \in {"select", "shutdown", "draining"} => notified',
           main' \in Booting \cup {"notify"} => ~notified',
           errCh => errCh', expired => expired', notified' = notified \/ Running
    PROVE  IInv'
<1>1. ExitInv'
  BY NoneAssumption DEF IInv, ExitInv, CutOnlyForCause, Running, Codes
<1>. QED
  BY <1>1 DEF IInv

\* A request goes on: what its two writers hold agrees, and it is not cut.
LEMMA BecomeKeeps ==
    ASSUME IInv, NEW r \in Requests, NEW t \in RequestState, Become(r, t), WritersAgree(t),
           t.pc # "cut", listener # "none"
    PROVE  IInv'
<1>1. /\ req'[r] = t /\ \A q \in Requests \ {r} : req'[q] = req[q]
      /\ req' \in [Requests -> RequestState]
      /\ UNCHANGED <<cfg, main, exit, listener, errCh, notified, quit, expired>>
  BY DEF IInv, TypeOK, Become
<1>2. TypeOK' /\ StartInv'
  BY <1>1 DEF IInv, TypeOK, StartInv
<1>3. ExitInv'
  BY <1>1 DEF IInv, ExitInv, CutOnlyForCause, Running
<1>4. \A q \in Requests : WritersAgree(req'[q])
  BY <1>1 DEF IInv
<1>. QED
  BY <1>2, <1>3, <1>4 DEF IInv

LEMMA NextMain == IInv /\ Main => IInv'
<1> SUFFICES ASSUME IInv, Main PROVE IInv'
  OBVIOUS
<1>0. /\ TypeOK /\ StartInv /\ (main = "exited" <=> ~Running)
      /\ main \in Booting => \A r \in Requests : ~InFlight(r)
      /\ main \in Booting \cup {"notify"} => ~notified
  BY DEF IInv, ExitInv, StartInv, InFlight
<1>. USE DEF MainGoes, startUnchanged, Booting
<1>1. CASE RefuseConfig
  BY <1>0, <1>1, ExitKeeps DEF RefuseConfig, Codes
<1>2. CASE LoadConfig
  <2>1. cfg' \in Config /\ Sound(cfg')
    BY <1>0, <1>2, LoadedIsSound DEF LoadConfig, TypeOK
  <2>2. TypeOK' /\ StartInv'
    BY <1>0, <1>2, <2>1 DEF LoadConfig, TypeOK, StartInv
  <2>. QED
    BY <1>0, <1>2, <2>2, QuietStep DEF LoadConfig
<1>3. CASE EnsureCollection
  <2>1. CASE Exit("fatal")
    BY <1>0, <1>3, <2>1, ExitKeeps DEF EnsureCollection, Codes
  <2>2. CASE MainGoes("collection", IF CacheIsEnabled(cfg) THEN "redis" ELSE "build")
             /\ UNCHANGED <<startUnchanged, exit, req>>
    <3>1. TypeOK' /\ StartInv'
      BY <1>0, <2>2 DEF TypeOK, StartInv
    <3>. QED
      BY <1>0, <2>2, <3>1, QuietStep
  <2>. QED
    BY <1>3, <2>1, <2>2 DEF EnsureCollection
<1>4. CASE ConnectRedis
  <2>1. CASE Exit("fatal")
    BY <1>0, <1>4, <2>1, ExitKeeps DEF ConnectRedis, Codes
  <2>2. CASE MainGoes("redis", "build") /\ UNCHANGED <<startUnchanged, exit, req>>
    <3>1. TypeOK' /\ StartInv'
      BY <1>0, <2>2 DEF TypeOK, StartInv
    <3>. QED
      BY <1>0, <2>2, <3>1, QuietStep
  <2>. QED
    BY <1>4, <2>1, <2>2 DEF ConnectRedis
<1>5. CASE NewServer
  <2>1. CASE Exit("panic")
    BY <1>0, <1>5, <2>1, ExitKeeps DEF NewServer, Codes
  <2>2. CASE /\ RoutesRegister(cfg) /\ MainGoes("build", "start")
             /\ UNCHANGED <<startUnchanged, exit, req>>
    <3>1. TypeOK' /\ StartInv'
      BY <1>0, <2>2 DEF TypeOK, StartInv
    <3>. QED
      BY <1>0, <2>2, <3>1, QuietStep
  <2>. QED
    BY <1>5, <2>1, <2>2 DEF NewServer
<1>6. CASE StartServer
  <2>1. TypeOK' /\ StartInv'
    BY <1>0, <1>6 DEF StartServer, TypeOK, StartInv
  <2>2. ~notified
    BY <1>6 DEF StartServer, IInv, ExitInv
  <2>. QED
    BY <1>6, <2>1, <2>2, QuietStep DEF StartServer
<1>7. CASE Notify
  <2>1. TypeOK' /\ StartInv'
    BY <1>0, <1>7 DEF Notify, TypeOK, StartInv
  <2>2. Running
    BY <1>0, <1>7 DEF Notify
  <2>. QED
    BY <1>7, <2>1, <2>2, QuietStep DEF Notify
<1>8. CASE SelectSignal
  <2>1. TypeOK' /\ StartInv'
    BY <1>0, <1>8 DEF SelectSignal, TypeOK, StartInv
  <2>. QED
    BY <1>8, <2>1, QuietStep DEF SelectSignal, IInv, ExitInv
<1>9. CASE SelectError
  BY <1>0, <1>9, ExitKeeps DEF SelectError, Codes
<1>10. CASE Shutdown
  <2>1. TypeOK' /\ StartInv'
    <3>1. listener # "none" \/ \A r \in Requests : req[r].pc = "none"
      BY <1>0 DEF StartInv
    <3>. QED
      BY <1>0, <1>10, <3>1 DEF Shutdown, TypeOK, StartInv
  <2>. QED
    BY <1>10, <2>1, QuietStep DEF Shutdown, IInv, ExitInv
<1>11. CASE Drained
  BY <1>0, <1>11, ExitKeeps DEF Drained, Codes
<1>12. CASE ShutdownExpires
  BY <1>0, <1>12, ExitKeeps DEF ShutdownExpires, Codes
<1>. QED
  BY <1>1, <1>2, <1>3, <1>4, <1>5, <1>6, <1>7, <1>8, <1>9, <1>10, <1>11, <1>12 DEF Main

LEMMA NextRest ==
    ASSUME IInv, Listen \/ ListenerBreaks \/ Signal \/ DeadlinePasses
    PROVE  IInv'
<1>0. TypeOK /\ StartInv /\ ExitInv
  BY DEF IInv
<1>1. CASE Listen \/ ListenerBreaks
  <2>1. TypeOK' /\ StartInv'
    BY <1>0, <1>1 DEF Listen, ListenerBreaks, TypeOK, StartInv
  <2>. QED
    BY <1>0, <1>1, <2>1, QuietStep DEF Listen, ListenerBreaks, ExitInv
<1>2. CASE Signal
  <2>1. CASE notified
    <3>1. TypeOK' /\ StartInv'
      BY <1>0, <1>2, <2>1 DEF Signal, TypeOK, StartInv
    <3>. QED
      BY <1>0, <1>2, <2>1, <3>1, QuietStep DEF Signal, ExitInv
  <2>2. CASE ~notified
    BY <1>2, <2>2, ExitKeeps DEF Signal, Codes
  <2>. QED
    BY <2>1, <2>2
<1>3. CASE DeadlinePasses
  <2>1. TypeOK' /\ StartInv'
    BY <1>0, <1>3 DEF DeadlinePasses, TypeOK, StartInv
  <2>. QED
    BY <1>0, <1>3, <2>1, QuietStep DEF DeadlinePasses, ExitInv
<1>. QED
  BY <1>1, <1>2, <1>3

\* The fields of a request's record that a panic writes, one at a time.
LEMMA PanicFields ==
    ASSUME NEW s \in RequestState
    PROVE  /\ [s EXCEPT !.pc = "recovered"] \in RequestState
           /\ [s EXCEPT !.extra = TRUE] \in RequestState
           /\ [s EXCEPT !.extra = FALSE] \in RequestState
           /\ [s EXCEPT !.sent = 500] \in RequestState
<1>1. [s EXCEPT !.pc = "recovered"] \in RequestState
  BY DEF RequestState
<1>2. [s EXCEPT !.extra = TRUE] \in RequestState
  BY DEF RequestState
<1>3. [s EXCEPT !.extra = FALSE] \in RequestState
  BY DEF RequestState
<1>4. 500 \in Statuses \cup {None}
  BY DEF Statuses
<1>5. [s EXCEPT !.sent = 500] \in RequestState
  BY <1>4 DEF RequestState
<1>. QED
  BY <1>1, <1>2, <1>3, <1>5

LEMMA NextRequest ==
    ASSUME IInv, NEW r \in Requests, Enter(r) \/ BeginReply(r) \/ Return(r) \/ Panic(r)
    PROVE  IInv'
<1>. DEFINE s == req[r]
<1>0. s \in RequestState /\ WritersAgree(s) /\ (listener = "none" => s.pc = "none")
  BY DEF IInv, TypeOK, StartInv
<1>1. CASE Enter(r)
  <2>. DEFINE t == [s EXCEPT !.pc = "handler"]
  <2>1. t \in RequestState /\ WritersAgree(t) /\ t.pc # "cut"
    BY <1>0, <1>1 DEF Enter, RequestState, WritersAgree
  <2>. QED
    BY <1>1, <2>1, BecomeKeeps DEF Enter
<1>2. CASE BeginReply(r)
  <2>1. s.pc = "handler" /\ ~s.written /\ s.statusCode = 200 /\ s.sent = None /\ s.logged = None /\ ~s.extra
    BY <1>0, <1>2 DEF BeginReply, WritersAgree
  <2>2. PICK u \in {WriteHeader(s, status) : status \in Statuses} \cup {Write(s)} :
           Become(r, [u EXCEPT !.pc = "replying"])
    BY <1>2 DEF BeginReply
  <2>3. ASSUME NEW status \in Statuses, u = WriteHeader(s, status) PROVE IInv'
    <3>. DEFINE t == [s EXCEPT !.pc = "replying", !.statusCode = status, !.written = TRUE,
                               !.sent = status]
    <3>1. [u EXCEPT !.pc = "replying"] = t
      BY <1>0, <2>1, <2>3 DEF WriteHeader, RequestState
    <3>2. t \in RequestState /\ WritersAgree(t) /\ t.pc # "cut"
      BY <1>0, <2>1 DEF RequestState, WritersAgree
    <3>. QED
      BY <1>0, <2>1, <2>2, <3>1, <3>2, BecomeKeeps
  <2>4. CASE u = Write(s)
    <3>. DEFINE t == [s EXCEPT !.pc = "replying", !.written = TRUE, !.sent = 200]
    <3>1. [u EXCEPT !.pc = "replying"] = t
      BY <1>0, <2>1, <2>4 DEF Write, RequestState
    <3>2. t \in RequestState /\ WritersAgree(t) /\ t.pc # "cut"
      <4>1. 200 \in Statuses
        BY DEF Statuses
      <4>2. t \in RequestState
        BY <1>0, <4>1 DEF RequestState
      <4>3. t.pc = "replying" /\ t.written = TRUE /\ t.sent = 200
            /\ t.statusCode = s.statusCode /\ t.logged = s.logged /\ t.extra = s.extra
        BY <1>0 DEF RequestState
      <4>. HIDE DEF t
      <4>. QED
        BY <2>1, <4>2, <4>3 DEF WritersAgree
    <3>. QED
      BY <1>0, <2>1, <2>2, <3>1, <3>2, BecomeKeeps
  <2>. QED
    BY <2>2, <2>3, <2>4
<1>3. CASE Return(r)
  <2>. DEFINE t == [s EXCEPT !.pc = "returned", !.logged = s.statusCode]
  <2>1. t \in RequestState /\ WritersAgree(t) /\ t.pc # "cut"
    BY <1>0, <1>3 DEF Return, RequestState, WritersAgree
  <2>. QED
    BY <1>0, <1>3, <2>1, BecomeKeeps DEF Return
<1>4. CASE Panic(r)
  <2>. DEFINE t == [s EXCEPT !.pc = "recovered", !.extra = s.sent # None,
                             !.sent = IF s.sent = None THEN 500 ELSE s.sent]
  <2>1. t \in RequestState /\ WritersAgree(t) /\ t.pc # "cut"
    <3>1. s.written \in BOOLEAN /\ s.logged = None /\ s.statusCode \in Statuses
      BY <1>0, <1>4 DEF Panic, InFlight, RequestState, WritersAgree
    <3>2. CASE s.pc = "handler"
      <4>1. s.sent = None /\ s.written = FALSE
        BY <1>0, <3>1, <3>2 DEF WritersAgree
      <4>. QED
        <5>. DEFINE a == [s EXCEPT !.pc = "recovered"]
                    b == [a EXCEPT !.extra = FALSE]
        <5>1. a \in RequestState
          BY <1>0, PanicFields
        <5>2. t = [s EXCEPT !.pc = "recovered", !.extra = FALSE, !.sent = 500]
          BY <4>1
        <5>. HIDE DEF t
        <5>3. t \in RequestState
          <6>1. t = [b EXCEPT !.sent = 500]
            BY <5>2
          <6>. HIDE DEF a
          <6>2. b \in RequestState
            BY <5>1, PanicFields
          <6>. HIDE DEF b
          <6>. QED
            BY <6>1, <6>2, PanicFields
        <5>4. t.pc = "recovered" /\ t.extra = FALSE /\ t.sent = 500
              /\ t.logged = s.logged /\ t.written = s.written
          BY <1>0, <5>2 DEF RequestState
        <5>. QED
          BY <3>1, <4>1, <5>3, <5>4 DEF WritersAgree
    <3>3. CASE s.pc = "replying"
      <4>1. s.sent \in Statuses /\ s.sent # None /\ s.written = TRUE
        BY <1>0, <3>1, <3>3, NoneAssumption DEF WritersAgree
      <4>. DEFINE a == [s EXCEPT !.pc = "recovered"]
      <4>2. t = [s EXCEPT !.pc = "recovered", !.extra = TRUE]
        BY <1>0, <4>1 DEF RequestState
      <4>. HIDE DEF t
      <4>3. t \in RequestState
        <5>1. a \in RequestState
          BY <1>0, PanicFields
        <5>2. t = [a EXCEPT !.extra = TRUE]
          BY <4>2
        <5>. HIDE DEF a
        <5>. QED
          BY <5>1, <5>2, PanicFields
      <4>4. /\ t.pc = "recovered" /\ t.extra = TRUE /\ t.sent = s.sent
            /\ t.logged = s.logged /\ t.written = s.written
        BY <1>0, <4>2 DEF RequestState
      <4>. QED
        BY <3>1, <4>1, <4>3, <4>4 DEF WritersAgree
    <3>. QED
      BY <1>4, <3>2, <3>3 DEF Panic, InFlight
  <2>. QED
    BY <1>0, <1>4, <2>1, BecomeKeeps DEF Panic, InFlight
<1>. QED
  BY <1>1, <1>2, <1>3, <1>4

LEMMA NextInv == IInv /\ [Next]_vars => IInv'
<1>1. IInv /\ UNCHANGED vars => IInv'
  BY DEF vars, IInv, TypeOK, StartInv, ExitInv, CutOnlyForCause, Running
<1>. QED
  BY <1>1, NextMain, NextRest, NextRequest DEF Next

\* What holds of main, the listener and each request's writers in any
\* interleaving of signals, failures, panics and the shutdown.
THEOREM Inductive == Spec => []IInv
BY InitInv, NextInv, PTL DEF Spec

\* Whatever a configuration file omits or sets, Load, validate and NewServer
\* let the gateway listen only with a configuration its components were
\* written for.
THEOREM ListensSound == Spec => []ListensWithSoundConfig
<1>1. IInv => ListensWithSoundConfig
  BY DEF IInv, StartInv, ListensWithSoundConfig
<1>. QED
  BY <1>1, Inductive, PTL

\* The process cuts a request only when it is killed before signal.Notify, when
\* the listener failed, or when the ten seconds of the shutdown are over.
THEOREM CutForCause == Spec => []CutOnlyForCause
<1>1. IInv => CutOnlyForCause
  BY DEF IInv, ExitInv
<1>. QED
  BY <1>1, Inductive, PTL

\* loggingMiddleware logs the status on the wire, and recoveryMiddleware's 500
\* reaches the client unless the reply had begun.
THEOREM LogIsTrue == Spec => []LogTellsWhatWasSent
<1>1. IInv => LogTellsWhatWasSent
  BY DEF IInv, WritersAgree, LogTellsWhatWasSent
<1>. QED
  BY <1>1, Inductive, PTL

=============================================================================
