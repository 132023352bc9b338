------------------------------ MODULE ChatHandler ------------------------------
(***************************************************************************)
(* internal/gateway/handler.go: the life of POST /v1/chat/completions      *)
(* requests that share the semantic cache.  All the requests ask the same  *)
(* question of the same model, so that each may be answered with what      *)
(* another one cached.                                                     *)
(* Routing (Router or SpeculativeExecutor) is one step with the outcomes   *)
(* of RoutingContract; an upstream call is one step that may fail.         *)
(*                                                                         *)
(* ServeHTTP passes one *ChatCompletionRequest through the handlers, and   *)
(* the heavyweight client writes to it: Stream and Complete set its Stream *)
(* field and replace the model "auto".                                     *)
(*                                                                         *)
(* The context of a request ends when its client disconnects: from then on *)
(* a call that is begun fails, and the handler runs on without a reader.   *)
(***************************************************************************)
EXTENDS Naturals, Sequences

CONSTANTS Requests, None

VARIABLES
    cfg,      \* the configuration the gateway was started with
    cache,    \* the answers stored for the question
    inserts,  \* the answers that insert goroutines are storing
    req       \* the state of each request

vars == <<cfg, cache, inserts, req>>

Config == [speculative : BOOLEAN, caching : BOOLEAN,
           onDrafterError : BOOLEAN, serveDraftOnHeavyError : BOOLEAN]

Extents == {"whole", "cut", "empty"}   \* a body may end early without an error

\* source: an accepted draft, a re-run of the drafter, or the heavyweight;
\* model: the model the provider was asked for.
Answer(source, model, extent) == [source |-> source, model |-> model, extent |-> extent]
Answers == [source : {"draft", "rerun", "heavy"},
            model : {"drafter", "heavyweight", "named"}, extent : Extents]

(***************************************************************************)
(* asked, wanted  the "stream" and "model" fields the client sent          *)
(* stream, model  the same fields of the shared request object             *)
(* call           the heavyweight call that Execute started                *)
(* heavyCalls     the heavyweight calls made, failed early starts left out  *)
(* gone           the client has disconnected                              *)
(* failure        the kind of the error that a failed call returned        *)
(* decisions      routing_decisions_total: the decisions recorded          *)
(* errors         errors_total: the types of the errors recorded           *)
(* counted        requests_total: the statuses recorded                    *)
(* reply          what the client got: its mode, X-Routing-Decision header,*)
(*                status, answer, or the provider whose error is surfaced  *)
(***************************************************************************)
NoReply == [mode |-> "none", header |-> None, status |-> None, answer |-> None,
            error |-> None]

Fresh(stream, model) ==
    [pc |-> "received", asked |-> stream, wanted |-> model, stream |-> stream,
     model |-> model, call |-> "none", heavyCalls |-> 0, gone |-> FALSE,
     failure |-> None, decisions |-> <<>>, errors |-> {}, counted |-> <<>>,
     reply |-> NoReply]

Init ==
    /\ cfg \in Config
    /\ cache = {} /\ inserts = {}
    /\ \E m \in {"auto", "named"} : req \in [Requests -> {Fresh(s, m) : s \in BOOLEAN}]

-----------------------------------------------------------------------------
At(r, pc) == req[r].pc = pc
Mode(stream) == IF stream THEN "sse" ELSE "json"

\* buildRequest on the shared object: the model "auto" becomes the client's.
Named(model, client) == IF model = "auto" THEN client ELSE model

Become(r, state) == req' = [req EXCEPT ![r] = state]

\* Mutant of Finish: HeavyCancel is not deferred.
FinishWithoutCancel(state, reply) ==
    [state EXCEPT !.pc = "done", !.failure = None, !.reply = reply,
                  !.counted = Append(@, reply.status)]

\* The handler writes its reply, counts the request with the status it sent
\* and returns; a handed heavyweight call is then cancelled by the deferred
\* HeavyCancel.
Finish(state, reply) ==
    [state EXCEPT !.pc = "done", !.failure = None, !.reply = reply,
                  !.counted = Append(@, reply.status),
                  !.call = IF @ = "handed" THEN "cancelled" ELSE @]

Decide(state, decision) == [state EXCEPT !.decisions = Append(@, decision)]
RecordError(state, error) == [state EXCEPT !.errors = @ \cup {error}]

Ok(mode, header, answer) ==
    [mode |-> mode, header |-> header, status |-> "ok", answer |-> answer, error |-> None]

\* What Complete and Stream return when they fail: the upstream's status, or a
\* timeout when the context is done, or another error.
CallFailures(state) == IF state.gone THEN {"timeout"} ELSE {"upstream", "internal"}

Failed(state, pc, failure) == [state EXCEPT !.pc = pc, !.failure = failure]

\* handleUpstreamError: the status and the error type follow the failure;
\* there is no routing header.
SurfaceError(state, provider, failure) ==
    Finish(RecordError(state, failure),
           [mode |-> "error", header |-> None, status |-> failure, answer |-> None,
            error |-> provider])

\* What the heavyweight client writes to the request it is given.
Written(state, stream) ==
    [state EXCEPT !.stream = stream, !.model = Named(@, "heavyweight")]

CallHeavy(state, stream) == [Written(state, stream) EXCEPT !.heavyCalls = @ + 1]

-----------------------------------------------------------------------------
\* A method, a body or a message list that is refused ends the request: it is
\* not counted, and an error only if it is the body or the list.
RefuseRequest(r) ==
    /\ At(r, "received")
    /\ \E errors \in {{}, {"invalid_request"}} :
          Become(r, [req[r] EXCEPT !.pc = "done", !.reply.mode = "refused", !.errors = errors])
    /\ UNCHANGED <<cfg, cache, inserts>>

AcceptRequest(r) ==
    /\ At(r, "received")
    /\ Become(r, [req[r] EXCEPT !.pc = IF cfg.caching THEN "lookup" ELSE "draft"])
    /\ UNCHANGED <<cfg, cache, inserts>>

CacheHit(r) ==
    /\ At(r, "lookup") /\ ~req[r].gone
    /\ \E a \in cache :
          Become(r, Finish(Decide(req[r], "cache_hit"),
                           Ok(Mode(req[r].stream), "cache_hit", a)))
    /\ UNCHANGED <<cfg, cache, inserts>>

\* A miss, and also a lookup error, an entry not visible yet or expired.
CacheMiss(r) ==
    /\ At(r, "lookup")
    /\ Become(r, [req[r] EXCEPT !.pc = "draft"])
    /\ UNCHANGED <<cfg, cache, inserts>>

\* Mutant of CallDrafter: the shared request is passed on, not its clone.
CallDrafterUncloned(r) ==
    /\ At(r, "draft")
    /\ LET s == [req[r] EXCEPT !.stream = TRUE]
       IN  \/ ~s.gone /\ Become(r, [s EXCEPT !.pc = "route"])
           \/ \E f \in CallFailures(s) : Become(r, Failed(s, "drafterFailed", f))
    /\ UNCHANGED <<cfg, cache, inserts>>

\* The drafter streams a clone of the request.
CallDrafter(r) ==
    /\ At(r, "draft")
    /\ \/ ~req[r].gone /\ Become(r, [req[r] EXCEPT !.pc = "route"])
       \/ \E f \in CallFailures(req[r]) : Become(r, Failed(req[r], "drafterFailed", f))
    /\ UNCHANGED <<cfg, cache, inserts>>

-----------------------------------------------------------------------------
\* While it drafts, Execute may have asked the heavyweight for a stream, in
\* vain or with a call that runs since; Route never does.
Speculated(state) ==
    {state} \cup
    IF cfg.speculative
    THEN {Written(state, TRUE), [CallHeavy(state, TRUE) EXCEPT !.call = "running"]}
    ELSE {}

Stopped(state) == [state EXCEPT !.call = IF @ = "running" THEN "cancelled" ELSE @]

\* An error in the drafter's stream, or the client is gone: the handler does
\* not tell them apart.
RouteFails(r) ==
    /\ At(r, "route")
    /\ \E s \in Speculated(req[r]) :
          Become(r, Failed(Stopped(s), "drafterFailed", "internal"))
    /\ UNCHANGED <<cfg, cache, inserts>>

RouteEscalates(r) ==
    /\ At(r, "route")
    /\ \E s \in Speculated(req[r]) :
          Become(r, [Decide(s, "escalate") EXCEPT
                        !.pc = "escalated",
                        !.call = IF @ = "running" THEN "handed" ELSE @])
    /\ UNCHANGED <<cfg, cache, inserts>>

\* The accepted draft is assembled, inserted by a goroutine and served in the
\* way the client asked for: ServeHTTP chose the handler before any call.
RouteAccepts(r) ==
    /\ At(r, "route")
    /\ \E s \in Speculated(req[r]), e \in Extents :
          LET draft == Answer("draft", Named(req[r].model, "drafter"), e)
          IN  /\ inserts' = IF cfg.caching THEN inserts \cup {draft} ELSE inserts
              /\ Become(r, Finish(Decide(Stopped(s), "accept"),
                                  Ok(Mode(req[r].asked), "accept", draft)))
    /\ UNCHANGED <<cfg, cache>>

-----------------------------------------------------------------------------
HeavyAnswer(state, e) == Answer("heavy", Named(state.model, "heavyweight"), e)

\* JSON, with a handed channel: it is read to its end, or to an error.
AssembleHeavy(r) ==
    /\ At(r, "escalated") /\ ~req[r].asked /\ req[r].call = "handed"
    /\ \/ \E e \in Extents :
            Become(r, Finish(req[r], Ok("json", "escalate", HeavyAnswer(req[r], e))))
       \/ Become(r, Failed(req[r], "heavyFailed", "internal"))
    /\ UNCHANGED <<cfg, cache, inserts>>

CompleteHeavy(r) ==
    /\ At(r, "escalated") /\ ~req[r].asked /\ req[r].call # "handed"
    /\ LET s == CallHeavy(req[r], FALSE)
       IN  \/ ~s.gone /\ Become(r, Finish(s, Ok("json", "escalate", HeavyAnswer(s, "whole"))))
           \/ \E f \in CallFailures(s) : Become(r, Failed(s, "heavyFailed", f))
    /\ UNCHANGED <<cfg, cache, inserts>>

\* Mutant of StreamHeavy: a new call is made although one was handed over.
StreamHeavyAnew(r) ==
    /\ At(r, "escalated") /\ req[r].asked
    /\ LET s == CallHeavy(req[r], TRUE)
       IN  \/ ~s.gone /\ Become(r, [s EXCEPT !.pc = "firstChunk"])
           \/ \E f \in CallFailures(s) : Become(r, Failed(s, "heavyFailed", f))
    /\ UNCHANGED <<cfg, cache, inserts>>

StreamHeavy(r) ==
    /\ At(r, "escalated") /\ req[r].asked
    /\ IF req[r].call = "handed"
       THEN Become(r, [req[r] EXCEPT !.pc = "firstChunk"])
       ELSE LET s == CallHeavy(req[r], TRUE)
            IN  \/ ~s.gone /\ Become(r, [s EXCEPT !.pc = "firstChunk"])
                \/ \E f \in CallFailures(s) : Become(r, Failed(s, "heavyFailed", f))
    /\ UNCHANGED <<cfg, cache, inserts>>

\* Mutant of FirstChunk: the reply is begun before the first chunk is there.
CommitAtOnce(r) ==
    /\ At(r, "firstChunk")
    /\ \E e \in Extents :
          Become(r, Finish(req[r], Ok("sse", "escalate", HeavyAnswer(req[r], e))))
    /\ UNCHANGED <<cfg, cache, inserts>>

\* streamSSE: the items are passed on to the end of the channel; an error item
\* is counted and ends the stream like its end does.
Streamed(state, header, extent) ==
    {Finish(s, Ok("sse", header, HeavyAnswer(s, extent))) :
        s \in {state} \cup IF extent = "whole" THEN {} ELSE {RecordError(state, "stream_error")}}

\* Nothing is written before the heavyweight's first chunk.
FirstChunk(r) ==
    /\ At(r, "firstChunk")
    /\ \/ \E e \in {"whole", "cut"} :
            \E s \in Streamed(req[r], "escalate", e) : Become(r, s)
       \/ Become(r, Failed(req[r], "heavyFailed", "internal"))
    /\ UNCHANGED <<cfg, cache, inserts>>

-----------------------------------------------------------------------------
\* heavyweightFailed counts the failure before it knows whether the re-run
\* gives an answer, and the decision once it does.
CountedFailure(state) == RecordError(state, "heavyweight_fallback")
DraftServed(state, answer) ==
    Finish(Decide(CountedFailure(state), "fallback_draft"),
           Ok(Mode(state.asked), "fallback_draft", answer))

\* Mutant of Rerun: the re-run answer is cached like an accepted draft.
RerunAndCache(r) ==
    /\ At(r, "heavyFailed") /\ cfg.serveDraftOnHeavyError /\ ~req[r].gone
    /\ \E e \in {"whole", "cut"} :
          LET draft == Answer("rerun", Named(req[r].model, "drafter"), e)
          IN  /\ inserts' = IF cfg.caching THEN inserts \cup {draft} ELSE inserts
              /\ Become(r, DraftServed(req[r], draft))
    /\ UNCHANGED <<cfg, cache>>

\* heavyweightFailed: the drafter is run again on a clone of the request the
\* heavyweight client has written to, and its answer served uncached.
Rerun(r) ==
    /\ At(r, "heavyFailed") /\ cfg.serveDraftOnHeavyError /\ ~req[r].gone
    /\ \E e \in {"whole", "cut"} :
          Become(r, DraftServed(req[r], Answer("rerun", Named(req[r].model, "drafter"), e)))
    /\ UNCHANGED <<cfg, cache, inserts>>

FailureCounted(state) == IF cfg.serveDraftOnHeavyError THEN CountedFailure(state) ELSE state

\* Mutants of SurfaceHeavyError: the error of the re-run is surfaced; the
\* handed stream is read again.
SurfaceRerunError(r) ==
    /\ At(r, "heavyFailed")
    /\ Become(r, SurfaceError(FailureCounted(req[r]),
                              IF cfg.serveDraftOnHeavyError THEN "drafter" ELSE "heavyweight",
                              req[r].failure))
    /\ UNCHANGED <<cfg, cache, inserts>>
RereadHanded(r) ==
    /\ At(r, "heavyFailed")
    /\ Become(r, IF req[r].call = "handed"
                 THEN [req[r] EXCEPT !.pc = "escalated"]
                 ELSE SurfaceError(FailureCounted(req[r]), "heavyweight", req[r].failure))
    /\ UNCHANGED <<cfg, cache, inserts>>

\* The fallback is disabled, or the re-run failed or gave no chunk.
SurfaceHeavyError(r) ==
    /\ At(r, "heavyFailed")
    /\ Become(r, SurfaceError(FailureCounted(req[r]), "heavyweight", req[r].failure))
    /\ UNCHANGED <<cfg, cache, inserts>>

-----------------------------------------------------------------------------
SurfaceDrafterError(r) ==
    /\ At(r, "drafterFailed") /\ ~cfg.onDrafterError
    /\ Become(r, SurfaceError(req[r], "drafter", req[r].failure))
    /\ UNCHANGED <<cfg, cache, inserts>>

\* What drafterFailed records before it calls the heavyweight.
FallbackDecided(state) == Decide(RecordError(state, "drafter_fallback"), "fallback_heavyweight")

\* Mutant of FallBackToHeavy: the fallback is recorded when it has answered,
\* as heavyweightFailed does.
RecordFallbackServed(r) ==
    /\ At(r, "drafterFailed") /\ cfg.onDrafterError
    /\ LET s == CallHeavy(req[r], req[r].stream)
           served == Decide(s, "fallback_heavyweight")
       IN  \/ ~s.gone /\ Become(r, Finish(served, Ok(Mode(s.stream), "fallback_heavyweight",
                                                     HeavyAnswer(s, "whole"))))
           \/ \E f \in CallFailures(s) : Become(r, SurfaceError(s, "heavyweight", f))
    /\ UNCHANGED <<cfg, cache, inserts>>

\* drafterFailed: the shared request goes to the heavyweight, by Stream or by
\* Complete as its Stream field says now.  A stream is begun at once: if it
\* fails before its first chunk the reply is empty.
FallBackToHeavy(r) ==
    /\ At(r, "drafterFailed") /\ cfg.onDrafterError
    /\ LET s == CallHeavy(FallbackDecided(req[r]), req[r].stream)
       IN  \/ /\ ~s.gone /\ s.stream
              /\ \E e \in Extents :
                    \E t \in Streamed(s, "fallback_heavyweight", e) : Become(r, t)
           \/ /\ ~s.gone /\ ~s.stream
              /\ Become(r, Finish(s, Ok("json", "fallback_heavyweight", HeavyAnswer(s, "whole"))))
           \/ \E f \in CallFailures(s) : Become(r, SurfaceError(s, "heavyweight", f))
    /\ UNCHANGED <<cfg, cache, inserts>>

-----------------------------------------------------------------------------
\* An insert goroutine stores its answer, or fails or is lost.
Insert ==
    \E a \in inserts :
       /\ inserts' = inserts \ {a}
       /\ cache' \in {cache, cache \cup {a}}
       /\ UNCHANGED <<cfg, req>>

\* The entry's TTL runs out, or it is evicted.
Expire ==
    \E a \in cache :
       /\ cache' = cache \ {a}
       /\ UNCHANGED <<cfg, inserts, req>>

\* The client disconnects while its request is handled.
Disconnect(r) ==
    /\ ~req[r].gone /\ ~At(r, "done")
    /\ Become(r, [req[r] EXCEPT !.gone = TRUE])
    /\ UNCHANGED <<cfg, cache, inserts>>

Handle(r) ==
    \/ RefuseRequest(r) \/ AcceptRequest(r) \/ CacheHit(r) \/ CacheMiss(r)
    \/ CallDrafter(r) \/ RouteFails(r) \/ RouteEscalates(r) \/ RouteAccepts(r)
    \/ AssembleHeavy(r) \/ CompleteHeavy(r) \/ StreamHeavy(r) \/ FirstChunk(r)
    \/ Rerun(r) \/ SurfaceHeavyError(r) \/ SurfaceDrafterError(r) \/ FallBackToHeavy(r)

Next == (\E r \in Requests : Handle(r) \/ Disconnect(r)) \/ Insert \/ Expire

\* A handler goroutine keeps running: each upstream call has a timeout.
Spec == Init /\ [][Next]_vars /\ \A r \in Requests : WF_vars(Handle(r))

-----------------------------------------------------------------------------
Failures == {"upstream", "timeout", "internal"}
Decisions == {"cache_hit", "accept", "escalate", "fallback_heavyweight", "fallback_draft"}

Reply ==
    [mode : {"none", "json", "sse", "error", "refused"}, header : Decisions \cup {None},
     status : Failures \cup {"ok", None}, answer : Answers \cup {None},
     error : {"drafter", "heavyweight", None}]

RequestState ==
    [pc : {"received", "lookup", "draft", "route", "drafterFailed", "escalated",
           "firstChunk", "heavyFailed", "done"},
     asked : BOOLEAN, wanted : {"auto", "named"}, stream : BOOLEAN,
     model : {"auto", "heavyweight", "named"},
     call : {"none", "running", "handed", "cancelled"}, heavyCalls : 0 .. 2,
     gone : BOOLEAN, failure : Failures \cup {None},
     errors : SUBSET (Failures \cup {"invalid_request", "drafter_fallback",
                                     "heavyweight_fallback", "stream_error"}),
     counted : {<<>>} \cup {<<status>> : status \in Failures \cup {"ok"}},
     decisions : {<<>>} \cup {<<d>> : d \in Decisions} \cup {<<"escalate", "fallback_draft">>},
     reply : Reply]

\* A request records one routing decision, or an escalation and its fallback.
TypeOK ==
    /\ cfg \in Config
    /\ cache \subseteq Answers /\ inserts \subseteq Answers
    /\ req \in [Requests -> RequestState]

\* A string is a decision, a status, a failure or a provider; None is nothing.
ASSUME NoneAssumption ==
    None \notin Decisions \cup Failures \cup {"ok", "drafter", "heavyweight"}

Answered(s) == s.reply.mode \in {"json", "sse"}

\* Whatever is stored, or about to be, was served to some request as its
\* accepted draft: no fallback answer and no heavyweight answer ever reaches
\* another client through the cache.
OnlyAcceptedDraftsCached ==
    \A a \in cache \cup inserts :
       \E r \in Requests : req[r].reply.header = "accept" /\ req[r].reply.answer = a

Says(s) ==
    /\ s.decisions # <<>> /\ s.reply.header = s.decisions[Len(s.decisions)]
    /\ s.reply.answer.source = CASE s.reply.header \in {"accept", "cache_hit"} -> "draft"
                                 [] s.reply.header = "fallback_draft" -> "rerun"
                                 [] OTHER -> "heavy"
    /\ \/ s.reply.header = "fallback_draft"
       \/ s.reply.header = "escalate" /\ s.reply.mode = "sse"
       => s.reply.answer.extent # "empty"

\* The routing header of an answer is the last decision the metrics counted,
\* and the provider that gave the answer is the one the header names, however
\* many calls failed on the way; a fallback draft and an escalated stream are
\* never empty.
ReplyIsWhatItSays == \A r \in Requests : Answered(req[r]) => Says(req[r])

Surfaces(s) ==
    /\ s.reply.error = "drafter" => ~cfg.onDrafterError /\ s.decisions = <<>>
    /\ s.reply.error = "heavyweight" => s.heavyCalls > 0

\* When the heavyweight failed its error is the one surfaced, even if the
\* drafter failed before or after it; a drafter's error reaches the client
\* only with the fallback disabled and no escalation decided.
HeavyErrorSurfaces == \A r \in Requests : Surfaces(req[r])

\* No handler returns with a heavyweight call it was handed still running,
\* also when the reply was a fallback draft served while the call went on.
CallReleased == \A r \in Requests : At(r, "done") => req[r].call \in {"none", "cancelled"}

CalledOnce(s) ==
    s.heavyCalls > 1 => s.call = "cancelled" /\ s.decisions = <<"fallback_heavyweight">>

\* An escalation uses the call speculation started: a second call is made only
\* when the draft failed after the first one had been cancelled.
HeavyCalledOnce == \A r \in Requests : CalledOnce(req[r])

InMode(s) ==
    Answered(s) /\ s.reply.mode # Mode(s.asked) =>
       cfg.speculative /\ s.reply.header = "fallback_heavyweight"

\* A client gets the kind of body it asked for, the one exception being a
\* speculative request whose drafter failed.
ModeIsAsked == \A r \in Requests : InMode(req[r])

Counted(s) ==
    LET decided == {s.decisions[i] : i \in DOMAIN s.decisions}
    IN  /\ s.counted = <<s.reply.status>>
        /\ s.errors \cap Failures = {s.reply.status} \ {"ok"}
        /\ "drafter_fallback" \in s.errors <=> "fallback_heavyweight" \in decided
        /\ "heavyweight_fallback" \in s.errors <=>
              \/ s.reply.header = "fallback_draft"
              \/ /\ cfg.serveDraftOnHeavyError /\ "escalate" \in decided
                 /\ s.reply.error = "heavyweight"
        /\ s.reply.status = "timeout" => s.gone

\* The counters tell one story: a request that was not refused is counted once,
\* with the status it was sent; its fallbacks show in the error types and, by
\* the decisions, a drafter's fallback even if the heavyweight failed too, a
\* heavyweight's only if the re-run was served; an error status shows as its
\* error type.  A timeout is counted only for a client that is gone: the
\* deadline of an upstream call is not the deadline of its context.
CountersAgree ==
    /\ TypeOK
    /\ \A r \in Requests :
          At(r, "done") /\ req[r].reply.mode # "refused" => Counted(req[r])

\* Every request is answered, whichever calls fail.
EveryRequestEnds == \A r \in Requests : <>At(r, "done")

-----------------------------------------------------------------------------
(***************************************************************************)
(* The inductive invariant behind the safety properties: what a request    *)
(* has at each place of its handler, and what it has when it is done.      *)
(***************************************************************************)
Unrouted == {"received", "lookup", "draft", "route"}

Ongoing(s) ==
    /\ s.counted = <<>> /\ s.errors = {} /\ s.reply = NoReply
    /\ s.pc \in Unrouted => s.call = "none" /\ s.heavyCalls = 0 /\ s.stream = s.asked
    /\ s.pc \in Unrouted \cup {"drafterFailed"} => s.decisions = <<>>
    /\ s.pc = "drafterFailed" =>
          /\ s.call \in {"none", "cancelled"}
          /\ s.heavyCalls = IF s.call = "none" THEN 0 ELSE 1
          /\ cfg.speculative \/ s.stream = s.asked
    /\ s.pc \in {"escalated", "firstChunk", "heavyFailed"} =>
          /\ s.decisions = <<"escalate">> /\ s.call \in {"none", "handed"}
          /\ s.heavyCalls = IF s.pc = "escalated" /\ s.call = "none" THEN 0 ELSE 1
    /\ s.pc = "firstChunk" => s.asked
    /\ s.pc \in {"drafterFailed", "heavyFailed"} =>
          s.failure \in Failures /\ (s.failure = "timeout" => s.gone)

Ended(s) ==
    /\ s.reply.header = "accept" => Answered(s)
    /\ Answered(s) => Says(s)
    /\ s.call \in {"none", "cancelled"}
    /\ Surfaces(s) /\ CalledOnce(s) /\ InMode(s)
    /\ s.reply.mode # "refused" => Counted(s)

IInv ==
    /\ TypeOK /\ OnlyAcceptedDraftsCached
    /\ \A r \in Requests : IF At(r, "done") THEN Ended(req[r]) ELSE Ongoing(req[r])

-----------------------------------------------------------------------------
\* A fallback honours the request: its answer comes in the form the client asked
\* for (docs/STREAMING_DESIGN.md 5: buffering is the contract of non-streaming
\* traffic), and a fallback draft for the model "auto" is the drafter's own
\* answer (internal/config/config.go:20).
FallbackHonoursRequest ==
    \A r \in {q \in Requests : Answered(req[q])} :
       /\ req[r].reply.mode = Mode(req[r].asked)
       /\ req[r].reply.answer.source = "rerun" /\ req[r].wanted = "auto" =>
             req[r].reply.answer.model = "drafter"

\* docs/SYSTEM_DESIGN.md 5A: when both providers fail the heavyweight's error
\* is surfaced; an answer without a chunk is no answer.
BothFailedIsAnError ==
    \A r \in {q \in Requests : Answered(req[q])} :
       req[r].reply.header = "fallback_heavyweight" => req[r].reply.answer.extent # "empty"

=============================================================================
