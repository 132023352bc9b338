--------------------------- MODULE ChatHandlerProofs ---------------------------
(***************************************************************************)
(* Proofs about the chat handler for any number of requests that share the *)
(* cache, in every configuration.                                          *)
(***************************************************************************)
EXTENDS ChatHandler, SequenceTheorems, TLAPS

\* The sequences a request keeps its decisions and its status in.
LEMMA Tuples ==
    /\ \A d : Append(<<>>, d) = <<d>> /\ <<d>> # <<>>
    /\ \A d : Len(<<d>>) = 1 /\ <<d>>[1] = d /\ {<<d>>[i] : i \in DOMAIN <<d>>} = {d}
    /\ \A d, e : /\ Append(<<d>>, e) = <<d, e>> /\ <<d, e>> # <<>>
                 /\ Len(<<d, e>>) = 2 /\ <<d, e>>[2] = e
                 /\ {<<d, e>>[i] : i \in DOMAIN <<d, e>>} = {d, e}
    /\ {<<>>[i] : i \in DOMAIN <<>>} = {}
<1>1. \A d : Append(<<>>, d) = <<d>> /\ <<d>> # <<>>
  OBVIOUS
<1>2. \A d : Len(<<d>>) = 1 /\ <<d>>[1] = d /\ {<<d>>[i] : i \in DOMAIN <<d>>} = {d}
  OBVIOUS
<1>3. ASSUME NEW d, NEW e
      PROVE  /\ Append(<<d>>, e) = <<d, e>> /\ <<d, e>> # <<>>
             /\ Len(<<d, e>>) = 2 /\ <<d, e>>[2] = e
             /\ {<<d, e>>[i] : i \in DOMAIN <<d, e>>} = {d, e}
  <2>1. DOMAIN <<d, e>> = {1, 2} /\ <<d, e>>[1] = d /\ <<d, e>>[2] = e
    OBVIOUS
  <2>2. {<<d, e>>[i] : i \in DOMAIN <<d, e>>} = {d, e}
    BY <2>1, Zenon
  <2>3. Append(<<d>>, e) = <<d, e>> /\ <<d, e>> # <<>>
    <3>1. <<d>> \in Seq({d, e}) /\ <<d, e>> \in Seq({d, e})
      OBVIOUS
    <3>. DEFINE a == Append(<<d>>, e)
    <3>2. a \in Seq({d, e}) /\ Len(a) = 2 /\ a[1] = d /\ a[2] = e
      BY <3>1, AppendProperties
    <3>. HIDE DEF a
    <3>3. a = <<d, e>>
      BY <3>1, <3>2, SeqEqual
    <3>. QED
      BY <3>3 DEF a
  <2>4. Len(<<d, e>>) = 2 /\ <<d, e>>[2] = e
    OBVIOUS
  <2>. QED
    BY <2>2, <2>3, <2>4
<1>4. {<<>>[i] : i \in DOMAIN <<>>} = {}
  OBVIOUS
<1>. QED
  BY <1>1, <1>2, <1>3, <1>4

\* What each request must satisfy.
StateOk(s) == s \in RequestState /\ IF s.pc = "done" THEN Ended(s) ELSE Ongoing(s)

LEMMA OngoingHasNoReply ==
    ASSUME NEW s, Ongoing(s)
    PROVE  s.reply.header = None /\ s.reply.mode = "none"
BY DEF Ongoing, NoReply

LEMMA BecomeKeeps ==
    ASSUME IInv, NEW r \in Requests, ~At(r, "done"), NEW t, StateOk(t), Become(r, t),
           UNCHANGED <<cfg, cache>>, inserts' \subseteq Answers,
           \A a \in inserts' \ inserts : t.reply.header = "accept" /\ t.reply.answer = a
    PROVE  IInv'
<1>1. req' \in [Requests -> RequestState] /\ req'[r] = t
      /\ \A q \in Requests \ {r} : req'[q] = req[q]
  BY DEF IInv, TypeOK, Become, StateOk
<1>2. TypeOK'
  BY <1>1 DEF IInv, TypeOK
<1>3. req[r].reply.header # "accept"
  BY OngoingHasNoReply, NoneAssumption DEF IInv, Decisions
<1>4. OnlyAcceptedDraftsCached'
  BY <1>1, <1>3 DEF IInv, OnlyAcceptedDraftsCached
<1>5. ASSUME NEW q \in Requests
      PROVE  (IF At(q, "done") THEN Ended(req[q]) ELSE Ongoing(req[q]))'
  <2>1. StateOk(req'[q])
    BY <1>1 DEF IInv, TypeOK, StateOk, At
  <2>. QED
    BY <2>1 DEF StateOk, At, Ended, Ongoing, Surfaces, InMode, Counted
<1>. QED
  BY <1>2, <1>4, <1>5 DEF IInv

-----------------------------------------------------------------------------
(***************************************************************************)
(* The changes the handlers compose their steps of.                        *)
(***************************************************************************)
\* What none of them but Finish changes.
Same(s, t) == /\ t.pc = s.pc /\ t.asked = s.asked /\ t.gone = s.gone
              /\ t.counted = s.counted /\ t.reply = s.reply

LEMMA DecideOk ==
    ASSUME NEW s \in RequestState, NEW d \in Decisions,
           s.decisions = <<>> \/ (s.decisions = <<"escalate">> /\ d = "fallback_draft")
    PROVE  LET t == Decide(s, d)
           IN  /\ t \in RequestState /\ Same(s, t)
               /\ t.stream = s.stream /\ t.call = s.call /\ t.heavyCalls = s.heavyCalls
               /\ t.errors = s.errors /\ t.failure = s.failure
               /\ t.decisions = IF s.decisions = <<>> THEN <<d>> ELSE <<"escalate", d>>
<1>. DEFINE e == IF s.decisions = <<>> THEN <<d>> ELSE <<"escalate", d>>
            Lists == {<<>>} \cup {<<x>> : x \in Decisions} \cup {<<"escalate", "fallback_draft">>}
            t == [s EXCEPT !.decisions = e]
<1>1. e \in Lists
  OBVIOUS
<1>2. Append(s.decisions, d) = e
  BY Tuples
<1>3. Decide(s, d) = t
  BY <1>2 DEF Decide
<1>. HIDE DEF e
<1>4. t \in RequestState /\ t.decisions = e
  BY <1>1 DEF RequestState
<1>5. /\ Same(s, t)
      /\ t.stream = s.stream /\ t.call = s.call /\ t.heavyCalls = s.heavyCalls
      /\ t.errors = s.errors /\ t.failure = s.failure
  BY DEF RequestState, Same
<1>. QED
  BY <1>3, <1>4, <1>5 DEF e

ErrorTypes == Failures \cup {"invalid_request", "drafter_fallback", "heavyweight_fallback",
                             "stream_error"}

LEMMA RecordErrorOk ==
    ASSUME NEW s \in RequestState, NEW e \in ErrorTypes
    PROVE  LET t == RecordError(s, e)
           IN  /\ t \in RequestState /\ Same(s, t)
               /\ t.stream = s.stream /\ t.call = s.call /\ t.heavyCalls = s.heavyCalls
               /\ t.decisions = s.decisions /\ t.failure = s.failure
               /\ t.errors = s.errors \cup {e}
<1>. DEFINE u == s.errors \cup {e}
            t == [s EXCEPT !.errors = u]
<1>1. s.errors \in SUBSET ErrorTypes
  BY DEF RequestState, ErrorTypes
<1>2. u \in SUBSET ErrorTypes
  BY <1>1
<1>3. RecordError(s, e) = t
  BY DEF RecordError
<1>. HIDE DEF u
<1>4. t \in RequestState /\ t.errors = u
  BY <1>2 DEF RequestState, ErrorTypes
<1>5. /\ Same(s, t)
      /\ t.stream = s.stream /\ t.call = s.call /\ t.heavyCalls = s.heavyCalls
      /\ t.decisions = s.decisions /\ t.failure = s.failure
  BY DEF RequestState, Same
<1>. QED
  BY <1>3, <1>4, <1>5 DEF u

LEMMA WrittenOk ==
    ASSUME NEW s \in RequestState, NEW b \in BOOLEAN
    PROVE  LET t == Written(s, b)
           IN  /\ t \in RequestState /\ Same(s, t)
               /\ t.stream = b /\ t.call = s.call /\ t.heavyCalls = s.heavyCalls
               /\ t.decisions = s.decisions /\ t.failure = s.failure
               /\ t.errors = s.errors
BY DEF RequestState, Written, Named, Same

LEMMA CallHeavyOk ==
    ASSUME NEW s \in RequestState, NEW b \in BOOLEAN, s.heavyCalls \in {0, 1}
    PROVE  LET t == CallHeavy(s, b)
           IN  /\ t \in RequestState /\ Same(s, t)
               /\ t.stream = b /\ t.call = s.call /\ t.heavyCalls = s.heavyCalls + 1
               /\ t.decisions = s.decisions /\ t.failure = s.failure
               /\ t.errors = s.errors
<1>. DEFINE u == Written(s, b)
            n == s.heavyCalls + 1
<1>1. /\ u \in RequestState /\ Same(s, u)
      /\ u.stream = b /\ u.call = s.call /\ u.heavyCalls = s.heavyCalls
      /\ u.decisions = s.decisions /\ u.failure = s.failure
      /\ u.errors = s.errors
  BY WrittenOk
<1>2. n \in 0 .. 2
  OBVIOUS
<1>3. CallHeavy(s, b) = [u EXCEPT !.heavyCalls = n]
  BY <1>1 DEF CallHeavy
<1>. HIDE DEF u, n
<1>. QED
  <2>1. [u EXCEPT !.heavyCalls = n] \in RequestState
    BY <1>1, <1>2 DEF RequestState
  <2>. QED
    BY <1>1, <1>3, <2>1 DEF RequestState, Same, n

\* The fields that the end of a request writes, one at a time.
LEMMA EndFields ==
    ASSUME NEW s \in RequestState
    PROVE  /\ [s EXCEPT !.pc = "done"] \in RequestState
           /\ [s EXCEPT !.failure = None] \in RequestState
           /\ \A x \in Reply : [s EXCEPT !.reply = x] \in RequestState
           /\ \A x \in Failures \cup {"ok"} : [s EXCEPT !.counted = <<x>>] \in RequestState
           /\ \A x \in {"none", "running", "handed", "cancelled"} :
                 [s EXCEPT !.call = x] \in RequestState
<1>1. [s EXCEPT !.pc = "done"] \in RequestState
  BY DEF RequestState
<1>2. [s EXCEPT !.failure = None] \in RequestState
  BY DEF RequestState
<1>3. ASSUME NEW x \in Reply PROVE [s EXCEPT !.reply = x] \in RequestState
  BY DEF RequestState
<1>4. ASSUME NEW x \in Failures \cup {"ok"} PROVE [s EXCEPT !.counted = <<x>>] \in RequestState
  <2>. DEFINE c == <<x>>
  <2>1. c \in {<<>>} \cup {<<status>> : status \in Failures \cup {"ok"}}
    OBVIOUS
  <2>. HIDE DEF c
  <2>2. [s EXCEPT !.counted = c] \in RequestState
    BY <2>1 DEF RequestState
  <2>. QED
    BY <2>2 DEF c
<1>5. ASSUME NEW x \in {"none", "running", "handed", "cancelled"}
      PROVE  [s EXCEPT !.call = x] \in RequestState
  BY DEF RequestState
<1>. QED
  BY <1>1, <1>2, <1>3, <1>4, <1>5

LEMMA FinishOk ==
    ASSUME NEW s \in RequestState, s.counted = <<>>, s.pc # "done",
           NEW reply \in Reply, reply.status # None
    PROVE  LET t == Finish(s, reply)
           IN  /\ t \in RequestState /\ t.pc = "done" /\ t.reply = reply
               /\ t.counted = <<reply.status>>
               /\ t.call = IF s.call = "handed" THEN "cancelled" ELSE s.call
               /\ t.asked = s.asked /\ t.gone = s.gone
               /\ t.heavyCalls = s.heavyCalls /\ t.errors = s.errors
               /\ t.decisions = s.decisions
<1>. DEFINE c == <<reply.status>>
            k == IF s.call = "handed" THEN "cancelled" ELSE s.call
            t == [s EXCEPT !.pc = "done", !.failure = None, !.reply = reply, !.counted = c,
                           !.call = k]
<1>1. reply.status \in Failures \cup {"ok"}
  BY DEF Reply
<1>2. Finish(s, reply) = t
  BY Tuples DEF Finish
<1>3. k \in {"none", "running", "handed", "cancelled"}
  BY DEF RequestState
<1>. HIDE DEF c, k
<1>4. t \in RequestState
  <2>. DEFINE t1 == [s EXCEPT !.pc = "done"]
              t2 == [t1 EXCEPT !.failure = None]
              t3 == [t2 EXCEPT !.reply = reply]
              t4 == [t3 EXCEPT !.counted = <<reply.status>>]
  <2>1. t = [t4 EXCEPT !.call = k]
    BY DEF c
  <2>2. t1 \in RequestState
    BY EndFields
  <2>. HIDE DEF t, t1
  <2>3. t2 \in RequestState
    BY <2>2, EndFields
  <2>. HIDE DEF t2
  <2>4. t3 \in RequestState
    BY <2>3, EndFields
  <2>. HIDE DEF t3
  <2>5. t4 \in RequestState
    BY <1>1, <2>4, EndFields
  <2>. HIDE DEF t4
  <2>. QED
    BY <1>3, <2>1, <2>5, EndFields
<1>5. /\ t.pc = "done" /\ t.reply = reply /\ t.counted = c /\ t.call = k
      /\ t.asked = s.asked /\ t.gone = s.gone
      /\ t.heavyCalls = s.heavyCalls /\ t.errors = s.errors
      /\ t.decisions = s.decisions
  BY DEF RequestState
<1>. QED
  BY <1>2, <1>4, <1>5 DEF c, k

\* handleUpstreamError, of a request that has no error type of its own yet.
LEMMA SurfaceErrorOk ==
    ASSUME NEW s \in RequestState, s.counted = <<>>, s.pc # "done",
           NEW provider \in {"drafter", "heavyweight"}, NEW failure \in Failures,
           failure = "timeout" => s.gone, s.errors \cap Failures = {},
           provider = "drafter" => ~cfg.onDrafterError /\ s.decisions = <<>>,
           provider = "heavyweight" => s.heavyCalls > 0,
           s.call \in {"none", "handed", "cancelled"}, CalledOnce(s),
           LET decided == {s.decisions[i] : i \in DOMAIN s.decisions}
           IN  /\ "drafter_fallback" \in s.errors <=> "fallback_heavyweight" \in decided
               /\ "heavyweight_fallback" \in s.errors <=>
                     cfg.serveDraftOnHeavyError /\ "escalate" \in decided /\ provider = "heavyweight"
    PROVE  StateOk(SurfaceError(s, provider, failure))
<1>. DEFINE u == RecordError(s, failure)
            reply == [mode |-> "error", header |-> None, status |-> failure, answer |-> None,
                      error |-> provider]
            t == Finish(u, reply)
<1>1. /\ u \in RequestState /\ Same(s, u) /\ u.call = s.call /\ u.heavyCalls = s.heavyCalls
      /\ u.decisions = s.decisions /\ u.errors = s.errors \cup {failure}
  BY RecordErrorOk DEF ErrorTypes
<1>2. reply \in Reply /\ reply.status # None
  BY NoneAssumption DEF Reply
<1>. HIDE DEF u
<1>3. /\ t \in RequestState /\ t.pc = "done" /\ t.reply = reply
      /\ t.counted = <<reply.status>>
      /\ t.call = IF u.call = "handed" THEN "cancelled" ELSE u.call
      /\ t.asked = u.asked /\ t.gone = u.gone
      /\ t.heavyCalls = u.heavyCalls /\ t.errors = u.errors
      /\ t.decisions = u.decisions
  BY <1>1, <1>2, FinishOk DEF Same
<1>4. SurfaceError(s, provider, failure) = t
  BY DEF SurfaceError, u
<1>. HIDE DEF t
<1>5. reply.header = None /\ reply.mode = "error" /\ reply.status = failure /\ reply.error = provider
  OBVIOUS
<1>. HIDE DEF reply
<1>6. ~Answered(t) /\ t.reply.header # "accept"
  BY <1>3, <1>5, NoneAssumption DEF Answered, Decisions
<1>7. t.call \in {"none", "cancelled"} /\ CalledOnce(t) /\ Surfaces(t) /\ InMode(t)
  BY <1>1, <1>3, <1>5, <1>6 DEF CalledOnce, Surfaces, InMode
<1>8. Counted(t)
  <2>1. t.errors \cap Failures = {failure} \ {"ok"}
    BY <1>1, <1>3 DEF Failures
  <2>2. failure \notin {"drafter_fallback", "heavyweight_fallback"}
    BY DEF Failures
  <2>3. t.reply.header # "fallback_draft"
    BY <1>3, <1>5, NoneAssumption DEF Decisions
  <2>. QED
    BY <1>1, <1>3, <1>5, <2>1, <2>2, <2>3 DEF Counted, Same
<1>. QED
  BY <1>3, <1>4, <1>6, <1>7, <1>8 DEF StateOk, Ended

\* An answer and its header that suit a request whose errors are no failures.
Suits(s, mode, header, answer) ==
    /\ s.errors \cap Failures = {} /\ s.call \in {"none", "handed", "cancelled"} /\ CalledOnce(s)
    /\ s.decisions # <<>> /\ header = s.decisions[Len(s.decisions)]
    /\ header \in {"accept", "cache_hit"} => answer.source = "draft"
    /\ header = "fallback_draft" => answer.source = "rerun"
    /\ header \in {"escalate", "fallback_heavyweight"} => answer.source = "heavy"
    /\ header = "fallback_draft" \/ (header = "escalate" /\ mode = "sse")
         => answer.extent # "empty"
    /\ mode # Mode(s.asked) => cfg.speculative /\ header = "fallback_heavyweight"
    /\ LET decided == {s.decisions[i] : i \in DOMAIN s.decisions}
       IN  "drafter_fallback" \in s.errors <=> "fallback_heavyweight" \in decided
    /\ "heavyweight_fallback" \in s.errors <=> header = "fallback_draft"

LEMMA AnswerOk ==
    ASSUME NEW s \in RequestState, s.counted = <<>>, s.pc # "done",
           NEW mode \in {"json", "sse"}, NEW header \in Decisions, NEW answer \in Answers,
           Suits(s, mode, header, answer)
    PROVE  /\ StateOk(Finish(s, Ok(mode, header, answer)))
           /\ Finish(s, Ok(mode, header, answer)).reply = Ok(mode, header, answer)
<1>. DEFINE reply == Ok(mode, header, answer)
            t == Finish(s, reply)
<1>1. reply \in Reply /\ reply.status # None
  BY NoneAssumption DEF Reply, Ok
<1>2. reply.mode = mode /\ reply.header = header /\ reply.status = "ok" /\ reply.answer = answer
      /\ reply.error = None
  BY DEF Ok
<1>. HIDE DEF reply
<1>3. /\ t \in RequestState /\ t.pc = "done" /\ t.reply = reply
      /\ t.counted = <<reply.status>>
      /\ t.call = IF s.call = "handed" THEN "cancelled" ELSE s.call
      /\ t.asked = s.asked /\ t.gone = s.gone
      /\ t.heavyCalls = s.heavyCalls /\ t.errors = s.errors
      /\ t.decisions = s.decisions
  BY <1>1, FinishOk
<1>. HIDE DEF t
<1>4. Answered(t) /\ Says(t)
  BY <1>2, <1>3 DEF Answered, Says, Suits, Decisions
<1>5. t.call \in {"none", "cancelled"} /\ CalledOnce(t) /\ Surfaces(t) /\ InMode(t)
  BY <1>2, <1>3, NoneAssumption DEF CalledOnce, Surfaces, InMode, Suits
<1>6. Counted(t)
  BY <1>2, <1>3, NoneAssumption DEF Counted, Failures, Suits
<1>. QED
  BY <1>3, <1>4, <1>5, <1>6 DEF StateOk, Ended, t, reply

-----------------------------------------------------------------------------
(***************************************************************************)
(* The steps of the handler.                                               *)
(***************************************************************************)
\* A step within the handler, or to a reply that lets nothing into the cache.
LEMMA QuietStep ==
    ASSUME IInv, NEW r \in Requests, ~At(r, "done"), NEW t, StateOk(t), Become(r, t),
           UNCHANGED <<cfg, cache, inserts>>
    PROVE  IInv'
BY BecomeKeeps DEF IInv, TypeOK

LEMMA OngoingState ==
    ASSUME IInv, NEW r \in Requests, ~At(r, "done")
    PROVE  req[r] \in RequestState /\ Ongoing(req[r])
BY DEF IInv, TypeOK

\* The parts of Ongoing that a reply is made from.
LEMMA OngoingPlain ==
    ASSUME NEW s, Ongoing(s)
    PROVE  s.counted = <<>> /\ s.errors = {} /\ s.reply = NoReply
BY DEF Ongoing

\* An answer that was cached is somebody's accepted draft.
LEMMA CachedIsDraft ==
    ASSUME IInv, NEW a \in cache
    PROVE  a \in Answers /\ a.source = "draft"
<1>1. PICK r \in Requests : req[r].reply.header = "accept" /\ req[r].reply.answer = a
  BY DEF IInv, OnlyAcceptedDraftsCached
<1>2. At(r, "done")
  BY <1>1, OngoingHasNoReply, NoneAssumption DEF IInv, Decisions
<1>. QED
  BY <1>1, <1>2 DEF IInv, TypeOK, Ended, Says

LEMMA NextRefuse ==
    ASSUME IInv, NEW r \in Requests, RefuseRequest(r)
    PROVE  IInv'
<1>. DEFINE s == req[r]
<1>1. s \in RequestState /\ Ongoing(s) /\ s.pc = "received" /\ ~At(r, "done")
  BY OngoingState DEF RefuseRequest, At
<1>2. PICK errors \in {{}, {"invalid_request"}} :
         Become(r, [s EXCEPT !.pc = "done", !.reply.mode = "refused", !.errors = errors])
  BY DEF RefuseRequest
<1>. DEFINE reply == [s.reply EXCEPT !.mode = "refused"]
            t == [s EXCEPT !.pc = "done", !.reply = reply, !.errors = errors]
<1>3. Become(r, t)
  BY <1>2
<1>4. /\ reply \in Reply /\ reply.mode = "refused"
      /\ reply.header = None /\ reply.error = None /\ reply.status = None
  BY <1>1 DEF Ongoing, NoReply, Reply
<1>. HIDE DEF reply
<1>5. t \in RequestState /\ t.pc = "done" /\ t.reply = reply /\ t.call = "none" /\ t.heavyCalls = 0
  BY <1>1, <1>4 DEF RequestState, Ongoing, Unrouted
<1>. HIDE DEF t
<1>6. Ended(t)
  BY <1>4, <1>5, NoneAssumption
  DEF Ended, Answered, Surfaces, CalledOnce, InMode, Decisions
<1>. QED
  BY <1>1, <1>3, <1>5, <1>6, QuietStep DEF StateOk, RefuseRequest

LEMMA NextAccept ==
    ASSUME IInv, NEW r \in Requests, AcceptRequest(r)
    PROVE  IInv'
<1>. DEFINE s == req[r]
            t == [s EXCEPT !.pc = IF cfg.caching THEN "lookup" ELSE "draft"]
<1>1. s \in RequestState /\ Ongoing(s) /\ s.pc = "received" /\ ~At(r, "done")
  BY OngoingState DEF AcceptRequest, At
<1>2. StateOk(t)
  BY <1>1 DEF StateOk, RequestState, Ongoing, Unrouted
<1>. QED
  BY <1>1, <1>2, QuietStep DEF AcceptRequest

LEMMA NextHit ==
    ASSUME IInv, NEW r \in Requests, CacheHit(r)
    PROVE  IInv'
<1>. DEFINE s == req[r]
            u == Decide(s, "cache_hit")
<1>1. s \in RequestState /\ Ongoing(s) /\ s.pc = "lookup" /\ ~At(r, "done")
  BY OngoingState DEF CacheHit, At
<1>2. PICK a \in cache : Become(r, Finish(u, Ok(Mode(s.stream), "cache_hit", a)))
  BY DEF CacheHit
<1>3. a \in Answers /\ a.source = "draft"
  BY CachedIsDraft
<1>4. s.call = "none" /\ s.heavyCalls = 0 /\ s.decisions = <<>> /\ s.stream = s.asked
      /\ s.counted = <<>> /\ s.errors = {}
  BY <1>1 DEF Ongoing, Unrouted
<1>5. /\ u \in RequestState /\ Same(s, u) /\ u.call = "none" /\ u.heavyCalls = 0
      /\ u.errors = {} /\ u.decisions = <<"cache_hit">>
  BY <1>1, <1>4, DecideOk DEF Decisions
<1>. HIDE DEF u
<1>6. StateOk(Finish(u, Ok(Mode(s.stream), "cache_hit", a)))
  <2>1. u.decisions # <<>> /\ u.decisions[Len(u.decisions)] = "cache_hit"
        /\ {u.decisions[i] : i \in DOMAIN u.decisions} = {"cache_hit"}
    BY <1>5, Tuples
  <2>2. Suits(u, Mode(s.stream), "cache_hit", a)
    BY <1>3, <1>4, <1>5, <2>1 DEF Suits, Same, CalledOnce
  <2>. QED
    BY <1>1, <1>3, <1>4, <1>5, <2>2, AnswerOk DEF Same, Mode, Decisions
<1>. QED
  BY <1>1, <1>2, <1>6, QuietStep DEF CacheHit

LEMMA NextMiss ==
    ASSUME IInv, NEW r \in Requests, CacheMiss(r)
    PROVE  IInv'
<1>. DEFINE s == req[r]
            t == [s EXCEPT !.pc = "draft"]
<1>1. s \in RequestState /\ Ongoing(s) /\ s.pc = "lookup" /\ ~At(r, "done")
  BY OngoingState DEF CacheMiss, At
<1>2. StateOk(t)
  BY <1>1 DEF StateOk, RequestState, Ongoing, Unrouted
<1>. QED
  BY <1>1, <1>2, QuietStep DEF CacheMiss

\* A failed call leaves a failure, and a timeout only for a client that is gone.
LEMMA CallFailure ==
    ASSUME NEW s, NEW f \in CallFailures(s)
    PROVE  f \in Failures /\ (f = "timeout" => s.gone)
BY DEF CallFailures, Failures

LEMMA NextDrafter ==
    ASSUME IInv, NEW r \in Requests, CallDrafter(r)
    PROVE  IInv'
<1>. DEFINE s == req[r]
<1>1. s \in RequestState /\ Ongoing(s) /\ s.pc = "draft" /\ ~At(r, "done")
  BY OngoingState DEF CallDrafter, At
<1>2. CASE Become(r, [s EXCEPT !.pc = "route"])
  <2>1. StateOk([s EXCEPT !.pc = "route"])
    BY <1>1 DEF StateOk, RequestState, Ongoing, Unrouted
  <2>. QED
    BY <1>1, <1>2, <2>1, QuietStep DEF CallDrafter
<1>3. ASSUME NEW f \in CallFailures(s), Become(r, Failed(s, "drafterFailed", f))
      PROVE  IInv'
  <2>1. StateOk(Failed(s, "drafterFailed", f))
    BY <1>1, CallFailure DEF StateOk, RequestState, Failed, Ongoing, Unrouted
  <2>. QED
    BY <1>1, <1>3, <2>1, QuietStep DEF CallDrafter
<1>. QED
  BY <1>2, <1>3 DEF CallDrafter

\* What speculation may have made of a request that is being routed.
LEMMA SpeculatedOk ==
    ASSUME NEW s \in RequestState, Ongoing(s), s.pc = "route", NEW u \in Speculated(s)
    PROVE  /\ u \in RequestState /\ Same(s, u) /\ u.decisions = <<>> /\ u.errors = {}
           /\ u.call \in {"none", "running"}
           /\ u.heavyCalls = IF u.call = "none" THEN 0 ELSE 1
           /\ cfg.speculative \/ u.stream = u.asked
<1>1. s.call = "none" /\ s.heavyCalls = 0 /\ s.decisions = <<>> /\ s.stream = s.asked /\ s.errors = {}
  BY DEF Ongoing, Unrouted
<1>2. CASE u = s
  BY <1>1, <1>2 DEF Same
<1>3. CASE cfg.speculative /\ u = Written(s, TRUE)
  BY <1>1, <1>3, WrittenOk
<1>4. CASE cfg.speculative /\ u = [CallHeavy(s, TRUE) EXCEPT !.call = "running"]
  <2>. DEFINE v == CallHeavy(s, TRUE)
  <2>1. /\ v \in RequestState /\ Same(s, v) /\ v.decisions = <<>> /\ v.errors = {}
        /\ v.heavyCalls = 1
    <3>1. s.heavyCalls \in {0, 1} /\ TRUE \in BOOLEAN
      BY <1>1
    <3>2. /\ v \in RequestState /\ Same(s, v) /\ v.decisions = s.decisions /\ v.errors = s.errors
          /\ v.heavyCalls = s.heavyCalls + 1
      BY <3>1, CallHeavyOk
    <3>. HIDE DEF v
    <3>3. v.decisions = <<>> /\ v.errors = {}
      BY <1>1, <3>2, Zenon
    <3>4. s.heavyCalls + 1 = 1
      BY <1>1
    <3>5. v.heavyCalls = 1
      BY <3>2, <3>4, Zenon
    <3>. QED
      BY <3>2, <3>3, <3>5, Zenon
  <2>. HIDE DEF v
  <2>2. u = [v EXCEPT !.call = "running"]
    BY <1>4 DEF v
  <2>3. u \in RequestState
    BY <2>1, <2>2, EndFields
  <2>4. /\ u.call = "running" /\ u.heavyCalls = v.heavyCalls
        /\ u.decisions = v.decisions /\ u.errors = v.errors
    BY <2>1, <2>2 DEF RequestState
  <2>5. Same(s, u)
    BY <2>1, <2>2 DEF RequestState, Same
  <2>. QED
    BY <1>4, <2>1, <2>3, <2>4, <2>5
<1>. QED
  BY <1>2, <1>3, <1>4 DEF Speculated

LEMMA StoppedOk ==
    ASSUME NEW u \in RequestState, u.call \in {"none", "running"}
    PROVE  LET t == Stopped(u)
           IN  /\ t \in RequestState /\ Same(u, t)
               /\ t.call = IF u.call = "none" THEN "none" ELSE "cancelled"
               /\ t.stream = u.stream /\ t.heavyCalls = u.heavyCalls
               /\ t.errors = u.errors /\ t.decisions = u.decisions
BY DEF Stopped, RequestState, Same

LEMMA NextRouteFails ==
    ASSUME IInv, NEW r \in Requests, RouteFails(r)
    PROVE  IInv'
<1>. DEFINE s == req[r]
<1>1. s \in RequestState /\ Ongoing(s) /\ s.pc = "route" /\ ~At(r, "done")
  BY OngoingState DEF RouteFails, At
<1>2. PICK u \in Speculated(s) : Become(r, Failed(Stopped(u), "drafterFailed", "internal"))
  BY DEF RouteFails
<1>. DEFINE v == Stopped(u)
<1>3. /\ v \in RequestState /\ Same(s, v) /\ v.decisions = <<>> /\ v.errors = {}
      /\ v.call \in {"none", "cancelled"}
      /\ v.heavyCalls = IF v.call = "none" THEN 0 ELSE 1
      /\ cfg.speculative \/ v.stream = v.asked
  BY <1>1, SpeculatedOk, StoppedOk DEF Same
<1>. HIDE DEF v
<1>4. StateOk(Failed(v, "drafterFailed", "internal"))
  BY <1>1, <1>3 DEF StateOk, RequestState, Failed, Failures, Ongoing, Unrouted, Same
<1>. QED
  BY <1>1, <1>2, <1>4, QuietStep DEF RouteFails, v

LEMMA NextRouteEscalates ==
    ASSUME IInv, NEW r \in Requests, RouteEscalates(r)
    PROVE  IInv'
<1>. DEFINE s == req[r]
<1>1. s \in RequestState /\ Ongoing(s) /\ s.pc = "route" /\ ~At(r, "done")
  BY OngoingState DEF RouteEscalates, At
<1>2. PICK u \in Speculated(s) :
         Become(r, [Decide(u, "escalate") EXCEPT
                       !.pc = "escalated", !.call = IF @ = "running" THEN "handed" ELSE @])
  BY DEF RouteEscalates
<1>. DEFINE v == Decide(u, "escalate")
            t == [v EXCEPT !.pc = "escalated", !.call = IF @ = "running" THEN "handed" ELSE @]
<1>3. /\ v \in RequestState /\ Same(s, v) /\ v.decisions = <<"escalate">> /\ v.errors = {}
      /\ v.call \in {"none", "running"}
      /\ v.heavyCalls = IF v.call = "none" THEN 0 ELSE 1
  BY <1>1, SpeculatedOk, DecideOk DEF Same, Decisions
<1>. HIDE DEF v
<1>4. StateOk(t)
  <2>. DEFINE k == IF v.call = "running" THEN "handed" ELSE v.call
              w == [v EXCEPT !.pc = "escalated"]
  <2>1. k \in {"none", "handed"} /\ (k = "none" <=> v.call = "none")
    BY <1>3
  <2>2. t = [w EXCEPT !.call = k]
    BY <1>3 DEF RequestState
  <2>3. w \in RequestState
    BY <1>3 DEF RequestState
  <2>. HIDE DEF k, t
  <2>4. /\ t.pc = "escalated" /\ t.call = k /\ t.decisions = v.decisions /\ t.errors = v.errors
        /\ t.heavyCalls = v.heavyCalls /\ t.counted = v.counted /\ t.reply = v.reply
    BY <1>3, <2>2 DEF RequestState
  <2>. HIDE DEF w
  <2>5. t \in RequestState
    BY <2>1, <2>2, <2>3, EndFields
  <2>6. Ongoing(t)
    BY <1>1, <1>3, <2>1, <2>4 DEF Ongoing, Unrouted, Same
  <2>. QED
    BY <2>4, <2>5, <2>6 DEF StateOk
<1>. QED
  BY <1>1, <1>2, <1>4, QuietStep DEF RouteEscalates, v

LEMMA NextRouteAccepts ==
    ASSUME IInv, NEW r \in Requests, RouteAccepts(r)
    PROVE  IInv'
<1>. DEFINE s == req[r]
<1>1. s \in RequestState /\ Ongoing(s) /\ s.pc = "route" /\ ~At(r, "done")
  BY OngoingState DEF RouteAccepts, At
<1>2. PICK u \in Speculated(s), e \in Extents :
         LET draft == Answer("draft", Named(s.model, "drafter"), e)
         IN  /\ inserts' = IF cfg.caching THEN inserts \cup {draft} ELSE inserts
             /\ Become(r, Finish(Decide(Stopped(u), "accept"),
                                 Ok(Mode(s.asked), "accept", draft)))
  BY DEF RouteAccepts
<1>. DEFINE draft == Answer("draft", Named(s.model, "drafter"), e)
            v == Decide(Stopped(u), "accept")
<1>3. /\ v \in RequestState /\ Same(s, v) /\ v.decisions = <<"accept">> /\ v.errors = {}
      /\ v.call \in {"none", "cancelled"}
      /\ v.heavyCalls = IF v.call = "none" THEN 0 ELSE 1
  BY <1>1, SpeculatedOk, StoppedOk, DecideOk DEF Same, Decisions
<1>. HIDE DEF v
<1>4. draft \in Answers /\ draft.source = "draft"
  <2>1. Named(s.model, "drafter") \in {"drafter", "heavyweight", "named"}
    BY <1>1 DEF Named, RequestState
  <2>. QED
    BY <2>1 DEF Answer, Answers, Extents
<1>. HIDE DEF draft
<1>5. /\ StateOk(Finish(v, Ok(Mode(s.asked), "accept", draft)))
      /\ Finish(v, Ok(Mode(s.asked), "accept", draft)).reply = Ok(Mode(s.asked), "accept", draft)
  <2>1. v.decisions # <<>> /\ v.decisions[Len(v.decisions)] = "accept"
        /\ {v.decisions[i] : i \in DOMAIN v.decisions} = {"accept"}
    BY <1>3, Tuples
  <2>2. v.counted = <<>> /\ v.pc # "done" /\ v.asked = s.asked
    BY <1>1, <1>3, OngoingPlain DEF Same
  <2>3. Suits(v, Mode(s.asked), "accept", draft)
    BY <1>3, <1>4, <2>1, <2>2 DEF Suits, CalledOnce
  <2>. QED
    BY <1>3, <1>4, <2>2, <2>3, AnswerOk DEF Mode, Decisions
<1>. DEFINE t == Finish(v, Ok(Mode(s.asked), "accept", draft))
<1>6. t.reply.header = "accept" /\ t.reply.answer = draft
  BY <1>5 DEF Ok
<1>7. Become(r, t) /\ inserts' \subseteq inserts \cup {draft} /\ UNCHANGED <<cfg, cache>>
  BY <1>2 DEF RouteAccepts, v, draft
<1>. HIDE DEF t
<1>. QED
  BY <1>1, <1>4, <1>5, <1>6, <1>7, BecomeKeeps DEF IInv, TypeOK, t

-----------------------------------------------------------------------------
(***************************************************************************)
(* The heavyweight and the fallbacks.                                      *)
(***************************************************************************)
LEMMA HeavyAnswerOk ==
    ASSUME NEW s \in RequestState, NEW e \in Extents
    PROVE  /\ HeavyAnswer(s, e) \in Answers
           /\ HeavyAnswer(s, e).source = "heavy" /\ HeavyAnswer(s, e).extent = e
<1>1. Named(s.model, "heavyweight") \in {"drafter", "heavyweight", "named"}
  BY DEF Named, RequestState
<1>. QED
  BY <1>1 DEF HeavyAnswer, Answer, Answers, Extents

\* A request under an escalation, before its reply.
UnderEscalation(s) ==
    /\ s \in RequestState /\ s.pc # "done" /\ s.counted = <<>> /\ s.reply = NoReply
    /\ s.decisions = <<"escalate">> /\ s.call \in {"none", "handed"}

LEMMA EscalatedAnswerOk ==
    ASSUME NEW s, UnderEscalation(s), s.errors \subseteq {"stream_error"},
           s.heavyCalls \in {0, 1}, NEW e \in Extents,
           NEW mode, mode = Mode(s.asked), mode = "sse" => e # "empty"
    PROVE  StateOk(Finish(s, Ok(mode, "escalate", HeavyAnswer(s, e))))
<1>1. mode \in {"json", "sse"}
  BY DEF Mode
<1>2. s.decisions # <<>> /\ s.decisions[Len(s.decisions)] = "escalate"
      /\ {s.decisions[i] : i \in DOMAIN s.decisions} = {"escalate"}
  BY Tuples DEF UnderEscalation
<1>3. s.errors \cap Failures = {} /\ s.call \in {"none", "handed"} /\ s \in RequestState
  BY DEF Failures, UnderEscalation
<1>4. Suits(s, mode, "escalate", HeavyAnswer(s, e))
  BY <1>2, <1>3, HeavyAnswerOk DEF Suits, CalledOnce
<1>. QED
  BY <1>1, <1>4, AnswerOk, HeavyAnswerOk DEF UnderEscalation, Decisions

LEMMA HeavyFailedOk ==
    ASSUME NEW s, UnderEscalation(s), s.errors = {}, s.heavyCalls = 1,
           NEW f \in Failures, f = "timeout" => s.gone
    PROVE  StateOk(Failed(s, "heavyFailed", f))
BY DEF UnderEscalation, Failed, StateOk, RequestState, Ongoing, Unrouted

LEMMA EscalatedIs ==
    ASSUME IInv, NEW r \in Requests, req[r].pc \in {"escalated", "firstChunk", "heavyFailed"}
    PROVE  /\ UnderEscalation(req[r]) /\ req[r].errors = {} /\ Ongoing(req[r])
           /\ req[r].heavyCalls =
                 IF req[r].pc = "escalated" /\ req[r].call = "none" THEN 0 ELSE 1
BY OngoingState DEF UnderEscalation, Ongoing, At

LEMMA NextAssemble ==
    ASSUME IInv, NEW r \in Requests, AssembleHeavy(r)
    PROVE  IInv'
<1>. DEFINE s == req[r]
<1>1. /\ UnderEscalation(s) /\ s.errors = {} /\ s.heavyCalls = 1
      /\ s.pc = "escalated" /\ ~s.asked /\ ~At(r, "done")
  BY EscalatedIs DEF AssembleHeavy, At, UnderEscalation
<1>2. ASSUME NEW e \in Extents,
             Become(r, Finish(s, Ok("json", "escalate", HeavyAnswer(s, e))))
      PROVE  IInv'
  <2>1. StateOk(Finish(s, Ok("json", "escalate", HeavyAnswer(s, e))))
    BY <1>1, EscalatedAnswerOk DEF Mode
  <2>. QED
    BY <1>1, <1>2, <2>1, QuietStep DEF AssembleHeavy
<1>3. CASE Become(r, Failed(s, "heavyFailed", "internal"))
  <2>1. StateOk(Failed(s, "heavyFailed", "internal"))
    BY <1>1, HeavyFailedOk DEF Failures
  <2>. QED
    BY <1>1, <1>3, <2>1, QuietStep DEF AssembleHeavy
<1>. QED
  BY <1>2, <1>3 DEF AssembleHeavy

\* A call the escalation makes itself.
LEMMA EscalationCalls ==
    ASSUME IInv, NEW r \in Requests, At(r, "escalated"), req[r].call # "handed",
           NEW b \in BOOLEAN
    PROVE  LET s == CallHeavy(req[r], b)
           IN  /\ UnderEscalation(s) /\ s.errors = {} /\ s.heavyCalls = 1 /\ Same(req[r], s)
               /\ s.call = "none"
<1>1. UnderEscalation(req[r]) /\ req[r].errors = {} /\ req[r].heavyCalls = 0 /\ req[r].call = "none"
  BY EscalatedIs DEF At, UnderEscalation
<1>. DEFINE s == CallHeavy(req[r], b)
<1>2. /\ s \in RequestState /\ Same(req[r], s) /\ s.call = req[r].call
      /\ s.heavyCalls = req[r].heavyCalls + 1
      /\ s.decisions = req[r].decisions /\ s.errors = req[r].errors
  BY <1>1, CallHeavyOk DEF UnderEscalation
<1>. HIDE DEF s
<1>3. UnderEscalation(s)
  BY <1>1, <1>2 DEF UnderEscalation, Same
<1>. QED
  BY <1>1, <1>2, <1>3 DEF s

LEMMA NextComplete ==
    ASSUME IInv, NEW r \in Requests, CompleteHeavy(r)
    PROVE  IInv'
<1>. DEFINE s == CallHeavy(req[r], FALSE)
<1>1. /\ UnderEscalation(s) /\ s.errors = {} /\ s.heavyCalls = 1
      /\ ~s.asked /\ ~At(r, "done")
  BY EscalationCalls DEF CompleteHeavy, At, Same
<1>2. \/ Become(r, Finish(s, Ok("json", "escalate", HeavyAnswer(s, "whole"))))
      \/ \E f \in CallFailures(s) : Become(r, Failed(s, "heavyFailed", f))
  BY DEF CompleteHeavy
<1>. HIDE DEF s
<1>3. CASE Become(r, Finish(s, Ok("json", "escalate", HeavyAnswer(s, "whole"))))
  <2>1. StateOk(Finish(s, Ok("json", "escalate", HeavyAnswer(s, "whole"))))
    BY <1>1, EscalatedAnswerOk DEF Mode, Extents
  <2>. QED
    BY <1>1, <1>3, <2>1, QuietStep DEF CompleteHeavy
<1>4. ASSUME NEW f \in CallFailures(s), Become(r, Failed(s, "heavyFailed", f))
      PROVE  IInv'
  <2>1. StateOk(Failed(s, "heavyFailed", f))
    BY <1>1, HeavyFailedOk, CallFailure
  <2>. QED
    BY <1>1, <1>4, <2>1, QuietStep DEF CompleteHeavy
<1>. QED
  BY <1>2, <1>3, <1>4

LEMMA FirstChunkOk ==
    ASSUME NEW s, UnderEscalation(s), s.errors = {}, s.heavyCalls = 1, s.asked
    PROVE  StateOk([s EXCEPT !.pc = "firstChunk"])
BY DEF UnderEscalation, StateOk, RequestState, Ongoing, Unrouted

LEMMA NextStream ==
    ASSUME IInv, NEW r \in Requests, StreamHeavy(r)
    PROVE  IInv'
<1>1. ~At(r, "done") /\ At(r, "escalated") /\ req[r].asked
  BY DEF StreamHeavy, At
<1>2. CASE req[r].call = "handed"
  <2>1. UnderEscalation(req[r]) /\ req[r].errors = {} /\ req[r].heavyCalls = 1
    BY <1>1, <1>2, EscalatedIs DEF At
  <2>2. StateOk([req[r] EXCEPT !.pc = "firstChunk"])
    BY <1>1, <2>1, FirstChunkOk
  <2>. QED
    BY <1>1, <1>2, <2>2, QuietStep DEF StreamHeavy
<1>3. CASE req[r].call # "handed"
  <2>. DEFINE s == CallHeavy(req[r], TRUE)
  <2>1. UnderEscalation(s) /\ s.errors = {} /\ s.heavyCalls = 1 /\ s.asked
    BY <1>1, <1>3, EscalationCalls DEF Same
  <2>2. \/ Become(r, [s EXCEPT !.pc = "firstChunk"])
        \/ \E f \in CallFailures(s) : Become(r, Failed(s, "heavyFailed", f))
    BY <1>3 DEF StreamHeavy
  <2>. HIDE DEF s
  <2>3. CASE Become(r, [s EXCEPT !.pc = "firstChunk"])
    <3>1. StateOk([s EXCEPT !.pc = "firstChunk"])
      BY <2>1, FirstChunkOk
    <3>. QED
      BY <1>1, <2>3, <3>1, QuietStep DEF StreamHeavy
  <2>4. ASSUME NEW f \in CallFailures(s), Become(r, Failed(s, "heavyFailed", f))
        PROVE  IInv'
    <3>1. StateOk(Failed(s, "heavyFailed", f))
      BY <2>1, HeavyFailedOk, CallFailure
    <3>. QED
      BY <1>1, <2>4, <3>1, QuietStep DEF StreamHeavy
  <2>. QED
    BY <2>2, <2>3, <2>4
<1>. QED
  BY <1>2, <1>3

LEMMA NextFirstChunk ==
    ASSUME IInv, NEW r \in Requests, FirstChunk(r)
    PROVE  IInv'
<1>. DEFINE s == req[r]
<1>1. /\ UnderEscalation(s) /\ s.errors = {} /\ s.heavyCalls = 1 /\ s.asked
      /\ s.pc = "firstChunk" /\ ~At(r, "done")
  BY EscalatedIs DEF FirstChunk, At, Ongoing
<1>2. ASSUME NEW e \in {"whole", "cut"}, NEW t \in Streamed(s, "escalate", e), Become(r, t)
      PROVE  IInv'
  <2>1. PICK u \in {s, RecordError(s, "stream_error")} :
           t = Finish(u, Ok("sse", "escalate", HeavyAnswer(u, e)))
    BY <1>2 DEF Streamed
  <2>2. /\ UnderEscalation(u) /\ u.errors \subseteq {"stream_error"}
        /\ u.heavyCalls = 1 /\ u.asked
    BY <1>1, <2>1, RecordErrorOk DEF ErrorTypes, Same, UnderEscalation
  <2>3. StateOk(t)
    BY <2>1, <2>2, EscalatedAnswerOk DEF Mode, Extents
  <2>. QED
    BY <1>1, <1>2, <2>3, QuietStep DEF FirstChunk
<1>3. CASE Become(r, Failed(s, "heavyFailed", "internal"))
  <2>1. StateOk(Failed(s, "heavyFailed", "internal"))
    BY <1>1, HeavyFailedOk DEF Failures
  <2>. QED
    BY <1>1, <1>3, <2>1, QuietStep DEF FirstChunk
<1>. QED
  BY <1>2, <1>3 DEF FirstChunk

LEMMA NextRerun ==
    ASSUME IInv, NEW r \in Requests, Rerun(r)
    PROVE  IInv'
<1>. DEFINE s == req[r]
            v == Decide(CountedFailure(s), "fallback_draft")
<1>1. /\ UnderEscalation(s) /\ s.errors = {} /\ s.heavyCalls = 1 /\ ~At(r, "done")
  BY EscalatedIs DEF Rerun, At
<1>2. PICK e \in {"whole", "cut"} :
         Become(r, DraftServed(s, Answer("rerun", Named(s.model, "drafter"), e)))
  BY DEF Rerun
<1>. DEFINE answer == Answer("rerun", Named(s.model, "drafter"), e)
<1>3. answer \in Answers /\ answer.source = "rerun" /\ answer.extent # "empty"
  <2>1. Named(s.model, "drafter") \in {"drafter", "heavyweight", "named"}
    BY <1>1 DEF Named, RequestState, UnderEscalation
  <2>. QED
    BY <2>1 DEF Answer, Answers, Extents
<1>4. /\ v \in RequestState /\ Same(s, v) /\ v.call = s.call /\ v.heavyCalls = 1
      /\ v.errors = {"heavyweight_fallback"} /\ v.decisions = <<"escalate", "fallback_draft">>
  <2>. DEFINE u == CountedFailure(s)
  <2>1. /\ u \in RequestState /\ Same(s, u) /\ u.call = s.call /\ u.heavyCalls = s.heavyCalls
        /\ u.decisions = <<"escalate">> /\ u.errors = {"heavyweight_fallback"}
    BY <1>1, RecordErrorOk DEF CountedFailure, ErrorTypes, UnderEscalation
  <2>. HIDE DEF u
  <2>2. <<"escalate">> # <<>>
    BY Tuples
  <2>3. /\ v \in RequestState /\ Same(u, v) /\ v.call = u.call
        /\ v.heavyCalls = u.heavyCalls /\ v.errors = u.errors
        /\ v.decisions = <<"escalate", "fallback_draft">>
    BY <2>1, <2>2, DecideOk DEF Decisions, u
  <2>. HIDE DEF v
  <2>. QED
    BY <1>1, <2>1, <2>3 DEF Same
<1>5. DraftServed(s, answer) = Finish(v, Ok(Mode(s.asked), "fallback_draft", answer))
  BY DEF DraftServed
<1>. HIDE DEF v, answer
<1>6. v.decisions # <<>> /\ v.decisions[Len(v.decisions)] = "fallback_draft"
      /\ {v.decisions[i] : i \in DOMAIN v.decisions} = {"escalate", "fallback_draft"}
  BY <1>4, Tuples
<1>7. Suits(v, Mode(s.asked), "fallback_draft", answer)
  BY <1>1, <1>3, <1>4, <1>6 DEF Suits, CalledOnce, Same, Failures, UnderEscalation
<1>8. StateOk(DraftServed(s, answer))
  BY <1>1, <1>3, <1>4, <1>5, <1>7, AnswerOk DEF Mode, Decisions, Same, UnderEscalation
<1>. QED
  BY <1>1, <1>2, <1>8, QuietStep DEF Rerun, answer

LEMMA NextSurfaceHeavy ==
    ASSUME IInv, NEW r \in Requests, SurfaceHeavyError(r)
    PROVE  IInv'
<1>. DEFINE s == req[r]
            u == FailureCounted(s)
<1>1. /\ UnderEscalation(s) /\ s.errors = {} /\ s.heavyCalls = 1 /\ ~At(r, "done")
      /\ s.failure \in Failures /\ (s.failure = "timeout" => s.gone)
  BY EscalatedIs DEF SurfaceHeavyError, At, Ongoing
<1>2. /\ UnderEscalation(u) /\ u.heavyCalls = 1 /\ u.gone = s.gone
      /\ u.errors = IF cfg.serveDraftOnHeavyError THEN {"heavyweight_fallback"} ELSE {}
  <2>1. CASE cfg.serveDraftOnHeavyError
    <3>. DEFINE v == RecordError(s, "heavyweight_fallback")
    <3>1. u = v
      BY <2>1 DEF FailureCounted, CountedFailure
    <3>2. s \in RequestState /\ "heavyweight_fallback" \in ErrorTypes
      BY <1>1 DEF UnderEscalation, ErrorTypes
    <3>3. /\ v \in RequestState /\ Same(s, v) /\ v.call = s.call /\ v.heavyCalls = s.heavyCalls
          /\ v.decisions = s.decisions /\ v.errors = s.errors \cup {"heavyweight_fallback"}
      BY <3>2, RecordErrorOk
    <3>. HIDE DEF u, v
    <3>. QED
      BY <1>1, <2>1, <3>1, <3>3 DEF UnderEscalation, Same
  <2>2. CASE ~cfg.serveDraftOnHeavyError
    BY <1>1, <2>2 DEF FailureCounted
  <2>. QED
    BY <2>1, <2>2
<1>. HIDE DEF u
<1>3. {u.decisions[i] : i \in DOMAIN u.decisions} = {"escalate"}
  BY <1>2, Tuples DEF UnderEscalation
<1>4. u.errors \cap Failures = {} /\ CalledOnce(u)
  BY <1>2 DEF Failures, CalledOnce
<1>5. StateOk(SurfaceError(u, "heavyweight", s.failure))
  BY <1>1, <1>2, <1>3, <1>4, SurfaceErrorOk DEF UnderEscalation
<1>. QED
  BY <1>1, <1>5, QuietStep DEF SurfaceHeavyError, u

-----------------------------------------------------------------------------
LEMMA DrafterFailedIs ==
    ASSUME IInv, NEW r \in Requests, At(r, "drafterFailed")
    PROVE  LET s == req[r]
           IN  /\ s \in RequestState /\ s.counted = <<>> /\ s.errors = {} /\ s.pc # "done"
               /\ s.decisions = <<>> /\ s.call \in {"none", "cancelled"}
               /\ s.heavyCalls = IF s.call = "none" THEN 0 ELSE 1
               /\ cfg.speculative \/ s.stream = s.asked
               /\ s.failure \in Failures /\ (s.failure = "timeout" => s.gone)
BY OngoingState DEF Ongoing, At

LEMMA NextSurfaceDrafter ==
    ASSUME IInv, NEW r \in Requests, SurfaceDrafterError(r)
    PROVE  IInv'
<1>. DEFINE s == req[r]
<1>1. /\ s \in RequestState /\ s.counted = <<>> /\ s.errors = {} /\ s.pc # "done"
      /\ s.decisions = <<>> /\ s.call \in {"none", "cancelled"}
      /\ s.heavyCalls = IF s.call = "none" THEN 0 ELSE 1
      /\ s.failure \in Failures /\ (s.failure = "timeout" => s.gone)
  BY DrafterFailedIs DEF SurfaceDrafterError
<1>2. {s.decisions[i] : i \in DOMAIN s.decisions} = {}
  BY <1>1, Tuples
<1>3. CalledOnce(s)
  BY <1>1 DEF CalledOnce
<1>4. StateOk(SurfaceError(s, "drafter", s.failure))
  BY <1>1, <1>2, <1>3, SurfaceErrorOk DEF SurfaceDrafterError
<1>. QED
  BY <1>1, <1>4, QuietStep DEF SurfaceDrafterError, At

LEMMA NextFallBack ==
    ASSUME IInv, NEW r \in Requests, FallBackToHeavy(r)
    PROVE  IInv'
<1>. DEFINE s == req[r]
            v == CallHeavy(FallbackDecided(s), s.stream)
<1>1. /\ s \in RequestState /\ s.counted = <<>> /\ s.errors = {} /\ s.pc # "done"
      /\ s.decisions = <<>> /\ s.call \in {"none", "cancelled"}
      /\ s.heavyCalls = IF s.call = "none" THEN 0 ELSE 1
      /\ cfg.speculative \/ s.stream = s.asked
      /\ s.stream \in BOOLEAN /\ s.asked \in BOOLEAN
  BY DrafterFailedIs DEF FallBackToHeavy, RequestState
<1>2. /\ v \in RequestState /\ Same(s, v) /\ v.call = s.call
      /\ v.heavyCalls = IF s.call = "none" THEN 1 ELSE 2
      /\ v.errors = {"drafter_fallback"} /\ v.decisions = <<"fallback_heavyweight">>
      /\ v.stream = s.stream
  <2>. DEFINE u == RecordError(s, "drafter_fallback")
              w == Decide(u, "fallback_heavyweight")
  <2>1. /\ u \in RequestState /\ Same(s, u) /\ u.call = s.call /\ u.heavyCalls = s.heavyCalls
        /\ u.decisions = <<>> /\ u.errors = {"drafter_fallback"}
    BY <1>1, RecordErrorOk DEF ErrorTypes
  <2>. HIDE DEF u
  <2>2. /\ w \in RequestState /\ Same(u, w) /\ w.call = u.call
        /\ w.heavyCalls = u.heavyCalls /\ w.errors = u.errors
        /\ w.decisions = <<"fallback_heavyweight">>
    BY <2>1, DecideOk DEF Decisions
  <2>3. v = CallHeavy(w, s.stream)
    BY DEF FallbackDecided, u
  <2>. HIDE DEF w, v
  <2>4. w.heavyCalls \in {0, 1}
    BY <1>1, <2>1, <2>2
  <2>5. /\ v \in RequestState /\ Same(w, v) /\ v.call = w.call /\ v.stream = s.stream
        /\ v.heavyCalls = w.heavyCalls + 1
        /\ v.decisions = w.decisions /\ v.errors = w.errors
    BY <1>1, <2>2, <2>3, <2>4, CallHeavyOk
  <2>6. v.heavyCalls = IF s.call = "none" THEN 1 ELSE 2
    BY <1>1, <2>1, <2>2, <2>5
  <2>. QED
    BY <2>1, <2>2, <2>5, <2>6 DEF Same
<1>3. {v.decisions[i] : i \in DOMAIN v.decisions} = {"fallback_heavyweight"}
      /\ v.decisions # <<>> /\ v.decisions[Len(v.decisions)] = "fallback_heavyweight"
  BY <1>2, Tuples
<1>4. CalledOnce(v)
  BY <1>1, <1>2 DEF CalledOnce
<1>5. \/ v.stream /\ \E e \in Extents : \E t \in Streamed(v, "fallback_heavyweight", e) : Become(r, t)
      \/ ~v.stream /\ Become(r, Finish(v, Ok("json", "fallback_heavyweight", HeavyAnswer(v, "whole"))))
      \/ \E f \in CallFailures(v) : Become(r, SurfaceError(v, "heavyweight", f))
  BY DEF FallBackToHeavy
<1>. HIDE DEF v
<1>6. ASSUME NEW e \in Extents, NEW t \in Streamed(v, "fallback_heavyweight", e), Become(r, t),
             v.stream
      PROVE  IInv'
  <2>1. PICK u \in {v, RecordError(v, "stream_error")} :
           t = Finish(u, Ok("sse", "fallback_heavyweight", HeavyAnswer(u, e)))
    BY <1>6 DEF Streamed
  <2>2. /\ u \in RequestState /\ Same(v, u) /\ u.call = v.call /\ u.heavyCalls = v.heavyCalls
        /\ u.decisions = v.decisions
        /\ u.errors \in {{"drafter_fallback"}, {"drafter_fallback", "stream_error"}}
    <3>1. CASE u = v
      BY <1>2, <3>1 DEF Same
    <3>2. CASE u = RecordError(v, "stream_error")
      <4>1. "stream_error" \in ErrorTypes
        BY DEF ErrorTypes
      <4>2. /\ u \in RequestState /\ Same(v, u) /\ u.call = v.call /\ u.heavyCalls = v.heavyCalls
            /\ u.decisions = v.decisions /\ u.errors = v.errors \cup {"stream_error"}
        BY <1>2, <3>2, <4>1, RecordErrorOk
      <4>3. u.errors = {"drafter_fallback", "stream_error"}
        BY <1>2, <4>2
      <4>. QED
        BY <4>2, <4>3
    <3>. QED
      BY <2>1, <3>1, <3>2
  <2>3. Suits(u, "sse", "fallback_heavyweight", HeavyAnswer(u, e))
    <3>1. u.errors \cap Failures = {} /\ "drafter_fallback" \in u.errors
          /\ "heavyweight_fallback" \notin u.errors
      BY <2>2 DEF Failures
    <3>2. CalledOnce(u)
      BY <1>4, <2>2 DEF CalledOnce
    <3>3. "sse" # Mode(u.asked) => cfg.speculative
      BY <1>1, <1>2, <1>6, <2>2 DEF Same, Mode
    <3>4. HeavyAnswer(u, e).source = "heavy"
      BY <2>2, HeavyAnswerOk
    <3>. QED
      BY <1>1, <1>2, <1>3, <2>2, <3>1, <3>2, <3>3, <3>4 DEF Suits
  <2>4. StateOk(t)
    BY <1>1, <1>2, <2>1, <2>2, <2>3, AnswerOk, HeavyAnswerOk DEF Decisions, Same
  <2>. QED
    BY <1>1, <1>6, <2>4, QuietStep DEF FallBackToHeavy, At
<1>7. CASE ~v.stream /\ Become(r, Finish(v, Ok("json", "fallback_heavyweight", HeavyAnswer(v, "whole"))))
  <2>1. "whole" \in Extents
    BY DEF Extents
  <2>2. Suits(v, "json", "fallback_heavyweight", HeavyAnswer(v, "whole"))
    BY <1>1, <1>2, <1>3, <1>4, <1>7, <2>1, HeavyAnswerOk DEF Suits, Same, Failures, Mode
  <2>3. StateOk(Finish(v, Ok("json", "fallback_heavyweight", HeavyAnswer(v, "whole"))))
    BY <1>1, <1>2, <2>1, <2>2, AnswerOk, HeavyAnswerOk DEF Decisions, Same
  <2>. QED
    BY <1>1, <1>7, <2>3, QuietStep DEF FallBackToHeavy, At
<1>8. ASSUME NEW f \in CallFailures(v), Become(r, SurfaceError(v, "heavyweight", f))
      PROVE  IInv'
  <2>1. StateOk(SurfaceError(v, "heavyweight", f))
    BY <1>1, <1>2, <1>3, <1>4, CallFailure, SurfaceErrorOk DEF Same, Failures
  <2>. QED
    BY <1>1, <1>8, <2>1, QuietStep DEF FallBackToHeavy, At
<1>. QED
  BY <1>5, <1>6, <1>7, <1>8

LEMMA NextDisconnect ==
    ASSUME IInv, NEW r \in Requests, Disconnect(r)
    PROVE  IInv'
<1>. DEFINE s == req[r]
            t == [s EXCEPT !.gone = TRUE]
<1>1. s \in RequestState /\ Ongoing(s) /\ ~At(r, "done") /\ s.pc # "done"
  BY OngoingState DEF Disconnect, At
<1>2. StateOk(t)
  BY <1>1 DEF StateOk, RequestState, Ongoing, Unrouted
<1>. QED
  BY <1>1, <1>2, QuietStep DEF Disconnect

-----------------------------------------------------------------------------
LEMMA InitInv == Init => IInv
<1> SUFFICES ASSUME Init PROVE IInv
  OBVIOUS
<1>1. PICK m \in {"auto", "named"} : req \in [Requests -> {Fresh(b, m) : b \in BOOLEAN}]
  BY DEF Init
<1>2. ASSUME NEW b \in BOOLEAN
      PROVE  Fresh(b, m) \in RequestState /\ Ongoing(Fresh(b, m)) /\ Fresh(b, m).pc # "done"
  <2>1. NoReply \in Reply
    BY DEF NoReply, Reply
  <2>2. Fresh(b, m) \in RequestState
    BY <2>1 DEF Fresh, RequestState
  <2>3. Ongoing(Fresh(b, m)) /\ Fresh(b, m).pc # "done"
    BY DEF Fresh, Ongoing, Unrouted
  <2>. QED
    BY <2>2, <2>3
<1>3. \A r \in Requests :
         req[r] \in RequestState /\ Ongoing(req[r]) /\ req[r].pc # "done"
  BY <1>1, <1>2
<1>4. TypeOK
  BY <1>1, <1>3 DEF Init, TypeOK
<1>. QED
  BY <1>3, <1>4 DEF Init, IInv, OnlyAcceptedDraftsCached, At

LEMMA NextInv == IInv /\ [Next]_vars => IInv'
<1> SUFFICES ASSUME IInv, [Next]_vars PROVE IInv'
  OBVIOUS
<1>1. ASSUME NEW r \in Requests, Handle(r) PROVE IInv'
  BY <1>1, NextRefuse, NextAccept, NextHit, NextMiss, NextDrafter, NextRouteFails,
     NextRouteEscalates, NextRouteAccepts, NextAssemble, NextComplete, NextStream,
     NextFirstChunk, NextRerun, NextSurfaceHeavy, NextSurfaceDrafter, NextFallBack
  DEF Handle
<1>2. ASSUME NEW r \in Requests, Disconnect(r) PROVE IInv'
  BY <1>2, NextDisconnect
<1>3. ASSUME UNCHANGED <<cfg, req>>, cache' \cup inserts' \subseteq cache \cup inserts PROVE IInv'
  <2>1. TypeOK' /\ OnlyAcceptedDraftsCached'
    BY <1>3 DEF IInv, TypeOK, OnlyAcceptedDraftsCached
  <2>2. \A r \in Requests : (IF At(r, "done") THEN Ended(req[r]) ELSE Ongoing(req[r]))'
    BY <1>3 DEF IInv, At, Ended, Ongoing, Surfaces, InMode, Counted
  <2>. QED
    BY <2>1, <2>2 DEF IInv
<1>4. Insert \/ Expire \/ UNCHANGED vars => IInv'
  BY <1>3 DEF Insert, Expire, vars
<1>. QED
  BY <1>1, <1>2, <1>4 DEF Next

\* What holds of each request at each place of its handler, of what is cached
\* and of the counters, for any number of requests and every configuration.
THEOREM Inductive == Spec => []IInv
BY InitInv, NextInv, PTL DEF Spec

\* A request that is not done has no reply yet, so that each property of
\* replies need only be looked at when the handler returns.
LEMMA OngoingIsFine ==
    ASSUME NEW s, Ongoing(s), s \in RequestState, s.pc # "done"
    PROVE  ~Answered(s) /\ Surfaces(s) /\ CalledOnce(s)
<1>1. s.reply.mode = "none" /\ s.reply.error = None
  BY DEF Ongoing, NoReply
<1>2. s.heavyCalls \in {0, 1}
  BY DEF Ongoing, Unrouted, RequestState
<1>. QED
  BY <1>1, <1>2, NoneAssumption DEF Answered, Surfaces, CalledOnce

\* Only accepted drafts are ever stored for other clients.
THEOREM AcceptedDraftsCached == Spec => []OnlyAcceptedDraftsCached
<1>1. IInv => OnlyAcceptedDraftsCached
  BY DEF IInv
<1>. QED
  BY <1>1, Inductive, PTL

\* The X-Routing-Decision header names the last decision the metrics counted
\* and the provider whose answer the client got.
THEOREM RepliesSayWhatTheyAre == Spec => []ReplyIsWhatItSays
<1>1. IInv => ReplyIsWhatItSays
  BY OngoingIsFine DEF IInv, TypeOK, ReplyIsWhatItSays, Ended, At
<1>. QED
  BY <1>1, Inductive, PTL

\* drafterFailed and heavyweightFailed surface the heavyweight's error when it
\* was asked, and the drafter's only with its fallback disabled.
THEOREM HeavyErrorsSurface == Spec => []HeavyErrorSurfaces
<1>1. IInv => HeavyErrorSurfaces
  BY OngoingIsFine DEF IInv, TypeOK, HeavyErrorSurfaces, Ended, At
<1>. QED
  BY <1>1, Inductive, PTL

\* HeavyCancel is called on every way out of a handler that was handed a call.
THEOREM CallsReleased == Spec => []CallReleased
<1>1. IInv => CallReleased
  BY DEF IInv, CallReleased, Ended
<1>. QED
  BY <1>1, Inductive, PTL

\* The heavyweight is asked a second time only after speculation's call was
\* cancelled and the drafter failed.
THEOREM HeavyIsCalledOnce == Spec => []HeavyCalledOnce
<1>1. IInv => HeavyCalledOnce
  BY OngoingIsFine DEF IInv, TypeOK, HeavyCalledOnce, Ended, At
<1>. QED
  BY <1>1, Inductive, PTL

\* A client gets the body it asked for, but for the fallback of a speculative
\* request.
THEOREM ModesAreAsked == Spec => []ModeIsAsked
<1>1. IInv => ModeIsAsked
  BY OngoingIsFine DEF IInv, TypeOK, ModeIsAsked, InMode, Ended, At
<1>. QED
  BY <1>1, Inductive, PTL

\* requests_total, errors_total and routing_decisions_total agree with what
\* the client was sent, and the variables keep their types.
THEOREM CountersAgreed == Spec => []CountersAgree
<1>1. IInv => CountersAgree
  BY DEF IInv, CountersAgree, Ended
<1>. QED
  BY <1>1, Inductive, PTL

=============================================================================
