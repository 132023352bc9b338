----------------------- MODULE SpeculativeExecutorProofs -----------------------
(***************************************************************************)
(* Theorems about the speculative executor, for every size of the channel, *)
(* length of a body, set of chunks and setting of the window.              *)
(***************************************************************************)
EXTENDS SpeculativeExecutorProps, WindowProofs

-----------------------------------------------------------------------------
\* What a receive and a send do to a channel's buffer.
LEMMA ReceiveBuffer ==
  ASSUME NEW S, NEW s \in Seq(S), s # <<>>
  PROVE  /\ Head(s) = s[1] /\ Head(s) \in S
         /\ Tail(s) \in Seq(S) /\ Len(Tail(s)) = Len(s) - 1
         /\ \A i \in 1 .. Len(s) - 1 : Tail(s)[i] = s[i + 1]
  OBVIOUS

LEMMA OneItem ==
  ASSUME NEW S, NEW p, p = <<>> \/ \E c \in S : p = <<c>>, Len(p) = 1
  PROVE  \E c \in S : p = <<c>>
<1>1. Len(<<>>) = 0
  OBVIOUS
<1> QED BY <1>1

LEMMA SendBuffer ==
  ASSUME NEW S, NEW s \in Seq(S), NEW x \in S
  PROVE  /\ Append(s, x) = s \o <<x>>
         /\ s \o <<x>> \in Seq(S) /\ Len(s \o <<x>>) = Len(s) + 1
         /\ \A i \in 1 .. Len(s) : (s \o <<x>>)[i] = s[i]
         /\ (s \o <<x>>)[Len(s) + 1] = x
  OBVIOUS

-----------------------------------------------------------------------------
\* The steps of a call's goroutine and of its reader keep the call's types.
LEMMA DrafterType ==
  ASSUME drafter \in D!StreamState, D!Produce \/ D!Receive
  PROVE  drafter' \in D!StreamState
<1> DEFINE Items == DraftChunks \cup {Err}
           Pendings == {<<>>} \cup {<<c>> : c \in DraftChunks}
<1>a. D!StreamState =
         [phase : {"idle", "scanning", "offering", "failing", "closed"},
          pending : Pendings, ch : Seq(Items),
          ending : {"open", "done", "eof", "aborted", "error"}, scanned : Nat]
  BY DEF D!StreamState
<1>b. <<>> \in Pendings /\ \A c \in DraftChunks : <<c>> \in Pendings
  OBVIOUS
<1>c. Pendings \subseteq Seq(Items)
  <2>1. \A c \in DraftChunks : <<c>> \in Seq(Items)
    OBVIOUS
  <2>2. \A p \in Pendings : p = <<>> \/ \E c \in DraftChunks : p = <<c>>
    OBVIOUS
  <2>3. <<>> \in Seq(Items)
    OBVIOUS
  <2> HIDE DEF Pendings, Items
  <2> QED BY <2>1, <2>2, <2>3
<1>d. Err \in Items
  OBVIOUS
<1> HIDE DEF Pendings, Items
<1> USE <1>a, <1>b
<1>1. CASE D!ScanChunk
  <2>1. PICK c \in DraftChunks : drafter' = [drafter EXCEPT !.phase = "offering", !.pending = <<c>>,
                                                   !.scanned = @ + 1]
    BY <1>1 DEF D!ScanChunk
  <2>2. <<c>> \in Pendings
    OBVIOUS
  <2>3. drafter.scanned + 1 \in Nat
    OBVIOUS
  <2> QED BY <2>1, <2>2, <2>3
<1>2. CASE D!ScanDone \/ D!ScanEOF \/ D!ScanFail \/ D!OfferAborted
  BY <1>2 DEF D!ScanDone, D!ScanEOF, D!ScanFail, D!OfferAborted
<1>3. CASE D!Offer
  <2>1. drafter.ch \o drafter.pending \in Seq(Items)
    BY <1>c, ConcatProperties
  <2> QED BY <1>3, <2>1 DEF D!Offer
<1>4. CASE D!SendErr
  <2>1. Append(drafter.ch, Err) \in Seq(Items)
    BY <1>d
  <2> QED BY <1>4, <2>1 DEF D!SendErr
<1>5. CASE D!Receive
  <2>1. Tail(drafter.ch) \in Seq(Items)
    BY <1>5 DEF D!Receive
  <2> QED BY <1>5, <2>1 DEF D!Receive
<1> QED BY <1>1, <1>2, <1>3, <1>4, <1>5 DEF D!Produce

LEMMA HeavyType ==
  ASSUME heavy \in H!StreamState, H!Produce \/ H!Receive
  PROVE  heavy' \in H!StreamState /\ (H!Started' <=> H!Started)
<1> DEFINE Items == HeavyChunks \cup {Err}
           Pendings == {<<>>} \cup {<<c>> : c \in HeavyChunks}
<1>a. H!StreamState =
         [phase : {"idle", "scanning", "offering", "failing", "closed"},
          pending : Pendings, ch : Seq(Items),
          ending : {"open", "done", "eof", "aborted", "error"}, scanned : Nat]
  BY DEF H!StreamState
<1>b. <<>> \in Pendings /\ \A c \in HeavyChunks : <<c>> \in Pendings
  OBVIOUS
<1>c. Pendings \subseteq Seq(Items)
  <2>1. \A c \in HeavyChunks : <<c>> \in Seq(Items)
    OBVIOUS
  <2>2. \A p \in Pendings : p = <<>> \/ \E c \in HeavyChunks : p = <<c>>
    OBVIOUS
  <2>3. <<>> \in Seq(Items)
    OBVIOUS
  <2> HIDE DEF Pendings, Items
  <2> QED BY <2>1, <2>2, <2>3
<1>d. Err \in Items
  OBVIOUS
<1> HIDE DEF Pendings, Items
<1> USE <1>a, <1>b DEF H!Started
<1>1. CASE H!ScanChunk
  <2>1. PICK c \in HeavyChunks : heavy' = [heavy EXCEPT !.phase = "offering", !.pending = <<c>>,
                                                   !.scanned = @ + 1]
    BY <1>1 DEF H!ScanChunk
  <2>a. heavy.phase = "scanning"
    BY <1>1 DEF H!ScanChunk
  <2>2. <<c>> \in Pendings
    OBVIOUS
  <2>3. heavy.scanned + 1 \in Nat
    OBVIOUS
  <2> QED BY <2>1, <2>a, <2>2, <2>3
<1>2. CASE H!ScanDone \/ H!ScanEOF \/ H!ScanFail \/ H!OfferAborted
  BY <1>2 DEF H!ScanDone, H!ScanEOF, H!ScanFail, H!OfferAborted
<1>3. CASE H!Offer
  <2>1. heavy.ch \o heavy.pending \in Seq(Items)
    BY <1>c, ConcatProperties
  <2> QED BY <1>3, <2>1 DEF H!Offer
<1>4. CASE H!SendErr
  <2>1. Append(heavy.ch, Err) \in Seq(Items)
    BY <1>d
  <2> QED BY <1>4, <2>1 DEF H!SendErr
<1>5. CASE H!Receive
  <2>1. Tail(heavy.ch) \in Seq(Items)
    BY <1>5 DEF H!Receive
  <2> QED BY <1>5, <2>1 DEF H!Receive
<1> QED BY <1>1, <1>2, <1>3, <1>4, <1>5 DEF H!Produce

-----------------------------------------------------------------------------
LEMMA InitInv == Init => IInv
<1> SUFFICES ASSUME Init PROVE IInv
  OBVIOUS
<1> USE DEF Init
<1>1. TypeOK /\ TokenInv
  <2>1. D!NoStream \in D!StreamState
    BY DEF D!NoStream, D!StreamState
  <2>2. drafter \in D!StreamState
    BY <2>1 DEF D!StreamState
  <2>3. heavy \in H!StreamState
    BY DEF H!NoStream, H!StreamState
  <2>4. tokens \in Seq(Nat) /\ entropies \in Seq(Nat) /\ drafted \in Nat
    OBVIOUS
  <2>5. pc = "select" /\ state = "drafting" /\ drains = {} /\ ctxDone \in BOOLEAN
        /\ hvCancelled \in BOOLEAN /\ handed \in BOOLEAN /\ softTriggered \in BOOLEAN
    OBVIOUS
  <2> HIDE DEF Init
  <2> QED BY <2>2, <2>3, <2>4, <2>5 DEF TypeOK, TokenInv
<1>2. VerdictInv /\ CallInv
  BY DEF VerdictInv, CallInv, Undecided, Unjudged, Returned, H!Started, H!NoStream
<1>3. GoroutineInv /\ DraftInv /\ AcceptInv
  BY DEF GoroutineInv, DraftInv, AcceptInv, AcceptedDraftIsJudged, D!NoStream
<1> QED BY <1>1, <1>2, <1>3 DEF IInv

LEMMA NextType == TypeOK /\ TokenInv /\ [Next]_vars => (TypeOK /\ TokenInv)'
<1> SUFFICES ASSUME TypeOK, TokenInv, [Next]_vars PROVE (TypeOK /\ TokenInv)'
  OBVIOUS
<1> USE ExecutorAssumption DEF TypeOK, TokenInv
<1>1. CASE CtxReturn \/ AcceptDraft
  BY <1>1 DEF CtxReturn, AcceptDraft, StopHeavy
<1>2. CASE DrafterError
  <2>1. drafter' \in D!StreamState
    BY <1>2, DrafterType DEF DrafterError
  <2> QED BY <1>2, <2>1 DEF DrafterError, StopHeavy
<1>3. CASE ReceiveChunk
  <2>1. drafter' \in D!StreamState
    BY <1>3, DrafterType DEF ReceiveChunk
  <2>2. Head(drafter.ch) \in DraftChunks
    BY <1>3, ReceiveBuffer DEF ReceiveChunk, D!Receive, D!StreamState
  <2> QED BY <1>3, <2>1, <2>2 DEF ReceiveChunk
<1>4. CASE EscalateDraft \/ TriggerSpeculation \/ KeepDrafting
  <2>1. Head(tokens) \in Nat /\ Tail(tokens) \in Seq(Nat)
    BY <1>4, ReceiveBuffer DEF EscalateDraft, TriggerSpeculation, KeepDrafting, Score
  <2>2. Score
    BY <1>4 DEF EscalateDraft, TriggerSpeculation, KeepDrafting
  <2>3. entropies' \in Seq(Nat)
    BY <2>1, <2>2 DEF Score
  <2> QED BY <1>4, <2>1, <2>3
       DEF EscalateDraft, TriggerSpeculation, KeepDrafting, Score, AfterToken
<1>5. CASE StartHeavy
  BY <1>5 DEF StartHeavy, H!Open, H!StreamState
<1>6. CASE StartHeavyFails
  BY <1>6 DEF StartHeavyFails
<1>7. CASE DrafterGoroutine \/ DrainDrafter
  BY <1>7, DrafterType DEF DrafterGoroutine, DrainDrafter, others
<1>8. CASE HeavyGoroutine \/ DrainHeavy \/ CallerReads
  BY <1>8, HeavyType DEF HeavyGoroutine, DrainHeavy, CallerReads, others
<1>9. CASE ContextDone \/ UNCHANGED vars
  BY <1>9 DEF ContextDone, others, vars
<1> QED BY <1>1, <1>2, <1>3, <1>4, <1>5, <1>6, <1>7, <1>8, <1>9 DEF Next, Execute

\* The verdict, and who owns the speculative call.
LEMMA NextCall ==
  TypeOK /\ VerdictInv /\ CallInv /\ [Next]_vars => (VerdictInv /\ CallInv)'
<1> SUFFICES ASSUME TypeOK, VerdictInv, CallInv, [Next]_vars
             PROVE  (VerdictInv /\ CallInv)'
  OBVIOUS
<1> USE DEF TypeOK, VerdictInv, CallInv, Undecided, Unjudged, Returned, HandedCallIsLive
<1>1. CASE CtxReturn \/ AcceptDraft \/ DrafterError
  BY <1>1 DEF CtxReturn, AcceptDraft, DrafterError, StopHeavy, H!Started
<1>2. CASE ReceiveChunk
  BY <1>2 DEF ReceiveChunk, H!Started
<1>3. CASE EscalateDraft
  BY <1>3 DEF EscalateDraft, Score, H!Started
<1>4. CASE TriggerSpeculation
  BY <1>4 DEF TriggerSpeculation, Score, SoftCrossed, H!Started
<1>5. CASE KeepDrafting
  BY <1>5 DEF KeepDrafting, Score, AfterToken, H!Started
<1>6. CASE StartHeavy \/ StartHeavyFails
  BY <1>6 DEF StartHeavy, StartHeavyFails, H!Open, H!Started
<1>7. CASE HeavyGoroutine \/ DrainHeavy \/ CallerReads
  <2>1. (H!Started' <=> H!Started) /\ UNCHANGED others
    BY <1>7, HeavyType DEF HeavyGoroutine, DrainHeavy, CallerReads
  <2> QED BY <2>1 DEF others
<1>8. CASE DrafterGoroutine \/ DrainDrafter \/ ContextDone \/ UNCHANGED vars
  <2>1. UNCHANGED heavy /\ UNCHANGED others
    BY <1>8 DEF DrafterGoroutine, DrainDrafter, ContextDone, others, vars
  <2> QED BY <2>1 DEF others, H!Started
<1> QED BY <1>1, <1>2, <1>3, <1>4, <1>5, <1>6, <1>7, <1>8 DEF Next, Execute

-----------------------------------------------------------------------------
\* The drafter's call field by field.
LEMMA DrafterFields ==
  ASSUME drafter \in D!StreamState
  PROVE  /\ drafter.ch \in Seq(DraftChunks \cup {Err})
         /\ drafter.scanned \in Nat
         /\ drafter.pending = <<>> \/ \E c \in DraftChunks : drafter.pending = <<c>>
         /\ drafter.phase \in {"idle", "scanning", "offering", "failing", "closed"}
         /\ drafter.ending \in {"open", "done", "eof", "aborted", "error"}
  BY DEF D!StreamState

LEMMA DrafterSteps ==
  ASSUME drafter \in D!StreamState
  PROVE  /\ D!ScanChunk =>
               /\ drafter.phase = "scanning" /\ drafter'.phase = "offering"
               /\ \E c \in DraftChunks : drafter'.pending = <<c>>
               /\ drafter'.scanned = drafter.scanned + 1
               /\ drafter'.ch = drafter.ch /\ drafter'.ending = drafter.ending
         /\ D!ScanDone \/ D!ScanEOF \/ D!ScanFail =>
               /\ drafter.phase = "scanning"
               /\ drafter'.pending = drafter.pending
               /\ drafter'.scanned = drafter.scanned /\ drafter'.ch = drafter.ch
               /\ \/ drafter'.phase = "closed" /\ drafter'.ending \in {"done", "eof"}
                  \/ drafter'.phase = "failing" /\ drafter'.ending = drafter.ending
         /\ D!Offer =>
               /\ drafter.phase = "offering" /\ drafter'.phase = "scanning"
               /\ drafter'.pending = <<>> /\ drafter'.ch = drafter.ch \o drafter.pending
               /\ drafter'.scanned = drafter.scanned /\ drafter'.ending = drafter.ending
         /\ D!OfferAborted =>
               /\ drafter.phase = "offering" /\ drafter'.phase = "closed"
               /\ drafter'.pending = <<>> /\ drafter'.ch = drafter.ch
               /\ drafter'.scanned = drafter.scanned /\ drafter'.ending = "aborted"
               /\ ctxDone
         /\ D!SendErr =>
               /\ drafter.phase = "failing" /\ drafter'.phase = "closed"
               /\ drafter'.pending = drafter.pending
               /\ drafter'.ch = Append(drafter.ch, Err)
               /\ drafter'.scanned = drafter.scanned /\ drafter'.ending = "error"
         /\ D!Receive =>
               /\ drafter.ch # <<>> /\ drafter'.ch = Tail(drafter.ch)
               /\ drafter'.pending = drafter.pending /\ drafter'.phase = drafter.phase
               /\ drafter'.scanned = drafter.scanned /\ drafter'.ending = drafter.ending
<1> USE DEF D!StreamState
<1>1. ASSUME D!ScanChunk
      PROVE  /\ drafter.phase = "scanning" /\ drafter'.phase = "offering"
             /\ \E c \in DraftChunks : drafter'.pending = <<c>>
             /\ drafter'.scanned = drafter.scanned + 1
             /\ drafter'.ch = drafter.ch /\ drafter'.ending = drafter.ending
  BY <1>1 DEF D!ScanChunk
<1> QED BY <1>1 DEF D!ScanDone, D!ScanEOF, D!ScanFail, D!Offer, D!OfferAborted, D!SendErr,
                    D!Receive

\* Why the drafter's channel is closed.
LEMMA NextGoroutine == TypeOK /\ GoroutineInv /\ [Next]_vars => GoroutineInv'
<1> SUFFICES ASSUME TypeOK, GoroutineInv, [Next]_vars PROVE GoroutineInv'
  OBVIOUS
<1> USE DrafterFields DEF TypeOK, GoroutineInv
<1>1. CASE D!Produce /\ UNCHANGED ctxDone
  <2>1. CASE D!ScanChunk \/ D!ScanDone \/ D!ScanEOF \/ D!ScanFail
    BY <1>1, <2>1, DrafterSteps DEF D!ScanDone, D!ScanEOF, D!ScanFail
  <2>2. CASE D!Offer \/ D!OfferAborted \/ D!SendErr
    BY <1>1, <2>2, DrafterSteps
  <2> QED BY <1>1, <2>1, <2>2 DEF D!Produce
<1>2. CASE D!Receive /\ UNCHANGED ctxDone
  BY <1>2, DrafterSteps
<1>3. CASE UNCHANGED drafter /\ (ctxDone => ctxDone')
  BY <1>3
<1>4. \/ D!Produce /\ UNCHANGED ctxDone
      \/ D!Receive /\ UNCHANGED ctxDone
      \/ UNCHANGED drafter /\ (ctxDone => ctxDone')
  BY DEF Next, Execute, CtxReturn, AcceptDraft, DrafterError, ReceiveChunk, EscalateDraft,
         TriggerSpeculation, KeepDrafting, Score, StartHeavy, StartHeavyFails,
         DrafterGoroutine, HeavyGoroutine, DrainDrafter, DrainHeavy, CallerReads,
         ContextDone, vars
<1> QED BY <1>1, <1>2, <1>3, <1>4

\* The chunks of an undecided draft, counted.
LEMMA NextDraft ==
  TypeOK /\ VerdictInv /\ GoroutineInv /\ DraftInv /\ [Next]_vars => DraftInv'
<1> SUFFICES ASSUME TypeOK, VerdictInv, GoroutineInv, DraftInv, [Next]_vars, Undecided'
             PROVE  DraftInv'
  BY DEF DraftInv
<1>f. /\ drafter \in D!StreamState /\ drafter.ch \in Seq(DraftChunks \cup {Err})
      /\ Len(drafter.ch) \in Nat /\ drafter.scanned \in Nat /\ drafted \in Nat
      /\ \A c \in DraftChunks : c # Err
  BY ExecutorAssumption, DrafterFields DEF TypeOK
<1> USE <1>f DEF GoroutineInv, DraftInv
<1>1. CASE D!Produce /\ UNCHANGED <<drafted, pc>>
  <2>0. Undecided
    BY <1>1 DEF Undecided
  <2>1. CASE D!ScanChunk
    <3>1. Len(drafter.pending) = 0 /\ Len(drafter'.pending) = 1
      BY <2>1, DrafterSteps
    <3>2. /\ drafter'.scanned = drafter.scanned + 1
          /\ drafter'.ch = drafter.ch /\ drafter'.ending = drafter.ending
      BY <2>1, DrafterSteps
    <3>3. drafter.ending \in {"open", "done", "eof"} =>
             drafter'.scanned = drafted' + Len(drafter'.ch) + Len(drafter'.pending)
      <4>1. drafter.ending \in {"open", "done", "eof"} =>
               drafter.scanned = drafted + Len(drafter.ch) + 0
        BY <2>0, <3>1
      <4>2. drafted' = drafted
        BY <1>1
      <4> HIDE DEF GoroutineInv, DraftInv
      <4> QED BY <1>f, <3>1, <3>2, <4>1, <4>2
    <3>4. drafter.ending \in {"open", "done", "eof"} =>
             \A i \in 1 .. Len(drafter'.ch) : drafter'.ch[i] # Err
      BY <2>0, <3>2
    <3> QED BY <2>0, <3>2, <3>3, <3>4
  <2>5. CASE D!ScanDone \/ D!ScanEOF \/ D!ScanFail
    <3>1. /\ drafter'.scanned = drafter.scanned /\ drafter'.pending = drafter.pending
          /\ drafter'.ch = drafter.ch /\ drafter.ending = "open"
          /\ drafter'.ending # "error"
      BY <2>5, DrafterSteps
    <3> QED BY <1>1, <2>0, <3>1
  <2>2. CASE D!Offer
    <3>1. PICK c \in DraftChunks : drafter.pending = <<c>>
      <4>1. Len(drafter.pending) = 1
        BY <2>2, DrafterSteps
      <4> HIDE DEF GoroutineInv, DraftInv
      <4> QED BY <1>f, <4>1, DrafterFields, OneItem
    <3>2. /\ Len(drafter'.ch) = Len(drafter.ch) + 1
          /\ \A i \in 1 .. Len(drafter.ch) : drafter'.ch[i] = drafter.ch[i]
          /\ drafter'.ch[Len(drafter.ch) + 1] = c
      BY <2>2, <3>1, DrafterSteps, SendBuffer
    <3>3. /\ drafter.ending = "open" /\ drafter'.ending = "open"
          /\ Len(drafter.pending) = 1 /\ Len(drafter'.pending) = 0
          /\ drafter'.scanned = drafter.scanned
      BY <2>2, <3>1, DrafterSteps
    <3>4. drafter'.scanned = drafted' + Len(drafter'.ch) + Len(drafter'.pending)
      <4>1. drafter.scanned = drafted + Len(drafter.ch) + 1
        BY <2>0, <3>3
      <4>2. drafted' = drafted
        BY <1>1
      <4> QED BY <3>2, <3>3, <4>1, <4>2
    <3>5. \A i \in 1 .. Len(drafter'.ch) : drafter'.ch[i] # Err
      BY <2>0, <3>1, <3>2, <3>3
    <3> QED BY <3>3, <3>4, <3>5
  <2>3. CASE D!OfferAborted
    BY <1>1, <2>0, <2>3, DrafterSteps
  <2>4. CASE D!SendErr
    <3>1. drafter'.ch # <<>> /\ drafter'.ch[Len(drafter'.ch)] = Err
      BY <2>4, DrafterSteps, SendBuffer
    <3> QED BY <2>4, <3>1, DrafterSteps
  <2> QED BY <1>1, <2>1, <2>2, <2>3, <2>4, <2>5 DEF D!Produce
<1>2. CASE ReceiveChunk
  <2>1. Undecided /\ D!Receive /\ Head(drafter.ch) # Err /\ drafted' = drafted + 1
    BY <1>2 DEF ReceiveChunk, Undecided
  <2>2. /\ Head(drafter.ch) = drafter.ch[1]
        /\ Len(drafter'.ch) = Len(drafter.ch) - 1
        /\ \A i \in 1 .. Len(drafter'.ch) : drafter'.ch[i] = drafter.ch[i + 1]
    <3>1. drafter.ch # <<>> /\ drafter'.ch = Tail(drafter.ch)
      BY <2>1, DrafterSteps
    <3> QED BY <3>1, ReceiveBuffer
  <2>3. /\ drafter'.pending = drafter.pending /\ drafter'.scanned = drafter.scanned
        /\ drafter'.ending = drafter.ending
    BY <2>1, DrafterSteps
  <2>4. CASE drafter.ending = "error"
    <3>1. drafter.ch # <<>> /\ drafter.ch[Len(drafter.ch)] = Err /\ Len(drafter.ch) \in Nat
      BY <2>1, <2>4
    <3>2. Len(drafter.ch) > 1
      BY <2>1, <2>2, <3>1
    <3>3. Len(drafter'.ch) > 0 /\ drafter'.ch[Len(drafter'.ch)] = Err
      BY <2>2, <3>1, <3>2
    <3> QED BY <2>3, <2>4, <3>3
  <2>5. CASE drafter.ending # "error"
    <3>1. drafter.ending \in {"open", "done", "eof"} =>
             drafter'.scanned = drafted' + Len(drafter'.ch) + Len(drafter'.pending)
      BY <2>1, <2>2, <2>3
    <3>2. drafter.ending \in {"open", "done", "eof"} =>
             \A i \in 1 .. Len(drafter'.ch) : drafter'.ch[i] # Err
      <4> SUFFICES ASSUME drafter.ending \in {"open", "done", "eof"},
                          NEW i \in 1 .. Len(drafter'.ch)
                   PROVE  drafter'.ch[i] # Err
        OBVIOUS
      <4>1. i + 1 \in 1 .. Len(drafter.ch) /\ drafter'.ch[i] = drafter.ch[i + 1]
        BY <2>2
      <4>2. \A k \in 1 .. Len(drafter.ch) : drafter.ch[k] # Err
        BY <2>1
      <4> HIDE DEF GoroutineInv, DraftInv
      <4> QED BY <4>1, <4>2
    <3> QED BY <2>3, <2>5, <3>1, <3>2
  <2> QED BY <2>4, <2>5
<1>3. CASE UNCHANGED <<drafter, drafted>> /\ Undecided
  BY <1>3
<1>4. \/ D!Produce /\ UNCHANGED <<drafted, pc>>
      \/ ReceiveChunk
      \/ UNCHANGED <<drafter, drafted>> /\ Undecided
  BY DEF Next, Execute, CtxReturn, AcceptDraft, DrafterError, EscalateDraft,
         TriggerSpeculation, KeepDrafting, Score, StartHeavy, StartHeavyFails,
         DrafterGoroutine, HeavyGoroutine, DrainDrafter, DrainHeavy, CallerReads,
         ContextDone, vars, others, Undecided, VerdictInv
<1> QED BY <1>1, <1>2, <1>3, <1>4

\* An accepted draft was whole, and its channel stays closed.
LEMMA NextAccept ==
  TypeOK /\ VerdictInv /\ GoroutineInv /\ DraftInv /\ AcceptInv /\ [Next]_vars => AcceptInv'
<1> SUFFICES ASSUME TypeOK, VerdictInv, GoroutineInv, DraftInv, AcceptInv, [Next]_vars
             PROVE  AcceptInv'
  OBVIOUS
<1>f. /\ drafter \in D!StreamState /\ drafter.scanned \in Nat /\ drafted \in Nat
      /\ drafter.ending \in {"open", "done", "eof", "aborted", "error"}
  BY DrafterFields DEF TypeOK
<1> USE <1>f DEF AcceptInv, AcceptedDraftIsJudged
<1>1. CASE AcceptDraft
  <2>1. Undecided /\ drafter.phase = "closed" /\ drafter.ch = <<>> /\ drafter' = drafter
        /\ drafted' = drafted /\ ctxDone' = ctxDone
    BY <1>1 DEF AcceptDraft, D!Ended, Undecided
  <2>2. Len(drafter.pending) = 0 /\ Len(drafter.ch) = 0
    BY <2>1 DEF GoroutineInv
  <2>3. ~ctxDone => drafter.ending \in {"done", "eof"}
    BY <2>1 DEF GoroutineInv, DraftInv
  <2>4. ~ctxDone => drafted = drafter.scanned
    BY <2>1, <2>2, <2>3 DEF DraftInv
  <2> QED BY <2>1, <2>3, <2>4
<1>2. CASE pc' \in {"select", "tokens", "starting", "ctxErr", "drafterErr"}
           /\ state' \in {"drafting", "speculating"}
  BY <1>2
<1>3. CASE state' = "escalated"
  BY <1>3
<1>4. CASE D!Produce /\ UNCHANGED <<state, pc, ctxDone, drafted>>
  <2>1. state = "accepted" => drafter.phase = "closed"
    OBVIOUS
  <2>2. drafter.phase # "closed"
    BY <1>4 DEF D!Produce, D!ScanChunk, D!ScanDone, D!ScanEOF, D!ScanFail, D!Offer,
                D!OfferAborted, D!SendErr
  <2> QED BY <1>4, <2>1, <2>2
<1>5. CASE D!Receive /\ UNCHANGED <<state, pc, ctxDone, drafted>>
  BY <1>5, DrafterSteps
<1>6. CASE UNCHANGED <<state, pc, drafter, drafted>> /\ (ctxDone => ctxDone')
  BY <1>6
<1>7. \/ AcceptDraft
      \/ pc' \in {"select", "tokens", "starting", "ctxErr", "drafterErr"}
         /\ state' \in {"drafting", "speculating"}
      \/ state' = "escalated"
      \/ D!Produce /\ UNCHANGED <<state, pc, ctxDone, drafted>>
      \/ D!Receive /\ UNCHANGED <<state, pc, ctxDone, drafted>>
      \/ UNCHANGED <<state, pc, drafter, drafted>> /\ (ctxDone => ctxDone')
  BY DEF Next, Execute, CtxReturn, DrafterError, ReceiveChunk, EscalateDraft,
         TriggerSpeculation, KeepDrafting, AfterToken, Score, StartHeavy, StartHeavyFails,
         DrafterGoroutine, HeavyGoroutine, DrainDrafter, DrainHeavy, CallerReads,
         ContextDone, vars, others, Undecided, Unjudged, VerdictInv
<1> QED BY <1>1, <1>2, <1>3, <1>4, <1>5, <1>6, <1>7

LEMMA NextInv == IInv /\ [Next]_vars => IInv'
  BY NextType, NextCall, NextGoroutine, NextDraft, NextAccept DEF IInv

-----------------------------------------------------------------------------
\* The invariant behind all of Execute's safety properties (executor.go:34-126)
\* holds in every reachable state.
THEOREM Inductive == Spec => []IInv
<1>1. Init => IInv
  BY InitInv
<1>2. IInv /\ [Next]_vars => IInv'
  BY NextInv
<1> QED BY <1>1, <1>2, PTL DEF Spec

\* Every return of Execute has cancelled the heavyweight call it started or
\* hands it over in its Result.
THEOREM CallAlwaysOwned == Spec => []CallIsOwned
<1>1. IInv => CallIsOwned
  <2> SUFFICES ASSUME IInv, Verdict # "drafting" PROVE Call # "running"
    BY DEF CallIsOwned, Contract!Owned
  <2>1. Returned
    BY DEF IInv, TypeOK, VerdictInv, Undecided, Unjudged, Verdict, Returned
  <2> QED BY <2>1 DEF IInv, TypeOK, CallInv, Call
<1> QED BY <1>1, Inductive, PTL

\* A handed call has one reader, and nobody cancels it under him.
THEOREM HandedCallStaysLive == Spec => []HandedCallIsLive
<1>1. IInv => HandedCallIsLive
  BY DEF IInv, CallInv, HandedCallIsLive
<1> QED BY <1>1, Inductive, PTL

\* A draft accepted for a client that is still there was read to the clean end
\* of its body, every chunk of it judged.
THEOREM AcceptedIsJudged == Spec => []AcceptedDraftIsJudged
<1>1. IInv => AcceptedDraftIsJudged
  BY DEF IInv, AcceptInv
<1> QED BY <1>1, Inductive, PTL

-----------------------------------------------------------------------------
LEMMA InitByRule == Init => EscalationIsRule
<1> SUFFICES ASSUME Init PROVE EscalationIsRule
  OBVIOUS
<1>1. window = NewWindow /\ entropies = <<>> /\ state = "drafting"
  BY DEF Init
<1>2. Rule!Crossings(<<>>) = {}
  BY DEF Rule!Crossings
<1> QED BY <1>1, <1>2, NewTracks DEF EscalationIsRule

\* One more token is scored: Execute escalates if and only if the rule does.
LEMMA ScoreByRule ==
  ASSUME TypeOK, TokenInv, VerdictInv, EscalationIsRule, Score,
         IF Crossed THEN state' = "escalated" ELSE state' = state
  PROVE  EscalationIsRule'
<1> DEFINE e == Head(tokens)
<1>1. /\ entropies \in Seq(Nat) /\ tokens \in Seq(Nat) /\ tokens # <<>> /\ Unjudged
      /\ window' = AddToWindow(window, e) /\ entropies' = Append(entropies, e)
  BY DEF TypeOK, TokenInv, VerdictInv, Undecided, Score
<1>2. e \in Nat
  BY <1>1, HeadTailProperties
<1> HIDE DEF e
<1>3. /\ entropies' \in Seq(Nat) /\ entropies' # <<>> /\ Len(entropies') = Len(entropies) + 1
      /\ entropies'[Len(entropies')] = e
  BY <1>1, <1>2, AppendProperties
<1>4. Tracks(window, entropies) /\ Rule!Crossings(entropies) = {}
  BY <1>1 DEF EscalationIsRule, Unjudged
<1>5. Tracks(window', entropies')
  BY <1>1, <1>2, <1>4, AddTracks
<1>6. Crossed <=> Rule!Crosses(entropies')
  BY <1>3, <1>5, EscalatesIsRule DEF Crossed, e
<1>7. Rule!Crossings(entropies') = IF Crossed THEN {Len(entropies')} ELSE {}
  BY <1>1, <1>2, <1>3, <1>4, <1>6, CrossingsOfAppend
<1>8. state' = "escalated" <=> Crossed
  BY <1>1 DEF Unjudged
<1> QED BY <1>5, <1>7, <1>8 DEF EscalationIsRule

LEMMA NextByRule == IInv /\ EscalationIsRule /\ [Next]_vars => EscalationIsRule'
<1> SUFFICES ASSUME TypeOK, TokenInv, VerdictInv, EscalationIsRule, [Next]_vars
             PROVE  EscalationIsRule'
  BY DEF IInv
<1>1. CASE EscalateDraft \/ TriggerSpeculation \/ KeepDrafting
  BY <1>1, ScoreByRule DEF EscalateDraft, TriggerSpeculation, KeepDrafting
<1>2. CASE UNCHANGED <<window, entropies>> /\ (state' = "escalated" <=> state = "escalated")
  <2>1. window' = window /\ entropies' = entropies
    BY <1>2
  <2> QED BY <1>2, <2>1 DEF EscalationIsRule
<1>3. \/ EscalateDraft \/ TriggerSpeculation \/ KeepDrafting
      \/ UNCHANGED <<window, entropies>> /\ (state' = "escalated" <=> state = "escalated")
  BY DEF Next, Execute, CtxReturn, AcceptDraft, DrafterError, ReceiveChunk, StartHeavy,
         StartHeavyFails, DrafterGoroutine, HeavyGoroutine, DrainDrafter, DrainHeavy,
         CallerReads, ContextDone, vars, others, VerdictInv, Undecided, Unjudged
<1> QED BY <1>1, <1>2, <1>3

\* Execute escalates exactly at the first token at which the documented rule
\* does, whatever the soft threshold, failed starts and chunks.
THEOREM ExecutorDecidesByRule == Spec => []EscalationIsRule
<1>1. Init => EscalationIsRule
  BY InitByRule
<1>2. IInv /\ EscalationIsRule /\ [Next]_vars => EscalationIsRule'
  BY NextByRule
<1> QED BY <1>1, <1>2, Inductive, PTL DEF Spec

-----------------------------------------------------------------------------
\* The executor's steps are the router's, with the heavyweight call erased.
LEMMA InitMaps == Init => Serial!Init
  BY DEF Init, Serial!Init, RouterPC, RouterDecision, D!NoStream, Serial!D!NoStream,
         NewWindow, Serial!NewWindow, Slots, Serial!Slots

LEMMA ReceiveMaps == CtxReturn \/ AcceptDraft \/ DrafterError \/ ReceiveChunk => Serial!Route
<1>1. CtxReturn => Serial!CtxReturn
  BY DEF CtxReturn, Serial!CtxReturn, RouterPC, RouterDecision, StopHeavy
<1>2. AcceptDraft => Serial!AcceptDraft
  BY DEF AcceptDraft, Serial!AcceptDraft, RouterPC, RouterDecision, StopHeavy,
         D!Ended, Serial!D!Ended
<1>3. DrafterError => Serial!DrafterError
  BY DEF DrafterError, Serial!DrafterError, RouterPC, RouterDecision, StopHeavy,
         D!Receive, Serial!D!Receive
<1>4. ReceiveChunk => Serial!ReceiveChunk
  BY DEF ReceiveChunk, Serial!ReceiveChunk, RouterPC, RouterDecision,
         D!Receive, Serial!D!Receive
<1> QED BY <1>1, <1>2, <1>3, <1>4 DEF Serial!Route

LEMMA ScoreMaps == EscalateDraft \/ TriggerSpeculation \/ KeepDrafting => Serial!Route
<1>1. Score => Serial!Score
  BY DEF Score, Serial!Score, RouterPC, AddToWindow, Serial!AddToWindow
<1>2. Crossed <=> Serial!Crossed
  BY DEF Crossed, Serial!Crossed, Escalates, Serial!Escalates, AverageExceeds,
         Serial!AverageExceeds
<1>3. EscalateDraft => Serial!EscalateDraft
  BY <1>1, <1>2 DEF EscalateDraft, Serial!EscalateDraft, RouterPC, RouterDecision
<1>4. TriggerSpeculation => Serial!KeepDrafting
  BY <1>1, <1>2 DEF TriggerSpeculation, Serial!KeepDrafting, RouterPC, RouterDecision
<1>5. KeepDrafting => Serial!KeepDrafting
  BY <1>1, <1>2 DEF KeepDrafting, Serial!KeepDrafting, RouterPC, RouterDecision, AfterToken
<1> QED BY <1>3, <1>4, <1>5 DEF Serial!Route

LEMMA StartStutters ==
  TypeOK /\ VerdictInv /\ (StartHeavy \/ StartHeavyFails) => UNCHANGED Serial!vars
  BY DEF TypeOK, VerdictInv, Undecided, Unjudged, StartHeavy, StartHeavyFails, Serial!vars,
         RouterPC, RouterDecision

LEMMA EnvironmentMaps ==
  /\ DrafterGoroutine => Serial!DrafterGoroutine
  /\ DrainDrafter => Serial!DrainDrafter
  /\ ContextDone => Serial!ContextDone
  /\ HeavyGoroutine \/ DrainHeavy \/ CallerReads => UNCHANGED Serial!vars
<1> USE DEF others, Serial!others, RouterPC, RouterDecision
<1>1. DrafterGoroutine => Serial!DrafterGoroutine
  BY DEF DrafterGoroutine, Serial!DrafterGoroutine, D!Produce, Serial!D!Produce,
         D!ScanChunk, Serial!D!ScanChunk, D!ScanDone, Serial!D!ScanDone, D!ScanEOF,
         Serial!D!ScanEOF, D!ScanFail, Serial!D!ScanFail, D!Offer, Serial!D!Offer,
         D!OfferAborted, Serial!D!OfferAborted, D!SendErr, Serial!D!SendErr,
         D!HasRoom, Serial!D!HasRoom
<1>2. DrainDrafter => Serial!DrainDrafter
  BY DEF DrainDrafter, Serial!DrainDrafter, D!Receive, Serial!D!Receive
<1>3. ContextDone => Serial!ContextDone
  BY DEF ContextDone, Serial!ContextDone
<1>4. HeavyGoroutine \/ DrainHeavy \/ CallerReads => UNCHANGED Serial!vars
  BY DEF HeavyGoroutine, DrainHeavy, CallerReads, Serial!vars
<1> QED BY <1>1, <1>2, <1>3, <1>4

LEMMA NextMaps == TypeOK /\ VerdictInv /\ [Next]_vars => [Serial!Next]_(Serial!vars)
<1> SUFFICES ASSUME TypeOK, VerdictInv, [Next]_vars PROVE [Serial!Next]_(Serial!vars)
  OBVIOUS
<1>1. CASE Execute
  BY <1>1, ReceiveMaps, ScoreMaps, StartStutters DEF Execute, Serial!Next
<1>2. CASE DrafterGoroutine \/ HeavyGoroutine \/ DrainDrafter \/ DrainHeavy \/ CallerReads
           \/ ContextDone
  BY <1>2, EnvironmentMaps DEF Serial!Next
<1>3. CASE UNCHANGED vars
  BY <1>3 DEF vars, Serial!vars, RouterPC, RouterDecision
<1> QED BY <1>1, <1>2, <1>3 DEF Next

\* Speculation never changes a decision: Execute implements Route, with the
\* speculative call erased.
THEOREM ExecutorRefinesRouter == Spec => DecidesAsRouter
<1>1. Init => Serial!Init
  BY InitMaps
<1>2. IInv /\ [Next]_vars => [Serial!Next]_(Serial!vars)
  BY NextMaps DEF IInv
<1> QED BY <1>1, <1>2, Inductive, PTL DEF Spec, DecidesAsRouter

-----------------------------------------------------------------------------
LEMMA ContractSteps == IInv /\ [Next]_vars => [Contract!Next]_(Contract!vars)
<1> SUFFICES ASSUME TypeOK, VerdictInv, CallInv, [Next]_vars
             PROVE  [Contract!Next]_(Contract!vars)
  BY DEF IInv
<1> USE DEF TypeOK, VerdictInv, CallInv, Undecided, Unjudged, Returned, Verdict, Call,
            Contract!vars
<1>1. CASE CtxReturn \/ DrafterError
  <2>1. Contract!Fail
    BY <1>1 DEF CtxReturn, DrafterError, StopHeavy, H!Started, Contract!Fail,
                Contract!Stopped
  <2> QED BY <2>1 DEF Contract!Next, Contract!Decide
<1>2. CASE AcceptDraft
  <2>1. Contract!Accept
    BY <1>2 DEF AcceptDraft, StopHeavy, H!Started, Contract!Accept, Contract!Stopped
  <2> QED BY <2>1 DEF Contract!Next, Contract!Decide
<1>3. CASE EscalateDraft
  <2>1. Contract!Escalate
    BY <1>3 DEF EscalateDraft, Score, H!Started, Contract!Escalate
  <2> QED BY <2>1 DEF Contract!Next, Contract!Decide
<1>4. CASE StartHeavy
  <2>1. Contract!Speculate
    BY <1>4 DEF StartHeavy, H!Open, H!StreamState, H!Started, Contract!Speculate
  <2> QED BY <2>1 DEF Contract!Next
<1>5. CASE ReceiveChunk \/ TriggerSpeculation \/ KeepDrafting \/ StartHeavyFails
  BY <1>5 DEF ReceiveChunk, TriggerSpeculation, KeepDrafting, Score, AfterToken,
              StartHeavyFails, H!Started
<1>6. CASE HeavyGoroutine \/ DrainHeavy \/ CallerReads
  <2>1. (H!Started' <=> H!Started) /\ UNCHANGED others
    BY <1>6, HeavyType DEF HeavyGoroutine, DrainHeavy, CallerReads
  <2> QED BY <2>1 DEF others
<1>7. CASE DrafterGoroutine \/ DrainDrafter \/ ContextDone \/ UNCHANGED vars
  <2>1. UNCHANGED heavy /\ UNCHANGED others
    BY <1>7 DEF DrafterGoroutine, DrainDrafter, ContextDone, others, vars
  <2> QED BY <2>1 DEF others, H!Started
<1> QED BY <1>1, <1>2, <1>3, <1>4, <1>5, <1>6, <1>7 DEF Next, Execute

\* Execute implements the safety part of the routing contract: one verdict, and
\* a heavyweight call that an escalation hands over and all else cancels.
THEOREM ExecutorRefinesContract == Spec => StepsOfContract
<1>1. Init => Contract!Init
  BY DEF Init, Contract!Init, Verdict, Call, H!Started, H!NoStream
<1>2. IInv /\ [Next]_vars => [Contract!Next]_(Contract!vars)
  BY ContractSteps
<1> QED BY <1>1, <1>2, Inductive, PTL DEF Spec, StepsOfContract

\* Whatever keeps that part of the contract, in whichever steps, never leaves a
\* decided draft with a heavyweight call that nobody owns.
THEOREM ContractOwns == StepsOfContract => []CallIsOwned
<1>1. Contract!Init => CallIsOwned
  BY DEF Contract!Init, CallIsOwned, Contract!Owned
<1>2. CallIsOwned /\ [Contract!Next]_(Contract!vars) => CallIsOwned'
  <2> SUFFICES ASSUME CallIsOwned, [Contract!Next]_(Contract!vars) PROVE CallIsOwned'
    OBVIOUS
  <2>1. CASE Contract!Speculate
    BY <2>1 DEF Contract!Speculate, CallIsOwned, Contract!Owned
  <2>2. CASE Contract!Decide
    BY <2>2 DEF Contract!Decide, Contract!Accept, Contract!Fail, Contract!Escalate,
                Contract!Stopped, CallIsOwned, Contract!Owned
  <2>3. CASE UNCHANGED Contract!vars
    BY <2>3 DEF Contract!vars, CallIsOwned, Contract!Owned
  <2>. QED
    BY <2>1, <2>2, <2>3 DEF Contract!Next
<1>. QED
  BY <1>1, <1>2, PTL DEF StepsOfContract

=============================================================================
