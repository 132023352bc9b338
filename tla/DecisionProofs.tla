----------------------------- MODULE DecisionProofs -----------------------------
(***************************************************************************)
(* Everything that decides by the entropy window decides by the documented *)
(* rule: the router, for any drafter and any way it splits its tokens into *)
(* chunks, and the offline replay of recorded traces.  The two are apart:  *)
(* they share the window's parameters and its operators, no variable.      *)
(* Then the statistics of the sweep, for any number of records and however *)
(* a sort leaves ties, with the lemmas about sums over finite sets and     *)
(* about ascending arrangements that they rest on.                         *)
(***************************************************************************)
EXTENDS RouterProps, Sweep, WindowProofs, FiniteSetTheorems

-----------------------------------------------------------------------------
LEMMA RouterInit == Init => IInv
<1> SUFFICES ASSUME Init PROVE IInv
  OBVIOUS
<1>1. <<>> \in Seq(Nat) /\ Len(<<>>) = 0
  OBVIOUS
<1>2. /\ drafter = [phase |-> "scanning", pending |-> <<>>, ch |-> <<>>, ending |-> "open",
                    scanned |-> 0]
      /\ ctxDone = FALSE /\ pc = "select" /\ tokens = <<>> /\ decision = "continue"
      /\ entropies = <<>> /\ drafted = 0 /\ draining = FALSE /\ window = NewWindow
  BY DEF Init, D!NoStream
<1>3. drafter \in D!StreamState /\ Len(drafter.ch) <= Capacity
  <2>1. <<>> \in Seq(DraftChunks \cup {Err})
    OBVIOUS
  <2>. QED
    BY <1>1, <1>2, <2>1, RouterAssumption DEF D!StreamState
<1>4. TypeOK
  BY <1>1, <1>2, <1>3 DEF TypeOK
<1>5. Rule!Crossings(entropies) = {}
  BY <1>1, <1>2 DEF Rule!Crossings
<1>6. DecisionIsRule
  BY <1>2, <1>4, <1>5 DEF DecisionIsRule
<1>. QED
  BY <1>2, <1>6, NewTracks DEF IInv

\* The drafter's goroutine and the receives keep the call well-typed.
LEMMA DrafterTypes ==
    ASSUME drafter \in D!StreamState, Len(drafter.ch) <= Capacity, D!Produce \/ D!Receive
    PROVE  drafter' \in D!StreamState /\ Len(drafter'.ch) <= Capacity
<1>. DEFINE ch == drafter.ch   Item == DraftChunks \cup {Err}
<1>1. ch \in Seq(Item) /\ Len(ch) \in Nat /\ Capacity \in Nat /\ drafter.scanned \in Nat
  BY RouterAssumption DEF D!StreamState
<1>2. CASE D!ScanChunk
  <2>1. PICK c \in DraftChunks :
           drafter' = [drafter EXCEPT !.phase = "offering", !.pending = <<c>>, !.scanned = @ + 1]
    BY <1>2 DEF D!ScanChunk
  <2>2. <<c>> \in {<<>>} \cup {<<d>> : d \in DraftChunks} /\ drafter.scanned + 1 \in Nat
    BY <1>1
  <2>. QED
    BY <2>1, <2>2 DEF D!StreamState
<1>3. CASE D!ScanDone \/ D!ScanEOF
  BY <1>3 DEF D!ScanDone, D!ScanEOF, D!StreamState
<1>4. CASE D!ScanFail \/ D!OfferAborted
  BY <1>4 DEF D!ScanFail, D!OfferAborted, D!StreamState
<1>5. CASE D!Offer
  <2>. DEFINE longer == ch \o drafter.pending
  <2>1. /\ drafter' = [drafter EXCEPT !.phase = "scanning", !.pending = <<>>, !.ch = longer]
        /\ Len(ch) < Capacity
    BY <1>5 DEF D!Offer, D!HasRoom
  <2>2. longer \in Seq(Item) /\ Len(longer) <= Capacity
    <3>1. CASE drafter.pending = <<>>
      <4>1. longer = ch
        BY <1>1, <3>1, ConcatEmptySeq
      <4>. QED
        BY <1>1, <4>1
    <3>2. CASE drafter.pending # <<>>
      <4>1. PICK c \in DraftChunks : drafter.pending = <<c>>
        BY <3>2 DEF D!StreamState
      <4>2. longer = Append(ch, c)
        BY <1>1, <4>1, AppendIsConcat
      <4>3. Append(ch, c) \in Seq(Item) /\ Len(Append(ch, c)) = Len(ch) + 1
        BY <1>1, AppendProperties
      <4>. HIDE DEF longer
      <4>. QED
        BY <1>1, <2>1, <4>2, <4>3
    <3>. QED
      BY <3>1, <3>2
  <2>. HIDE DEF longer
  <2>. QED
    BY <2>1, <2>2 DEF D!StreamState
<1>6. CASE D!SendErr
  <2>1. Append(ch, Err) \in Seq(Item) /\ Len(Append(ch, Err)) = Len(ch) + 1
    BY <1>1, AppendProperties
  <2>2. Len(ch) < Capacity
    BY <1>6 DEF D!SendErr, D!HasRoom
  <2>3. drafter' = [drafter EXCEPT !.phase = "closed", !.ch = Append(ch, Err), !.ending = "error"]
    BY <1>6 DEF D!SendErr
  <2>4. Len(Append(ch, Err)) <= Capacity
    BY <1>1, <2>1, <2>2
  <2>. QED
    BY <2>1, <2>3, <2>4 DEF D!StreamState
<1>7. CASE D!Receive
  <2>1. ch # <<>> /\ drafter' = [drafter EXCEPT !.ch = Tail(ch)]
    BY <1>7 DEF D!Receive
  <2>2. Tail(ch) \in Seq(Item) /\ Len(Tail(ch)) = Len(ch) - 1
    BY <1>1, <2>1, HeadTailProperties
  <2>3. Len(Tail(ch)) <= Capacity
    BY <1>1, <2>2
  <2>. QED
    BY <2>1, <2>2, <2>3 DEF D!StreamState
<1>. QED
  BY <1>2, <1>3, <1>4, <1>5, <1>6, <1>7 DEF D!Produce

\* A step that scores no token and decides nothing.
LEMMA QuietStep ==
    ASSUME IInv, drafter' \in D!StreamState, Len(drafter'.ch) <= Capacity, ctxDone' \in BOOLEAN,
           pc' \in {"select", "tokens", "result", "ctxErr", "drafterErr"},
           tokens' \in Seq(Nat), drafted' \in Nat, draining' \in BOOLEAN,
           UNCHANGED <<window, entropies, decision>>,
           pc' = "result" <=> pc = "result", pc' = "tokens" => tokens' # <<>>
    PROVE  IInv'
<1>1. TypeOK'
  BY DEF IInv, DecisionIsRule, TypeOK
<1>2. DecisionIsRule'
  BY <1>1 DEF IInv, DecisionIsRule
<1>3. Tracks(window, entropies)'
  BY DEF IInv
<1>. QED
  BY <1>2, <1>3 DEF IInv

\* Scoring one more token: the crossings gain its position if it crosses.
LEMMA ScoreStep ==
    ASSUME IInv, pc = "tokens", Score,
           IF Crossed THEN pc' = "result" /\ decision' = "escalate" /\ draining' = TRUE
           ELSE pc' = (IF tokens' = <<>> THEN "select" ELSE "tokens")
                /\ UNCHANGED <<decision, draining>>
    PROVE  IInv'
<1>. DEFINE e == Head(tokens)
<1>1. /\ TypeOK /\ entropies \in Seq(Nat) /\ tokens \in Seq(Nat) /\ tokens # <<>>
      /\ Tracks(window, entropies) /\ decision = "continue" /\ Rule!Crossings(entropies) = {}
  BY DEF IInv, DecisionIsRule, TypeOK
<1>2. e \in Nat /\ Tail(tokens) \in Seq(Nat)
  BY <1>1, HeadTailProperties
<1>3. /\ window' = AddToWindow(window, e) /\ tokens' = Tail(tokens)
      /\ entropies' = Append(entropies, e) /\ UNCHANGED <<drafter, ctxDone, drafted>>
  BY DEF Score
<1>. HIDE DEF e
<1>4. /\ entropies' \in Seq(Nat) /\ entropies' # <<>> /\ Len(entropies') = Len(entropies) + 1
      /\ entropies'[Len(entropies')] = e
  BY <1>1, <1>2, <1>3, AppendProperties
<1>5. Tracks(window', entropies')
  BY <1>1, <1>2, <1>3, AddTracks
<1>6. Crossed <=> Rule!Crosses(entropies')
  BY <1>4, <1>5, EscalatesIsRule DEF Crossed, e
<1>7. Rule!Crossings(entropies') = IF Crossed THEN {Len(entropies')} ELSE {}
  BY <1>1, <1>2, <1>3, <1>4, <1>6, CrossingsOfAppend
<1>8. TypeOK'
  BY <1>1, <1>2, <1>3, <1>4 DEF TypeOK
<1>9. DecisionIsRule' /\ (pc' = "tokens" => tokens' # <<>>)
  BY <1>1, <1>7, <1>8 DEF DecisionIsRule
<1>. QED
  BY <1>5, <1>9 DEF IInv

LEMMA RouterNext == IInv /\ [Next]_vars => IInv'
<1> SUFFICES ASSUME IInv, [Next]_vars PROVE IInv'
  OBVIOUS
<1>1. /\ TypeOK /\ drafter \in D!StreamState /\ Len(drafter.ch) <= Capacity /\ drafted \in Nat
      /\ tokens \in Seq(Nat) /\ (pc = "tokens" => tokens # <<>>)
  BY DEF IInv, DecisionIsRule, TypeOK
<1>2. CASE CtxReturn
  BY <1>1, <1>2, QuietStep DEF CtxReturn, TypeOK
<1>3. CASE AcceptDraft
  <2>1. /\ decision = "continue" /\ Rule!Crossings(entropies) = {}
        /\ decision' = "accept" /\ pc' = "result"
        /\ UNCHANGED <<drafter, ctxDone, window, tokens, entropies, drafted, draining>>
    BY <1>3 DEF AcceptDraft, IInv, DecisionIsRule, TypeOK
  <2>2. TypeOK'
    BY <1>1, <2>1 DEF TypeOK
  <2>. QED
    BY <2>1, <2>2 DEF IInv, DecisionIsRule
<1>4. CASE DrafterError
  <2>1. drafter' \in D!StreamState /\ Len(drafter'.ch) <= Capacity
    BY <1>1, <1>4, DrafterTypes DEF DrafterError
  <2>. QED
    BY <1>1, <1>4, <2>1, QuietStep DEF DrafterError, D!Receive, TypeOK
<1>5. CASE ReceiveChunk
  <2>1. drafter' \in D!StreamState /\ Len(drafter'.ch) <= Capacity
    BY <1>1, <1>5, DrafterTypes DEF ReceiveChunk
  <2>2. tokens' \in Seq(Nat)
    <3>1. Head(drafter.ch) \in DraftChunks \cup {Err}
      BY <1>1, <1>5, HeadTailProperties DEF ReceiveChunk, D!Receive, D!StreamState
    <3>. QED
      BY <1>5, <3>1, RouterAssumption DEF ReceiveChunk
  <2>3. /\ pc = "select" /\ pc' = (IF tokens' = <<>> THEN "select" ELSE "tokens")
        /\ drafted' = drafted + 1 /\ UNCHANGED <<ctxDone, window, decision, entropies, draining>>
    BY <1>5 DEF ReceiveChunk
  <2>4. pc' \in {"select", "tokens"} /\ (pc' = "tokens" => tokens' # <<>>) /\ drafted' \in Nat
    BY <1>1, <2>3
  <2>. QED
    BY <1>1, <2>1, <2>2, <2>3, <2>4, QuietStep DEF TypeOK
<1>6. CASE EscalateDraft \/ KeepDrafting
  BY <1>6, ScoreStep DEF EscalateDraft, KeepDrafting, Score
<1>7. CASE DrafterGoroutine \/ DrainDrafter
  <2>1. drafter' \in D!StreamState /\ Len(drafter'.ch) <= Capacity
    BY <1>1, <1>7, DrafterTypes DEF DrafterGoroutine, DrainDrafter
  <2>. QED
    BY <1>1, <1>7, <2>1, QuietStep DEF DrafterGoroutine, DrainDrafter, others, TypeOK
<1>8. CASE ContextDone
  BY <1>1, <1>8, QuietStep DEF ContextDone, others, TypeOK
<1>9. CASE UNCHANGED vars
  BY <1>1, <1>9, QuietStep DEF vars, TypeOK
<1>. QED
  BY <1>2, <1>3, <1>4, <1>5, <1>6, <1>7, <1>8, <1>9 DEF Next, Route

\* Route escalates exactly at the first token at which the documented rule
\* does, for every window, threshold, early-exit count and drafter, whatever
\* the chunks and whenever the client disconnects.
THEOREM RouterDecidesByRule == Spec => []DecisionIsRule
<1>1. IInv => DecisionIsRule
  BY DEF IInv
<1>. QED
  BY <1>1, RouterInit, RouterNext, PTL DEF Spec

-----------------------------------------------------------------------------
\* Scores are entropies times the size: the factor keeps their order.
LEMMA ScaleKeepsOrder ==
    ASSUME NEW e \in Nat
    PROVE  /\ Size * e > Size * Threshold <=> e > Threshold
           /\ Size * e \in Nat /\ Size * Threshold \in Nat /\ Threshold * Size = Size * Threshold
<1>1. Size \in Nat /\ Size >= 1 /\ Threshold \in Nat
  BY WindowAssumption
<1>2. Size * e \in Nat /\ Size * Threshold \in Nat /\ Threshold * Size = Size * Threshold
  BY <1>1
<1>3. CASE e > Threshold
  <2>1. PICK d \in Nat : e = Threshold + d /\ d >= 1
    <3>1. e - Threshold \in Nat /\ e = Threshold + (e - Threshold) /\ e - Threshold >= 1
      BY <1>1, <1>3
    <3>. QED
      BY <3>1
  <2>2. Size * e = Size * Threshold + Size * d /\ Size * d >= Size /\ Size * d \in Nat
    BY <1>1, <2>1
  <2>. QED
    BY <1>1, <1>2, <1>3, <2>2
<1>4. CASE e <= Threshold
  <2>1. PICK d \in Nat : Threshold = e + d
    <3>1. Threshold - e \in Nat /\ Threshold = e + (Threshold - e)
      BY <1>1, <1>4
    <3>. QED
      BY <3>1
  <2>2. Size * Threshold = Size * e + Size * d /\ Size * d \in Nat
    BY <1>1, <2>1
  <2>. QED
    BY <1>1, <1>2, <1>4, <2>2
<1>. QED
  BY <1>1, <1>3, <1>4

\* A ring in step with the tokens read is a well-typed one, if its entries are.
LEMMA RingTypes ==
    ASSUME NEW w, NEW s, Tracks(w, s), w.buf \in [Slots -> Entropies \cup {0}]
    PROVE  w \in [buf : [Slots -> Entropies \cup {0}], pos : Slots, count : Nat, sum : Int,
                  filled : BOOLEAN]
BY DEF Tracks

\* A trace of which nothing is read yet.
LEMMA FreshTrace ==
    /\ Tracks(NewWindow, <<>>) /\ <<>> \in Seq(Entropies)
    /\ NewWindow.buf \in [Slots -> Entropies \cup {0}]
    /\ Rule!Crossings(<<>>) = {}
    /\ ~(0 > Size * Threshold)
<1>1. ~(0 > Size * Threshold)
  BY ScaleKeepsOrder
<1>2. Rule!Crossings(<<>>) = {}
  BY DEF Rule!Crossings
<1>3. NewWindow.buf \in [Slots -> Entropies \cup {0}]
  BY DEF NewWindow
<1>. QED
  BY <1>1, <1>2, <1>3, NewTracks

LEMMA InitReplay == ReplayInit => ReplayInv
<1> SUFFICES ASSUME ReplayInit PROVE ReplayInv
  OBVIOUS
<1>1. ring = NewWindow /\ fed = <<>> /\ escalate = FALSE /\ escalatedAt = 0 /\ peak = 0
  BY DEF ReplayInit, RingInit
<1>2. AddDecidesByRule
  BY <1>1, FreshTrace, RingTypes DEF AddDecidesByRule, RingTypeOK
<1>3. ReplayIsRouter /\ ScoreDecidesReplay
  BY <1>1, FreshTrace DEF ReplayIsRouter, ScoreDecidesReplay
<1>. QED
  BY <1>1, <1>2, <1>3, FreshTrace DEF ReplayInv

LEMMA TraceStarts == ReplayInv /\ NextTrace => ReplayInv'
<1> SUFFICES ASSUME ReplayInv, NextTrace PROVE ReplayInv'
  OBVIOUS
<1>1. /\ ring' = NewWindow /\ fed' = <<>> /\ escalate' \in BOOLEAN /\ escalatedAt' = 0
      /\ peak' = 0
  BY DEF NextTrace, Reset, ReplayInv, AddDecidesByRule, RingTypeOK
<1>2. AddDecidesByRule'
  BY <1>1, FreshTrace, RingTypes DEF AddDecidesByRule, RingTypeOK
<1>3. ReplayIsRouter' /\ ScoreDecidesReplay'
  BY <1>1, FreshTrace DEF ReplayIsRouter, ScoreDecidesReplay
<1>. QED
  BY <1>1, <1>2, <1>3, FreshTrace DEF ReplayInv

\* One more token of a trace: Replay and EntropyScore both see whether it crosses.
LEMMA TokenRead == ReplayInv /\ ReadToken => ReplayInv'
<1> SUFFICES ASSUME ReplayInv, ReadToken PROVE ReplayInv'
  OBVIOUS
<1>. DEFINE n == Len(fed)   found == Rule!Crossings(fed)
<1>1. /\ Tracks(ring, fed) /\ fed \in Seq(Nat) /\ n \in Nat /\ escalatedAt \in Nat /\ peak \in Nat
      /\ ring.buf \in [Slots -> Entropies \cup {0}] /\ ring.pos \in Slots /\ fed \in Seq(Entropies)
      /\ IF found = {} THEN escalatedAt = 0
         ELSE escalatedAt \in found /\ \A m \in found : escalatedAt <= m
      /\ escalatedAt # 0 <=> peak > Size * Threshold
  <2>1. fed \in Seq(Entropies) /\ ring.buf \in [Slots -> Entropies \cup {0}] /\ ring.pos \in Slots
    BY DEF ReplayInv, AddDecidesByRule, RingTypeOK
  <2>2. fed \in Seq(Nat)
    BY <2>1, MachineAssumption, SeqMonotonic
  <2>. QED
    BY <2>1, <2>2 DEF ReplayInv, ReplayIsRouter, ScoreDecidesReplay
<1>2. PICK e \in Nat :
         /\ e \in Entropies /\ ring' = AddToWindow(ring, e) /\ fed' = Append(fed, e)
         /\ escalate' = Escalates(ring', e)
  <2>1. PICK e \in Entropies :
           /\ ring' = AddToWindow(ring, e) /\ fed' = Append(fed, e)
           /\ escalate' = Escalates(ring', e)
    BY Zenon DEF ReadToken, Add
  <2>2. e \in Nat
    BY MachineAssumption
  <2>. QED
    BY <2>1, <2>2, Zenon
<1>3. /\ fed' \in Seq(Nat) /\ fed' \in Seq(Entropies) /\ Len(fed') = n + 1 /\ fed'[n + 1] = e
      /\ fed' # <<>>
  BY <1>1, <1>2, AppendProperties
<1>4. Tracks(ring', fed')
  BY <1>1, <1>2, AddTracks
<1>5. escalate' <=> Rule!Crosses(fed')
  <2>1. Escalates(ring', fed'[Len(fed')]) <=> Rule!Crosses(fed')
    BY <1>3, <1>4, EscalatesIsRule
  <2>2. escalate' = Escalates(ring', fed'[Len(fed')])
    BY <1>2, <1>3
  <2>. QED
    BY <2>1, <2>2, Zenon
<1>6. escalate' \in BOOLEAN
  <2>1. Escalates(ring', e) \in BOOLEAN
    BY DEF Escalates
  <2>. QED
    BY <1>2, <2>1, Zenon
<1>7. Rule!Crossings(fed') = found \cup (IF escalate' THEN {n + 1} ELSE {})
  BY <1>1, <1>2, <1>5, CrossingsOfAppend
<1>8. escalatedAt' = (IF escalatedAt = 0 /\ escalate' THEN n + 1 ELSE escalatedAt)
  BY <1>3 DEF ReadToken, Replay
<1>. DEFINE early == IF n < EarlyExitCount /\ Size * e > peak THEN Size * e ELSE peak
<1>9. peak' = (IF n + 1 >= Size /\ ~(early > ring'.sum) THEN ring'.sum ELSE early)
  <2>. DEFINE score == Size * e
  <2>1. score \in Nat /\ n \in Nat /\ peak \in Nat /\ Size \in Nat /\ ring'.sum \in Int
    <3>1. score \in Nat
      BY WindowAssumption, ScaleKeepsOrder
    <3>2. ring'.sum \in Int
      BY <1>4 DEF Tracks
    <3>. HIDE DEF score
    <3>. QED
      BY <1>1, <3>1, <3>2, WindowAssumption
  <2>2. /\ Len(fed') = n + 1
        /\ peak' = LET seen == IF n < EarlyExitCount THEN Larger(peak, score) ELSE peak
                   IN  IF n + 1 >= Size THEN Larger(seen, ring'.sum) ELSE seen
    BY <1>3 DEF ReadToken, EntropyScore
  <2>. HIDE DEF score, n
  <2>3. peak' = (IF n + 1 >= Size /\ ~((IF n < EarlyExitCount /\ score > peak THEN score ELSE peak) > ring'.sum)
                 THEN ring'.sum
                 ELSE IF n < EarlyExitCount /\ score > peak THEN score ELSE peak)
    BY <2>1, <2>2 DEF Larger
  <2>. QED
    BY <2>3 DEF score
<1>10. AddDecidesByRule'
  <2>1. ring'.buf \in [Slots -> Entropies \cup {0}]
    BY <1>1, <1>2 DEF AddToWindow
  <2>. QED
    BY <1>3, <1>4, <1>5, <1>6, <2>1, RingTypes DEF AddDecidesByRule, RingTypeOK
<1>11. ReplayIsRouter'
  <2>1. \A m \in found : m \in 1 .. n
    BY DEF Rule!Crossings
  <2>. DEFINE next == Rule!Crossings(fed')
  <2>2. next = found \cup (IF escalate' THEN {n + 1} ELSE {})
    BY <1>7
  <2>. HIDE DEF found, next
  <2>3. IF next = {} THEN escalatedAt' = 0
        ELSE escalatedAt' \in next /\ \A m \in next : escalatedAt' <= m
    <3>1. CASE found = {}
      <4>1. escalatedAt = 0
        BY <1>1, <3>1
      <4>2. CASE escalate'
        <5>1. next = {n + 1} /\ escalatedAt' = n + 1
          BY <1>8, <2>2, <3>1, <4>1, <4>2
        <5>. QED
          BY <1>1, <5>1
      <4>3. CASE ~escalate'
        BY <1>8, <2>2, <3>1, <4>1, <4>3
      <4>. QED
        BY <4>2, <4>3
    <3>2. CASE found # {}
      <4>1. escalatedAt \in found /\ (\A m \in found : escalatedAt <= m) /\ escalatedAt \in 1 .. n
        BY <1>1, <2>1, <3>2
      <4>2. escalatedAt' = escalatedAt
        BY <1>8, <4>1
      <4>3. escalatedAt <= n + 1
        BY <1>1, <4>1
      <4>. QED
        BY <2>2, <4>1, <4>2, <4>3
    <3>. QED
      BY <3>1, <3>2
  <2>. QED
    BY <2>3 DEF ReplayIsRouter, next
<1>12. ScoreDecidesReplay' /\ peak' \in Nat
  <2>. DEFINE limit == Size * Threshold
  <2>1. /\ Size * e \in Nat /\ limit \in Nat /\ Threshold * Size = limit
        /\ Size * e > limit <=> e > Threshold
    BY ScaleKeepsOrder
  <2>2. /\ ring'.count = n + 1 /\ ring'.sum \in Int /\ (ring'.filled <=> n + 1 >= Size)
    BY <1>3, <1>4 DEF Tracks
  <2>3. n + 1 >= Size => (IF ring'.count > Size THEN Size ELSE ring'.count) = Size
    BY <1>1, <2>2, WindowAssumption
  <2>4. escalate' <=> \/ n + 1 <= EarlyExitCount /\ e > Threshold
                      \/ n + 1 >= Size /\ ring'.sum > limit
    <3>1. escalate' <=> \/ ring'.count <= EarlyExitCount /\ e > Threshold
                        \/ ring'.filled /\ AverageExceeds(ring')
      BY <1>2 DEF Escalates
    <3>2. n + 1 >= Size => (AverageExceeds(ring') <=> ring'.sum > limit)
      BY <2>1, <2>3 DEF AverageExceeds
    <3>. QED
      BY <2>2, <3>1, <3>2
  <2>. HIDE DEF limit
  <2>5. EarlyExitCount \in Int /\ (n + 1 <= EarlyExitCount <=> n < EarlyExitCount)
    BY <1>1, WindowAssumption
  <2>6. early \in Nat /\ (early > limit <=> peak > limit \/ (n < EarlyExitCount /\ e > Threshold))
    BY <1>1, <2>1
  <2>. HIDE DEF early
  <2>7. peak' \in Nat /\ (peak' > limit <=> early > limit \/ (n + 1 >= Size /\ ring'.sum > limit))
    BY <1>9, <2>1, <2>2, <2>6
  <2>8. peak' > limit <=> peak > limit \/ escalate'
    BY <2>4, <2>5, <2>6, <2>7
  <2>9. escalatedAt' # 0 <=> escalatedAt # 0 \/ escalate'
    BY <1>1, <1>8
  <2>10. ScoreDecidesReplay'
    BY <1>1, <2>8, <2>9 DEF ScoreDecidesReplay, limit
  <2>. QED
    BY <2>7, <2>10
<1>13. escalatedAt' \in Nat
  BY <1>1, <1>8
<1>. QED
  BY <1>4, <1>10, <1>11, <1>12, <1>13 DEF ReplayInv

LEMMA NextReplay == ReplayInv /\ [SweepNext]_sweepVars => ReplayInv'
<1>1. ReplayInv /\ UNCHANGED replayVars => ReplayInv'
  BY DEF replayVars, ringVars, ReplayInv, AddDecidesByRule, RingTypeOK, ReplayIsRouter,
         ScoreDecidesReplay
<1>. QED
  BY <1>1, TraceStarts, TokenRead
  DEF SweepNext, sweepVars, ReadRecordToken, NextRecord, SkipRecord

\* What holds of the window, the replay and the score of the trace that is
\* being read, for every trace and over all records.
THEOREM ReplayInductive == SweepSpec => []ReplayInv
<1>1. SweepInit => ReplayInv
  BY InitReplay DEF SweepInit
<1>. QED
  BY <1>1, NextReplay, PTL DEF SweepSpec

\* The decision that entropy.Window.Add returns, with its ring buffer and its
\* running sum, is the documented rule's on the whole sequence of tokens.
THEOREM WindowDecidesByRule == SweepSpec => []AddDecidesByRule
<1>1. ReplayInv => AddDecidesByRule
  BY DEF ReplayInv
<1>. QED
  BY <1>1, ReplayInductive, PTL

\* sweep.Replay escalates a trace at the first token at which the rule, and
\* with it the router, does.
THEOREM ReplayDecidesByRule == SweepSpec => []ReplayIsRouter
<1>1. ReplayInv => ReplayIsRouter
  BY DEF ReplayInv
<1>. QED
  BY <1>1, ReplayInductive, PTL

\* A trace's EntropyScore is above a threshold exactly when its replay at
\* that threshold escalates.
THEOREM ScoreDecides == SweepSpec => []ScoreDecidesReplay
<1>1. ReplayInv => ScoreDecidesReplay
  BY DEF ReplayInv
<1>. QED
  BY <1>1, ReplayInductive, PTL

-----------------------------------------------------------------------------
\* A set of n + 1 elements without one of them.
LEMMA OneLess ==
    ASSUME NEW T, IsFiniteSet(T), NEW n \in Nat, Cardinality(T) = n + 1
    PROVE  /\ T # {}
           /\ \A x \in T : IsFiniteSet(T \ {x}) /\ Cardinality(T \ {x}) = n
<1>1. T = {} => Cardinality(T) = 0
  BY FS_EmptySet
<1>2. ASSUME NEW x \in T PROVE IsFiniteSet(T \ {x}) /\ Cardinality(T \ {x}) = n
  <2>1. Cardinality(T \ {x}) = Cardinality(T) - 1 /\ IsFiniteSet(T \ {x})
    BY FS_RemoveElement
  <2>. QED
    BY <2>1
<1>. QED
  BY <1>1, <1>2

\* Induction over the subsets of a finite set, for a set of them.
LEMMA SubsetInduction ==
    ASSUME NEW S, IsFiniteSet(S), NEW F, {} \in F,
           \A T \in SUBSET S : \A x \in S \ T : T \in F => T \cup {x} \in F
    PROVE  S \in F
<1>. DEFINE N == {n \in Nat : \A T \in SUBSET S : Cardinality(T) = n => T \in F}
<1>1. \A T \in SUBSET S : IsFiniteSet(T)
  BY FS_Subset
<1>2. 0 \in N
  BY <1>1, FS_EmptySet
<1>3. ASSUME NEW n \in Nat, n \in N PROVE n + 1 \in N
  <2> SUFFICES ASSUME NEW T \in SUBSET S, Cardinality(T) = n + 1 PROVE T \in F
    OBVIOUS
  <2>1. T # {} /\ \A x \in T : Cardinality(T \ {x}) = n
    BY <1>1, OneLess
  <2>2. PICK x \in T : TRUE
    BY <2>1
  <2>3. PICK R : R = T \ {x}
    OBVIOUS
  <2>4. Cardinality(R) = n /\ R \in SUBSET S /\ x \in S \ R /\ R \cup {x} = T
    BY <2>1, <2>3
  <2>5. R \in F
    BY <1>3, <2>4
  <2>. QED
    BY <2>4, <2>5
<1>4. Nat \subseteq N
  <2>. HIDE DEF N
  <2>. QED
    BY <1>2, <1>3, SetInduction
<1>5. Cardinality(S) \in Nat
  BY FS_CardinalityType
<1>. QED
  BY <1>4, <1>5

-----------------------------------------------------------------------------
\* The sums of f over the subsets of S, as the folds of the library define them.
Pick(T) == CHOOSE x \in T : TRUE
SetSums(f, S, h) ==
    h = [T \in SUBSET S |-> IF T = {} THEN 0 ELSE f[Pick(T)] + h[T \ {Pick(T)}]]

LEMMA SumIs == ASSUME NEW f, NEW S
               PROVE  SumFunctionOnSet(f, S) = (CHOOSE h : SetSums(f, S, h))[S]
BY Zenon DEF SumFunctionOnSet, FoldFunctionOnSet, MapThenFoldSet, SetSums, Pick

LEMMA Picked ==
    ASSUME NEW T, T # {}, IsFiniteSet(T)
    PROVE  /\ Pick(T) \in T /\ T = (T \ {Pick(T)}) \cup {Pick(T)}
           /\ IsFiniteSet(T \ {Pick(T)}) /\ Cardinality(T) \in Nat
           /\ Cardinality(T \ {Pick(T)}) = Cardinality(T) - 1
<1>1. Pick(T) \in T
  BY DEF Pick
<1>. QED
  BY <1>1, FS_RemoveElement, FS_CardinalityType

LEMMA SetSumsExist ==
    ASSUME NEW f, NEW S, IsFiniteSet(S)
    PROVE  \E h : SetSums(f, S, h)
<1>. DEFINE Unfold(h, T) == IF T = {} THEN 0 ELSE f[Pick(T)] + h[T \ {Pick(T)}]
            Upto(n, h) == \A T \in SUBSET S : Cardinality(T) <= n => h[T] = Unfold(h, T)
            IsMap(h) == h = [T \in SUBSET S |-> h[T]]
            N == {n \in Nat : \E h : IsMap(h) /\ Upto(n, h)}
<1>1. \A T \in SUBSET S : IsFiniteSet(T) /\ Cardinality(T) \in Nat
  BY FS_Subset, FS_CardinalityType
<1>2. 0 \in N
  <2>. DEFINE h == [T \in SUBSET S |-> 0]
  <2>1. IsMap(h) /\ Upto(0, h)
    BY <1>1, FS_EmptySet
  <2>. QED
    BY <2>1
<1>3. ASSUME NEW n \in Nat, n \in N PROVE n + 1 \in N
  <2>1. PICK g : IsMap(g) /\ Upto(n, g)
    BY <1>3
  <2>. DEFINE h == [T \in SUBSET S |-> IF Cardinality(T) <= n THEN g[T] ELSE Unfold(g, T)]
  <2>2. IsMap(h)
    OBVIOUS
  <2>3. ASSUME NEW T \in SUBSET S, Cardinality(T) <= n + 1 PROVE h[T] = Unfold(h, T)
    <3>1. CASE T = {}
      BY <1>1, <2>1, <3>1, FS_EmptySet
    <3>2. CASE T # {}
      <4>. DEFINE R == T \ {Pick(T)}
      <4>1. R \in SUBSET S /\ Cardinality(R) <= n
        BY <1>1, <2>3, <3>2, Picked
      <4>2. h[R] = g[R]
        BY <4>1
      <4>3. Unfold(h, T) = Unfold(g, T)
        BY <3>2, <4>2
      <4>4. h[T] = Unfold(g, T)
        BY <2>1
      <4>. QED
        BY <4>3, <4>4
    <3>. QED
      BY <3>1, <3>2
  <2>. HIDE DEF h, Unfold
  <2>4. IsMap(h) /\ Upto(n + 1, h)
    BY <2>2, <2>3
  <2>. HIDE DEF IsMap, Upto
  <2>. QED
    BY <2>4
<1>4. Cardinality(S) \in N
  <2>1. Cardinality(S) \in Nat
    BY FS_CardinalityType
  <2>. HIDE DEF N
  <2>. QED
    BY <1>2, <1>3, <2>1, SetInduction
<1>5. PICK h : IsMap(h) /\ Upto(Cardinality(S), h)
  BY <1>4
<1>6. \A T \in SUBSET S : h[T] = Unfold(h, T)
  BY <1>1, <1>5, FS_Subset
<1>. QED
  BY <1>5, <1>6 DEF SetSums

\* They do not depend on the set whose subsets are summed over.
LEMMA SetSumsUnique ==
    ASSUME NEW f, NEW S, NEW h, NEW R \in SUBSET S, NEW g, IsFiniteSet(S),
           SetSums(f, S, h), SetSums(f, R, g)
    PROVE  g[R] = h[R]
<1>. DEFINE N == {n \in Nat : \A T \in SUBSET R : Cardinality(T) = n => g[T] = h[T]}
<1>1. \A T \in SUBSET R : IsFiniteSet(T) /\ Cardinality(T) \in Nat
  BY FS_Subset, FS_CardinalityType
<1>2. ASSUME NEW T \in SUBSET R
      PROVE  /\ g[T] = IF T = {} THEN 0 ELSE f[Pick(T)] + g[T \ {Pick(T)}]
             /\ h[T] = IF T = {} THEN 0 ELSE f[Pick(T)] + h[T \ {Pick(T)}]
  BY DEF SetSums
<1>3. 0 \in N
  BY <1>1, <1>2, FS_EmptySet
<1>4. ASSUME NEW n \in Nat, n \in N PROVE n + 1 \in N
  <2> SUFFICES ASSUME NEW T \in SUBSET R, Cardinality(T) = n + 1 PROVE g[T] = h[T]
    OBVIOUS
  <2>1. T # {}
    BY <1>1, OneLess
  <2>2. Cardinality(T \ {Pick(T)}) = n /\ T \ {Pick(T)} \in SUBSET R
    BY <1>1, <2>1, Picked
  <2>3. g[T \ {Pick(T)}] = h[T \ {Pick(T)}]
    BY <1>4, <2>2
  <2>. QED
    BY <1>2, <2>1, <2>3
<1>5. Nat \subseteq N
  <2>. HIDE DEF N
  <2>. QED
    BY <1>3, <1>4, SetInduction
<1>. QED
  BY <1>1, <1>5

LEMMA SumUnfolds ==
    ASSUME NEW f, NEW S, IsFiniteSet(S)
    PROVE  SumFunctionOnSet(f, S) =
             IF S = {} THEN 0 ELSE f[Pick(S)] + SumFunctionOnSet(f, S \ {Pick(S)})
<1>. DEFINE sums(R) == CHOOSE h : SetSums(f, R, h)
<1>1. \A R \in SUBSET S : SetSums(f, R, sums(R))
  <2> SUFFICES ASSUME NEW R \in SUBSET S PROVE SetSums(f, R, sums(R))
    OBVIOUS
  <2>1. \E h : SetSums(f, R, h)
    BY FS_Subset, SetSumsExist
  <2>. QED
    BY <2>1, Zenon
<1>2. \A R \in SUBSET S : SumFunctionOnSet(f, R) = sums(S)[R]
  <2> SUFFICES ASSUME NEW R \in SUBSET S PROVE SumFunctionOnSet(f, R) = sums(S)[R]
    OBVIOUS
  <2>1. SumFunctionOnSet(f, R) = sums(R)[R]
    BY SumIs, Zenon
  <2>2. SetSums(f, S, sums(S)) /\ SetSums(f, R, sums(R))
    BY <1>1
  <2>. HIDE DEF sums
  <2>. QED
    BY <2>1, <2>2, SetSumsUnique
<1>. HIDE DEF sums
<1>3. sums(S)[S] = IF S = {} THEN 0 ELSE f[Pick(S)] + sums(S)[S \ {Pick(S)}]
  BY <1>1 DEF SetSums
<1>4. S \in SUBSET S /\ S \ {Pick(S)} \in SUBSET S
  OBVIOUS
<1>. QED
  BY <1>2, <1>3, <1>4

LEMMA SumOfEmpty == ASSUME NEW f PROVE SumFunctionOnSet(f, {}) = 0
BY SumUnfolds, FS_EmptySet

LEMMA SumType ==
    ASSUME NEW S, IsFiniteSet(S), NEW f, \A x \in S : f[x] \in Int
    PROVE  SumFunctionOnSet(f, S) \in Int
<1>. DEFINE N == {n \in Nat : \A T \in SUBSET S :
                     Cardinality(T) = n => SumFunctionOnSet(f, T) \in Int}
<1>1. \A T \in SUBSET S : IsFiniteSet(T) /\ Cardinality(T) \in Nat
  BY FS_Subset, FS_CardinalityType
<1>2. 0 \in N
  BY <1>1, SumOfEmpty, FS_EmptySet
<1>3. ASSUME NEW n \in Nat, n \in N PROVE n + 1 \in N
  <2> SUFFICES ASSUME NEW T \in SUBSET S, Cardinality(T) = n + 1
               PROVE  SumFunctionOnSet(f, T) \in Int
    OBVIOUS
  <2>1. T # {}
    BY <1>1, OneLess
  <2>2. Cardinality(T \ {Pick(T)}) = n /\ T \ {Pick(T)} \in SUBSET S /\ Pick(T) \in S
    BY <1>1, <2>1, Picked
  <2>3. SumFunctionOnSet(f, T \ {Pick(T)}) \in Int
    BY <1>3, <2>2
  <2>4. SumFunctionOnSet(f, T) = f[Pick(T)] + SumFunctionOnSet(f, T \ {Pick(T)})
    BY <1>1, <2>1, SumUnfolds
  <2>. QED
    BY <2>2, <2>3, <2>4
<1>4. Nat \subseteq N
  <2>. HIDE DEF N
  <2>. QED
    BY <1>2, <1>3, SetInduction
<1>. QED
  BY <1>1, <1>4

\* One more element, whichever the fold picks first.
LEMMA SumOfMore ==
    ASSUME NEW S, IsFiniteSet(S), NEW x, x \notin S, NEW f, f[x] \in Int, \A y \in S : f[y] \in Int
    PROVE  SumFunctionOnSet(f, S \cup {x}) = f[x] + SumFunctionOnSet(f, S)
<1>. DEFINE W == S \cup {x}
            N == {n \in Nat : \A T \in SUBSET W : \A y \in W \ T : Cardinality(T) = n =>
                     SumFunctionOnSet(f, T \cup {y}) = f[y] + SumFunctionOnSet(f, T)}
<1>1. \A T \in SUBSET W : IsFiniteSet(T) /\ Cardinality(T) \in Nat
  <2>1. IsFiniteSet(W)
    BY FS_AddElement
  <2>. QED
    BY <2>1, FS_Subset, FS_CardinalityType
<1>2. \A T \in SUBSET W : SumFunctionOnSet(f, T) \in Int
  BY <1>1, SumType
<1>3. ASSUME NEW T \in SUBSET W, NEW y \in W \ T, Pick(T \cup {y}) = y
      PROVE  SumFunctionOnSet(f, T \cup {y}) = f[y] + SumFunctionOnSet(f, T)
  <2>1. T \cup {y} \in SUBSET W /\ T \cup {y} # {} /\ (T \cup {y}) \ {y} = T
    OBVIOUS
  <2>2. SumFunctionOnSet(f, T \cup {y}) = f[y] + SumFunctionOnSet(f, (T \cup {y}) \ {y})
    BY <1>1, <1>3, <2>1, SumUnfolds
  <2>. QED
    BY <2>1, <2>2
<1>4. 0 \in N
  <2> SUFFICES ASSUME NEW T \in SUBSET W, NEW y \in W \ T, Cardinality(T) = 0
               PROVE  SumFunctionOnSet(f, T \cup {y}) = f[y] + SumFunctionOnSet(f, T)
    OBVIOUS
  <2>1. T = {}
    BY <1>1, FS_EmptySet
  <2>2. Pick(T \cup {y}) = y
    BY <2>1 DEF Pick
  <2>. QED
    BY <1>3, <2>2
<1>5. ASSUME NEW n \in Nat, n \in N PROVE n + 1 \in N
  <2> SUFFICES ASSUME NEW T \in SUBSET W, NEW y \in W \ T, Cardinality(T) = n + 1
               PROVE  SumFunctionOnSet(f, T \cup {y}) = f[y] + SumFunctionOnSet(f, T)
    OBVIOUS
  <2>. DEFINE c == Pick(T \cup {y})   R == T \ {c}
  <2>1. CASE c = y
    BY <1>3, <2>1
  <2>2. CASE c # y
    <3>1. /\ T \cup {y} \in SUBSET W /\ T \cup {y} # {}
          /\ IsFiniteSet(T \cup {y}) /\ c \in T /\ T = R \cup {c}
          /\ (T \cup {y}) \ {c} = R \cup {y}
          /\ R \in SUBSET W /\ y \in W \ R /\ c \in W \ R /\ f[c] \in Int /\ f[y] \in Int
      <4>1. T \cup {y} \in SUBSET W /\ T \cup {y} # {}
        OBVIOUS
      <4>2. IsFiniteSet(T \cup {y})
        BY <1>1, <4>1
      <4>3. c \in T \cup {y}
        BY <4>1, <4>2, Picked
      <4>. QED
        BY <2>2, <4>1, <4>2, <4>3
    <3>2. Cardinality(R) = n
      <4>1. IsFiniteSet(T) /\ c \in T
        BY <1>1, <3>1
      <4>. HIDE DEF c
      <4>. QED
        BY <4>1, OneLess
    <3>3. SumFunctionOnSet(f, T \cup {y}) = f[c] + SumFunctionOnSet(f, R \cup {y})
      <4>1. SumFunctionOnSet(f, T \cup {y}) = f[c] + SumFunctionOnSet(f, (T \cup {y}) \ {c})
        BY <3>1, SumUnfolds
      <4>. QED
        BY <3>1, <4>1
    <3>. HIDE DEF c, R
    <3>4. SumFunctionOnSet(f, R \cup {y}) = f[y] + SumFunctionOnSet(f, R)
      BY <1>5, <3>1, <3>2
    <3>5. SumFunctionOnSet(f, R \cup {c}) = f[c] + SumFunctionOnSet(f, R)
      BY <1>5, <3>1, <3>2
    <3>6. SumFunctionOnSet(f, R) \in Int
      BY <1>2, <3>1
    <3>. QED
      BY <3>1, <3>3, <3>4, <3>5, <3>6
  <2>. QED
    BY <2>1, <2>2
<1>6. Nat \subseteq N
  <2>. HIDE DEF N
  <2>. QED
    BY <1>4, <1>5, SetInduction
<1>7. S \in SUBSET W /\ x \in W \ S
  OBVIOUS
<1>. QED
  BY <1>1, <1>6, <1>7

\* f is defined on S and has whole numbers there.
IntOn(f, S) == \A x \in S : f[x] \in Int

\* A step of an induction over the subsets of S.
LEMMA SumStep ==
    ASSUME NEW S, IsFiniteSet(S), NEW f, IntOn(f, S), NEW T \in SUBSET S, NEW x \in S \ T
    PROVE  /\ SumFunctionOnSet(f, T \cup {x}) = f[x] + SumFunctionOnSet(f, T)
           /\ SumFunctionOnSet(f, T) \in Int /\ f[x] \in Int /\ IsFiniteSet(T)
<1>1. IsFiniteSet(T) /\ x \notin T /\ f[x] \in Int /\ \A y \in T : f[y] \in Int
  BY FS_Subset DEF IntOn
<1>2. SumFunctionOnSet(f, T \cup {x}) = f[x] + SumFunctionOnSet(f, T)
  BY <1>1, SumOfMore
<1>3. SumFunctionOnSet(f, T) \in Int
  BY <1>1, SumType
<1>. QED
  BY <1>1, <1>2, <1>3

-----------------------------------------------------------------------------
LEMMA SumOfSame ==
    ASSUME NEW S, IsFiniteSet(S), NEW f, NEW g, IntOn(f, S), \A x \in S : g[x] = f[x]
    PROVE  SumFunctionOnSet(g, S) = SumFunctionOnSet(f, S)
<1>. DEFINE F == {T \in SUBSET S : SumFunctionOnSet(g, T) = SumFunctionOnSet(f, T)}
<1>1. {} \in F
  BY SumOfEmpty
<1>2. IntOn(g, S)
  BY DEF IntOn
<1>3. ASSUME NEW T \in SUBSET S, NEW x \in S \ T, T \in F PROVE T \cup {x} \in F
  <2>1. /\ SumFunctionOnSet(g, T \cup {x}) = g[x] + SumFunctionOnSet(g, T)
        /\ SumFunctionOnSet(f, T \cup {x}) = f[x] + SumFunctionOnSet(f, T)
    BY <1>2, SumStep
  <2>. QED
    BY <1>3, <2>1
<1>. HIDE DEF F
<1>4. S \in F
  BY <1>1, <1>3, SubsetInduction
<1>. QED
  BY <1>4 DEF F

\* h is the sum of f and g, on S.
IsSumOf(h, f, g, S) == \A x \in S : h[x] = f[x] + g[x]

LEMMA SumOfSums ==
    ASSUME NEW S, IsFiniteSet(S), NEW f, NEW g, NEW h, IntOn(f, S), IntOn(g, S),
           IsSumOf(h, f, g, S)
    PROVE  SumFunctionOnSet(h, S) = SumFunctionOnSet(f, S) + SumFunctionOnSet(g, S)
<1>. DEFINE F == {T \in SUBSET S : SumFunctionOnSet(h, T) =
                     SumFunctionOnSet(f, T) + SumFunctionOnSet(g, T)}
<1>1. {} \in F
  BY SumOfEmpty
<1>2. IntOn(h, S)
  BY DEF IntOn, IsSumOf
<1>3. ASSUME NEW T \in SUBSET S, NEW x \in S \ T, T \in F PROVE T \cup {x} \in F
  <2>1. SumFunctionOnSet(h, T \cup {x}) = h[x] + SumFunctionOnSet(h, T)
    BY <1>2, SumStep
  <2>2. SumFunctionOnSet(f, T \cup {x}) = f[x] + SumFunctionOnSet(f, T)
    BY SumStep
  <2>3. SumFunctionOnSet(g, T \cup {x}) = g[x] + SumFunctionOnSet(g, T)
    BY SumStep
  <2>6. SumFunctionOnSet(f, T) \in Int /\ f[x] \in Int
    BY SumStep
  <2>7. SumFunctionOnSet(g, T) \in Int /\ g[x] \in Int
    BY SumStep
  <2>4. /\ h[x] = f[x] + g[x]
        /\ SumFunctionOnSet(h, T) = SumFunctionOnSet(f, T) + SumFunctionOnSet(g, T)
    BY <1>3 DEF IsSumOf
  <2>5. SumFunctionOnSet(h, T \cup {x}) =
          SumFunctionOnSet(f, T \cup {x}) + SumFunctionOnSet(g, T \cup {x})
    BY <2>1, <2>2, <2>3, <2>4, <2>6, <2>7
  <2>. QED
    BY <2>5
<1>. HIDE DEF F
<1>4. S \in F
  BY <1>1, <1>3, SubsetInduction
<1>. QED
  BY <1>4 DEF F

LEMMA SumOfUnion ==
    ASSUME NEW A, NEW S, IsFiniteSet(A), IsFiniteSet(S), A \cap S = {},
           NEW f, IntOn(f, A), IntOn(f, S)
    PROVE  SumFunctionOnSet(f, A \cup S) = SumFunctionOnSet(f, A) + SumFunctionOnSet(f, S)
<1>. DEFINE F == {T \in SUBSET S : SumFunctionOnSet(f, A \cup T) =
                     SumFunctionOnSet(f, A) + SumFunctionOnSet(f, T)}
<1>0. SumFunctionOnSet(f, A) \in Int
  BY SumType DEF IntOn
<1>1. {} \in F
  <2>1. A \cup {} = A
    OBVIOUS
  <2>. QED
    BY <1>0, <2>1, SumOfEmpty
<1>2. ASSUME NEW T \in SUBSET S, NEW x \in S \ T, T \in F PROVE T \cup {x} \in F
  <2>1. IsFiniteSet(T) /\ IsFiniteSet(A \cup T)
    BY FS_Subset, FS_Union
  <2>2. /\ SumFunctionOnSet(f, T \cup {x}) = f[x] + SumFunctionOnSet(f, T)
        /\ SumFunctionOnSet(f, T) \in Int /\ f[x] \in Int
    BY SumStep
  <2>3. SumFunctionOnSet(f, (A \cup T) \cup {x}) = f[x] + SumFunctionOnSet(f, A \cup T)
    <3>1. x \notin A \cup T /\ f[x] \in Int /\ \A y \in A \cup T : f[y] \in Int
      BY DEF IntOn
    <3>. QED
      BY <2>1, <3>1, SumOfMore
  <2>4. A \cup (T \cup {x}) = (A \cup T) \cup {x}
    OBVIOUS
  <2>5. SumFunctionOnSet(f, A \cup T) = SumFunctionOnSet(f, A) + SumFunctionOnSet(f, T)
    BY <1>2
  <2>6. SumFunctionOnSet(f, A \cup (T \cup {x})) =
          SumFunctionOnSet(f, A) + SumFunctionOnSet(f, T \cup {x})
    <3>1. SumFunctionOnSet(f, A \cup (T \cup {x})) = f[x] + SumFunctionOnSet(f, A \cup T)
      BY <2>3, <2>4, Zenon
    <3>2. SumFunctionOnSet(f, T) \in Int /\ f[x] \in Int
      BY <2>2
    <3>3. f[x] + (SumFunctionOnSet(f, A) + SumFunctionOnSet(f, T)) =
            SumFunctionOnSet(f, A) + (f[x] + SumFunctionOnSet(f, T))
      BY <1>0, <3>2
    <3>. QED
      BY <2>2, <2>5, <3>1, <3>3, Zenon
  <2>. QED
    BY <2>6
<1>. HIDE DEF F
<1>3. S \in F
  BY <1>1, <1>2, SubsetInduction
<1>. QED
  BY <1>3 DEF F

\* h takes distinct elements of S apart, and g is what f is of what h makes of them.
Apart(h, S) == \A x, y \in S : h[x] = h[y] => x = y
Through(g, f, h, S) == \A x \in S : f[h[x]] \in Int /\ g[x] = f[h[x]]

\* The sum over the image of S.
LEMMA SumOfImage ==
    ASSUME NEW S, IsFiniteSet(S), NEW h, Apart(h, S), NEW f, NEW g, Through(g, f, h, S)
    PROVE  /\ IsFiniteSet({h[x] : x \in S})
           /\ SumFunctionOnSet(f, {h[x] : x \in S}) = SumFunctionOnSet(g, S)
<1>. DEFINE F == {T \in SUBSET S :
                     /\ IsFiniteSet({h[x] : x \in T})
                     /\ SumFunctionOnSet(f, {h[x] : x \in T}) = SumFunctionOnSet(g, T)}
<1>1. {} \in F
  <2>1. {h[x] : x \in {}} = {}
    OBVIOUS
  <2>. QED
    BY <2>1, SumOfEmpty, FS_EmptySet
<1>2. ASSUME NEW T \in SUBSET S, NEW y \in S \ T, T \in F PROVE T \cup {y} \in F
  <2>. DEFINE image == {h[x] : x \in T}
  <2>1. IsFiniteSet(T) /\ IsFiniteSet(image)
    BY <1>2, FS_Subset
  <2>2. {h[x] : x \in T \cup {y}} = image \cup {h[y]}
    OBVIOUS
  <2>3. h[y] \notin image /\ f[h[y]] \in Int /\ \A z \in image : f[z] \in Int
    BY DEF Apart, Through
  <2>4. SumFunctionOnSet(f, image) = SumFunctionOnSet(g, T)
    BY <1>2
  <2>. HIDE DEF image
  <2>5. SumFunctionOnSet(f, image \cup {h[y]}) = f[h[y]] + SumFunctionOnSet(f, image)
    BY <2>1, <2>3, SumOfMore
  <2>6. SumFunctionOnSet(g, T \cup {y}) = g[y] + SumFunctionOnSet(g, T)
    <3>1. IntOn(g, S)
      BY DEF IntOn, Through
    <3>. QED
      BY <3>1, SumStep
  <2>8. g[y] = f[h[y]]
    BY DEF Through
  <2>7. IsFiniteSet(image \cup {h[y]})
    BY <2>1, FS_AddElement
  <2>. QED
    BY <2>2, <2>4, <2>5, <2>6, <2>7, <2>8
<1>. HIDE DEF F
<1>3. S \in F
  BY <1>1, <1>2, SubsetInduction
<1>. QED
  BY <1>3 DEF F

\* Counting is summing ones.
LEMMA SumCounts ==
    ASSUME NEW S, IsFiniteSet(S), NEW A \in SUBSET S,
           NEW f, \A x \in S : f[x] = IF x \in A THEN 1 ELSE 0
    PROVE  SumFunctionOnSet(f, S) = Cardinality(A)
<1>. DEFINE F == {T \in SUBSET S : SumFunctionOnSet(f, T) = Cardinality(A \cap T)}
<1>1. {} \in F
  <2>1. A \cap {} = {}
    OBVIOUS
  <2>. QED
    BY <2>1, SumOfEmpty, FS_EmptySet
<1>2. ASSUME NEW T \in SUBSET S, NEW x \in S \ T, T \in F PROVE T \cup {x} \in F
  <2> SUFFICES SumFunctionOnSet(f, T \cup {x}) = Cardinality(A \cap (T \cup {x}))
    OBVIOUS
  <2>1. IsFiniteSet(A \cap T)
    BY FS_Subset
  <2>2. SumFunctionOnSet(f, T \cup {x}) = f[x] + Cardinality(A \cap T)
    <3>1. IntOn(f, S)
      BY DEF IntOn
    <3>2. SumFunctionOnSet(f, T \cup {x}) = f[x] + SumFunctionOnSet(f, T)
      BY <3>1, SumStep
    <3>. QED
      BY <1>2, <3>2
  <2>3. Cardinality(A \cap T) \in Nat
    BY <2>1, FS_CardinalityType
  <2>4. CASE x \in A
    <3>1. A \cap (T \cup {x}) = (A \cap T) \cup {x} /\ x \notin A \cap T
      BY <2>4
    <3>2. Cardinality((A \cap T) \cup {x}) = Cardinality(A \cap T) + 1
      BY <2>1, <3>1, FS_AddElement
    <3>3. f[x] = 1
      BY <2>4
    <3>4. f[x] + Cardinality(A \cap T) = Cardinality(A \cap T) + 1
      BY <2>3, <3>3
    <3>. QED
      BY <2>2, <3>1, <3>2, <3>4, Zenon
  <2>5. CASE x \notin A
    <3>1. A \cap (T \cup {x}) = A \cap T
      BY <2>5
    <3>2. f[x] = 0
      BY <2>5
    <3>3. f[x] + Cardinality(A \cap T) = Cardinality(A \cap T)
      BY <2>3, <3>2
    <3>. QED
      BY <2>2, <3>1, <3>3, Zenon
  <2>. QED
    BY <2>4, <2>5
<1>. HIDE DEF F
<1>3. S \in F
  BY <1>1, <1>2, SubsetInduction
<1>4. A \cap S = A
  OBVIOUS
<1>. QED
  BY <1>3, <1>4 DEF F

\* g has the sums of the rows of f.
IsRowSums(g, f, A, B) == \A a \in A : g[a] = SumFunctionOnSet([b \in B |-> f[<<a, b>>]], B)

\* A sum over pairs is a sum of sums.
LEMMA SumOfPairs ==
    ASSUME NEW A, IsFiniteSet(A), NEW B, IsFiniteSet(B),
           NEW f, IntOn(f, A \X B), NEW g, IsRowSums(g, f, A, B)
    PROVE  SumFunctionOnSet(f, A \X B) = SumFunctionOnSet(g, A)
<1>. DEFINE F == {T \in SUBSET A : SumFunctionOnSet(f, T \X B) = SumFunctionOnSet(g, T)}
<1>1. {} \in F
  <2>1. {} \X B = {}
    OBVIOUS
  <2>. QED
    BY <2>1, SumOfEmpty
<1>2. IntOn(g, A)
  <2> SUFFICES ASSUME NEW a \in A PROVE SumFunctionOnSet([b \in B |-> f[<<a, b>>]], B) \in Int
    BY DEF IntOn, IsRowSums
  <2>1. \A b \in B : [c \in B |-> f[<<a, c>>]][b] \in Int
    BY DEF IntOn
  <2>. QED
    BY <2>1, SumType
<1>3. ASSUME NEW T \in SUBSET A, NEW x \in A \ T, T \in F PROVE T \cup {x} \in F
  <2> SUFFICES SumFunctionOnSet(f, (T \cup {x}) \X B) = SumFunctionOnSet(g, T \cup {x})
    OBVIOUS
  <2>. DEFINE row == {x} \X B   h == [b \in B |-> <<x, b>>]   v == [b \in B |-> f[<<x, b>>]]
  <2>1. /\ SumFunctionOnSet(g, T \cup {x}) = g[x] + SumFunctionOnSet(g, T)
        /\ SumFunctionOnSet(g, T) \in Int /\ g[x] \in Int /\ IsFiniteSet(T)
    BY <1>2, SumStep
  <2>2. row = {h[b] : b \in B}
    OBVIOUS
  <2>3. Apart(h, B) /\ Through(v, f, h, B)
    BY DEF Apart, Through, IntOn
  <2>4. SumFunctionOnSet(v, B) = g[x]
    BY DEF IsRowSums
  <2>. HIDE DEF h, v
  <2>5. IsFiniteSet(row) /\ SumFunctionOnSet(f, row) = g[x]
    <3>. HIDE DEF row
    <3>. QED
      BY <2>2, <2>3, <2>4, SumOfImage
  <2>6. IsFiniteSet(T \X B)
    BY <2>1, FS_Product
  <2>7. (T \cup {x}) \X B = (T \X B) \cup row /\ (T \X B) \cap row = {}
    OBVIOUS
  <2>8. IntOn(f, T \X B) /\ IntOn(f, row)
    BY DEF IntOn
  <2>9. SumFunctionOnSet(f, (T \X B) \cup row) =
          SumFunctionOnSet(f, T \X B) + SumFunctionOnSet(f, row)
    <3>. HIDE DEF row
    <3>. QED
      BY <2>5, <2>6, <2>7, <2>8, SumOfUnion
  <2>10. SumFunctionOnSet(f, T \X B) = SumFunctionOnSet(g, T)
    BY <1>3
  <2>. HIDE DEF row
  <2>11. SumFunctionOnSet(g, T) + g[x] = g[x] + SumFunctionOnSet(g, T)
    BY <2>1
  <2>. QED
    BY <2>1, <2>5, <2>7, <2>9, <2>10, <2>11, Zenon
<1>. HIDE DEF F
<1>4. A \in F
  BY <1>1, <1>3, SubsetInduction
<1>. QED
  BY <1>4 DEF F

\* Each two elements share two points, as does each with itself.
SharesTwo(f, A) ==
    \A a, b \in A : f[<<a, b>>] \in Int /\ f[<<a, b>>] + f[<<b, a>>] = 2

LEMMA SumOfSquare ==
    ASSUME NEW A, IsFiniteSet(A), NEW f, SharesTwo(f, A), NEW g, IsRowSums(g, f, A, A)
    PROVE  SumFunctionOnSet(g, A) = Cardinality(A) * Cardinality(A)
<1>. DEFINE Row(a) == [b \in A |-> f[<<a, b>>]]
            Rows(T) == [a \in A |-> SumFunctionOnSet(Row(a), T)]
            F == {T \in SUBSET A :
                     SumFunctionOnSet(Rows(T), T) = Cardinality(T) * Cardinality(T)}
<1>1. {} \in F
  BY SumOfEmpty, FS_EmptySet
<1>2. \A T \in SUBSET A : IntOn(Rows(T), A)
  <2> SUFFICES ASSUME NEW T \in SUBSET A, NEW a \in A PROVE SumFunctionOnSet(Row(a), T) \in Int
    BY DEF IntOn
  <2>1. IsFiniteSet(T) /\ \A b \in T : Row(a)[b] \in Int
    BY FS_Subset DEF SharesTwo
  <2>. HIDE DEF Row
  <2>. QED
    BY <2>1, SumType
<1>3. ASSUME NEW T \in SUBSET A, NEW x \in A \ T, T \in F PROVE T \cup {x} \in F
  <2>. DEFINE W == T \cup {x}   column == [a \in A |-> f[<<a, x>>]]   n == Cardinality(T)
              two == [a \in A |-> 2]   one == [a \in A |-> 1]
  <2>1. IsFiniteSet(T) /\ n \in Nat /\ Cardinality(W) = n + 1 /\ W \in SUBSET A
    BY FS_Subset, FS_AddElement, FS_CardinalityType
  <2>2. \A a \in A : Rows(W)[a] = column[a] + Rows(T)[a]
    <3> SUFFICES ASSUME NEW a \in A
                 PROVE  SumFunctionOnSet(Row(a), W) = f[<<a, x>>] + SumFunctionOnSet(Row(a), T)
      OBVIOUS
    <3>1. IntOn(Row(a), A) /\ Row(a)[x] = f[<<a, x>>]
      BY DEF IntOn, SharesTwo
    <3>. HIDE DEF Row
    <3>. QED
      BY <3>1, SumStep
  <2>3. IntOn(column, A) /\ IntOn(column, T)
    BY DEF IntOn, SharesTwo
  <2>4. SumFunctionOnSet(Rows(W), W) = Rows(W)[x] + SumFunctionOnSet(Rows(W), T)
    <3>1. IntOn(Rows(W), A)
      BY <1>2, <2>1
    <3>. HIDE DEF Rows
    <3>. QED
      BY <3>1, SumStep
  <2>5. SumFunctionOnSet(Rows(W), T) = SumFunctionOnSet(column, T) + SumFunctionOnSet(Rows(T), T)
    <3>. HIDE DEF Rows, column, W
    <3>1. IntOn(Rows(T), T) /\ IsSumOf(Rows(W), column, Rows(T), T)
      BY <1>2, <2>2 DEF IntOn, IsSumOf
    <3>. QED
      BY <2>1, <2>3, <3>1, SumOfSums
  <2>6. SumFunctionOnSet(two, T) = SumFunctionOnSet(column, T) + SumFunctionOnSet(Row(x), T)
    <3>1. IntOn(Row(x), T) /\ IsSumOf(two, column, Row(x), T)
      BY DEF IntOn, IsSumOf, SharesTwo
    <3>. HIDE DEF Row, column, two
    <3>. QED
      BY <2>1, <2>3, <3>1, SumOfSums
  <2>7. SumFunctionOnSet(two, T) = n + n
    <3>1. /\ IntOn(one, T)
          /\ IsSumOf(two, one, one, T) /\ \A a \in T : one[a] = IF a \in T THEN 1 ELSE 0
      BY DEF IntOn, IsSumOf
    <3>. HIDE DEF one, two
    <3>2. SumFunctionOnSet(one, T) = n
      BY <2>1, <3>1, SumCounts
    <3>3. SumFunctionOnSet(two, T) = SumFunctionOnSet(one, T) + SumFunctionOnSet(one, T)
      BY <2>1, <3>1, SumOfSums
    <3>. QED
      BY <3>2, <3>3
  <2>8. Rows(W)[x] = f[<<x, x>>] + SumFunctionOnSet(Row(x), T) /\ f[<<x, x>>] = 1
    <3>1. Rows(W)[x] = column[x] + Rows(T)[x]
      BY <2>2
    <3>2. column[x] = f[<<x, x>>] /\ Rows(T)[x] = SumFunctionOnSet(Row(x), T)
      OBVIOUS
    <3>3. f[<<x, x>>] \in Int /\ f[<<x, x>>] + f[<<x, x>>] = 2
      BY DEF SharesTwo
    <3>4. f[<<x, x>>] = 1
      BY <3>3
    <3>. QED
      BY <3>1, <3>2, <3>4, Zenon
  <2>9. SumFunctionOnSet(Row(x), T) \in Int /\ SumFunctionOnSet(column, T) \in Int
    <3>1. SumFunctionOnSet(Row(x), T) \in Int
      BY <1>2 DEF IntOn
    <3>2. \A a \in T : column[a] \in Int
      BY <2>3 DEF IntOn
    <3>. HIDE DEF column
    <3>. QED
      BY <2>1, <3>1, <3>2, SumType
  <2>10. SumFunctionOnSet(Rows(T), T) = n * n
    BY <1>3
  <2>. HIDE DEF Rows, Row, column, two, W
  <2>. DEFINE square == n * n
  <2>11. SumFunctionOnSet(Rows(W), W) = square + n + n + 1
    <3>1. square \in Int /\ n \in Nat /\ SumFunctionOnSet(Rows(T), T) = square
      BY <2>1, <2>10
    <3>. HIDE DEF square, n
    <3>2. SumFunctionOnSet(column, T) + SumFunctionOnSet(Row(x), T) = n + n
      BY <2>6, <2>7
    <3>3. Rows(W)[x] = 1 + SumFunctionOnSet(Row(x), T)
      BY <2>8
    <3>. QED
      BY <2>4, <2>5, <2>9, <3>1, <3>2, <3>3
  <2>12. (n + 1) * (n + 1) = square + n + n + 1
    BY <2>1
  <2>. HIDE DEF n, square
  <2>13. SumFunctionOnSet(Rows(W), W) = Cardinality(W) * Cardinality(W)
    BY <2>1, <2>11, <2>12, Zenon
  <2>. QED
    BY <2>1, <2>13 DEF W, F
<1>. HIDE DEF F
<1>4. A \in F
  BY <1>1, <1>3, SubsetInduction
<1>5. IntOn(Rows(A), A) /\ \A a \in A : g[a] = Rows(A)[a]
  BY <1>2 DEF IsRowSums
<1>. HIDE DEF Rows
<1>6. SumFunctionOnSet(g, A) = SumFunctionOnSet(Rows(A), A)
  BY <1>5, SumOfSame
<1>. QED
  BY <1>4, <1>6 DEF F

-----------------------------------------------------------------------------
\* A set of positions with every position before one of them is an initial part.
LEMMA FirstOnes ==
    ASSUME NEW n \in Nat, NEW A \in SUBSET (1 .. n),
           \A i \in A : \A j \in 1 .. n : j < i => j \in A
    PROVE  A = 1 .. Cardinality(A) /\ Cardinality(A) \in 0 .. n
<1>. DEFINE Initial(m, T) == \A i \in T : \A j \in 1 .. m : j < i => j \in T
            N == {m \in Nat : \A T \in SUBSET (1 .. m) :
                     Initial(m, T) => \E c \in 0 .. m : T = 1 .. c}
<1>1. 0 \in N
  <2>1. 1 .. 0 = {} /\ 0 \in 0 .. 0
    OBVIOUS
  <2>2. \A T \in SUBSET {} : T = {}
    OBVIOUS
  <2>3. \A T \in SUBSET (1 .. 0) : T = 1 .. 0
    BY <2>1, <2>2, Zenon
  <2>. QED
    BY <2>1, <2>3
<1>2. ASSUME NEW m \in Nat, m \in N PROVE m + 1 \in N
  <2> SUFFICES ASSUME NEW T \in SUBSET (1 .. m + 1), Initial(m + 1, T)
               PROVE  \E c \in 0 .. m + 1 : T = 1 .. c
    OBVIOUS
  <2>1. CASE m + 1 \in T
    <3>1. \A j \in 1 .. m + 1 : j = m + 1 \/ j < m + 1
      OBVIOUS
    <3>2. \A j \in 1 .. m + 1 : j \in T
      BY <2>1, <3>1
    <3>3. T = 1 .. m + 1
      BY <3>2
    <3>. QED
      BY <3>3
  <2>2. CASE m + 1 \notin T
    <3>1. T \in SUBSET (1 .. m) /\ Initial(m, T)
      BY <2>2
    <3>2. PICK c \in 0 .. m : T = 1 .. c
      BY <1>2, <3>1
    <3>. QED
      BY <3>2
  <2>. QED
    BY <2>1, <2>2
<1>3. n \in N
  <2>. HIDE DEF N
  <2>. QED
    BY <1>1, <1>2, SetInduction
<1>4. PICK c \in 0 .. n : A = 1 .. c
  BY <1>3
<1>5. Cardinality(1 .. c) = c
  BY FS_Interval
<1>. QED
  BY <1>4, <1>5

-----------------------------------------------------------------------------
\* n items with whole scores, the lowest first.
Ranked(items, n) ==
    /\ DOMAIN items = 1 .. n /\ \A i \in 1 .. n : items[i].score \in Int
    /\ \A i, j \in 1 .. n : i < j => items[i].score <= items[j].score

\* The items with a score below that of the k-th, and those with no higher one.
Below(items, k) == {i \in DOMAIN items : items[i].score < items[k].score}
Upto(items, k) == {i \in DOMAIN items : items[i].score <= items[k].score}

\* A run of ties lies between the two.
LEMMA MidrankCounts ==
    ASSUME NEW n \in Nat, NEW items, Ranked(items, n), NEW k \in 1 .. n
    PROVE  /\ TwiceMidrank(items, k) =
                1 + Cardinality(Below(items, k)) + Cardinality(Upto(items, k))
           /\ Cardinality(Below(items, k)) \in Nat /\ Cardinality(Upto(items, k)) \in Nat
<1>. DEFINE run == {i \in DOMAIN items : items[i].score = items[k].score}
            A == Below(items, k)   B == Upto(items, k)
            b == Cardinality(A)    c == Cardinality(B)
<1>1. A = 1 .. b /\ b \in 0 .. n
  <2>1. A \in SUBSET (1 .. n) /\ \A i \in A : \A j \in 1 .. n : j < i => j \in A
    BY DEF Ranked, Below
  <2>. HIDE DEF A
  <2>. QED
    BY <2>1, FirstOnes
<1>2. B = 1 .. c /\ c \in 0 .. n
  <2>1. B \in SUBSET (1 .. n) /\ \A i \in B : \A j \in 1 .. n : j < i => j \in B
    BY DEF Ranked, Upto
  <2>. HIDE DEF B
  <2>. QED
    BY <2>1, FirstOnes
<1>3. run = B \ A /\ k \in run
  BY DEF Ranked, Below, Upto
<1>. HIDE DEF A, B, run, b, c
<1>4. b + 1 <= c /\ run = b + 1 .. c
  BY <1>1, <1>2, <1>3
<1>5. Min(run) = b + 1
  <2>1. b + 1 \in run /\ \A y \in run : b + 1 <= y
    BY <1>1, <1>2, <1>4
  <2>2. \A x \in run : (\A y \in run : x <= y) => x = b + 1
    BY <1>1, <1>2, <1>4
  <2>. QED
    BY <2>1, <2>2 DEF Min
<1>6. Max(run) = c
  <2>1. c \in run /\ \A y \in run : c >= y
    BY <1>1, <1>2, <1>4
  <2>2. \A x \in run : (\A y \in run : x >= y) => x = c
    BY <1>1, <1>2, <1>4
  <2>. QED
    BY <2>1, <2>2 DEF Max
<1>7. TwiceMidrank(items, k) = Min(run) + Max(run)
  BY DEF TwiceMidrank, run
<1>. QED
  BY <1>1, <1>2, <1>5, <1>6, <1>7 DEF A, B, b, c

\* What the k-th item wins against each of the others, and against itself.
Wins(items, k) == [j \in DOMAIN items |-> Worth(items[k], items[j])]

LEMMA WorthIs ==
    ASSUME NEW n \in Nat, NEW items, Ranked(items, n), NEW k \in 1 .. n, NEW j \in 1 .. n
    PROVE  /\ Worth(items[k], items[j]) \in Int
           /\ Worth(items[k], items[j]) + Worth(items[j], items[k]) = 2
           /\ Worth(items[k], items[j]) =
                (IF j \in Below(items, k) THEN 1 ELSE 0) + (IF j \in Upto(items, k) THEN 1 ELSE 0)
BY DEF Ranked, Worth, Below, Upto

LEMMA MidrankWins ==
    ASSUME NEW n \in Nat, NEW items, Ranked(items, n), NEW k \in 1 .. n
    PROVE  /\ TwiceMidrank(items, k) = 1 + SumFunctionOnSet(Wins(items, k), 1 .. n)
           /\ SumFunctionOnSet(Wins(items, k), 1 .. n) \in Int
<1>. DEFINE I == 1 .. n   A == Below(items, k)   B == Upto(items, k)
            f == [j \in I |-> IF j \in A THEN 1 ELSE 0]
            g == [j \in I |-> IF j \in B THEN 1 ELSE 0]
<1>1. IsFiniteSet(I) /\ A \in SUBSET I /\ B \in SUBSET I
  <2>1. IsFiniteSet(I)
    BY FS_Interval
  <2>. QED
    BY <2>1 DEF Ranked, Below, Upto
<1>2. IsSumOf(Wins(items, k), f, g, I)
  <2> SUFFICES ASSUME NEW j \in I PROVE Wins(items, k)[j] = f[j] + g[j]
    BY DEF IsSumOf
  <2>1. Wins(items, k)[j] = Worth(items[k], items[j])
    BY DEF Wins, Ranked
  <2>. QED
    BY <2>1, WorthIs
<1>3. IntOn(f, I) /\ IntOn(g, I)
  BY DEF IntOn
<1>4. \A j \in I : f[j] = IF j \in A THEN 1 ELSE 0
  OBVIOUS
<1>5. \A j \in I : g[j] = IF j \in B THEN 1 ELSE 0
  OBVIOUS
<1>. HIDE DEF I, A, B, f, g
<1>6. SumFunctionOnSet(f, I) = Cardinality(A)
  BY <1>1, <1>4, SumCounts
<1>7. SumFunctionOnSet(g, I) = Cardinality(B)
  BY <1>1, <1>5, SumCounts
<1>8. SumFunctionOnSet(Wins(items, k), I) = Cardinality(A) + Cardinality(B)
  BY <1>1, <1>2, <1>3, <1>6, <1>7, SumOfSums
<1>. QED
  BY <1>8, MidrankCounts DEF A, B, I

\* What the items win against each other.
Games(items) ==
    [pair \in (DOMAIN items) \X (DOMAIN items) |-> Worth(items[pair[1]], items[pair[2]])]

LEMMA GamesAre ==
    ASSUME NEW n \in Nat, NEW items, Ranked(items, n), NEW a \in 1 .. n, NEW b \in 1 .. n
    PROVE  /\ Games(items)[<<a, b>>] \in Int
           /\ Games(items)[<<a, b>>] + Games(items)[<<b, a>>] = 2
           /\ Wins(items, a)[b] = Games(items)[<<a, b>>]
<1>1. DOMAIN items = 1 .. n
  BY DEF Ranked
<1>2. /\ Games(items)[<<a, b>>] = Worth(items[a], items[b])
      /\ Games(items)[<<b, a>>] = Worth(items[b], items[a])
      /\ Wins(items, a)[b] = Worth(items[a], items[b])
  BY <1>1 DEF Games, Wins
<1>3. Worth(items[a], items[b]) \in Int /\ Worth(items[a], items[b]) + Worth(items[b], items[a]) = 2
  BY WorthIs
<1>. QED
  BY <1>2, <1>3, Zenon

\* The wins of one item over some.
LEMMA WinsOver ==
    ASSUME NEW n \in Nat, NEW items, Ranked(items, n), NEW a \in 1 .. n, NEW T \in SUBSET (1 .. n)
    PROVE  /\ IntOn(Wins(items, a), T) /\ SumFunctionOnSet(Wins(items, a), T) \in Int
           /\ SumFunctionOnSet([b \in T |-> Games(items)[<<a, b>>]], T) =
                SumFunctionOnSet(Wins(items, a), T)
<1>. DEFINE row == [b \in T |-> Games(items)[<<a, b>>]]   w == Wins(items, a)
<1>1. \A b \in T : row[b] = w[b] /\ w[b] \in Int
  BY GamesAre
<1>2. IsFiniteSet(T)
  <2>1. IsFiniteSet(1 .. n)
    BY FS_Interval
  <2>. QED
    BY <2>1, FS_Subset
<1>. HIDE DEF row, w
<1>3. IntOn(w, T) /\ \A b \in T : row[b] = w[b]
  BY <1>1 DEF IntOn
<1>4. SumFunctionOnSet(row, T) = SumFunctionOnSet(w, T)
  BY <1>2, <1>3, SumOfSame
<1>5. SumFunctionOnSet(w, T) \in Int
  BY <1>1, <1>2, SumType
<1>. QED
  BY <1>3, <1>4, <1>5 DEF row, w

\* The rank sum of some items counts what they win against the others: the
\* wins among themselves are their number, squared.
LEMMA RankSum ==
    ASSUME NEW n \in Nat, NEW items, Ranked(items, n), NEW P \in SUBSET (1 .. n)
    PROVE  SumFunctionOnSet([k \in P |-> TwiceMidrank(items, k)], P) =
             Cardinality(P) * (Cardinality(P) + 1)
             + SumFunctionOnSet(Games(items), P \X ((1 .. n) \ P))
<1>. DEFINE I == 1 .. n   N == I \ P   p == Cardinality(P)   G == Games(items)
            sum(k, T) == SumFunctionOnSet(Wins(items, k), T)
            ranks == [k \in P |-> TwiceMidrank(items, k)]
            one == [k \in P |-> 1]   inP == [k \in P |-> sum(k, P)]
            inN == [k \in P |-> sum(k, N)]   all == [k \in P |-> sum(k, I)]
<1>1. IsFiniteSet(P) /\ IsFiniteSet(N) /\ P \cap N = {} /\ P \cup N = I /\ p \in Nat
  <2>1. IsFiniteSet(I)
    BY FS_Interval
  <2>. QED
    BY <2>1, FS_Subset, FS_CardinalityType
<1>2. IsSumOf(all, inP, inN, P) /\ IntOn(inP, P) /\ IntOn(inN, P) /\ IntOn(all, P)
  <2> SUFFICES ASSUME NEW k \in P
               PROVE  /\ sum(k, I) = sum(k, P) + sum(k, N)
                      /\ sum(k, P) \in Int /\ sum(k, N) \in Int /\ sum(k, I) \in Int
    BY DEF IsSumOf, IntOn
  <2>1. /\ IntOn(Wins(items, k), P) /\ sum(k, P) \in Int
        /\ IntOn(Wins(items, k), N) /\ sum(k, N) \in Int /\ sum(k, I) \in Int
    BY WinsOver
  <2>2. SumFunctionOnSet(Wins(items, k), P \cup N) = sum(k, P) + sum(k, N)
    <3>. HIDE DEF N
    <3>. QED
      BY <1>1, <2>1, SumOfUnion
  <2>. QED
    BY <1>1, <2>1, <2>2, Zenon
<1>3. IsSumOf(ranks, one, all, P) /\ IntOn(one, P) /\ \A k \in P : one[k] = IF k \in P THEN 1 ELSE 0
  <2>1. \A k \in P : TwiceMidrank(items, k) = 1 + sum(k, I)
    BY MidrankWins
  <2>. QED
    BY <2>1 DEF IsSumOf, IntOn
<1>4. SumFunctionOnSet(inP, P) = p * p
  <2>1. SharesTwo(G, P)
    <3> SUFFICES ASSUME NEW a \in P, NEW b \in P
                 PROVE  G[<<a, b>>] \in Int /\ G[<<a, b>>] + G[<<b, a>>] = 2
      BY DEF SharesTwo
    <3>. QED
      BY GamesAre
  <2>2. IsRowSums(inP, G, P, P)
    BY WinsOver DEF IsRowSums
  <2>. HIDE DEF G, inP
  <2>. QED
    BY <1>1, <2>1, <2>2, SumOfSquare
<1>5. SumFunctionOnSet(inN, P) = SumFunctionOnSet(G, P \X N)
  <2>1. IntOn(G, P \X N)
    <3>1. \A a \in P : \A b \in N : G[<<a, b>>] \in Int
      BY GamesAre
    <3>. HIDE DEF G, N
    <3>2. \A pair \in P \X N : pair[1] \in P /\ pair[2] \in N /\ pair = <<pair[1], pair[2]>>
      OBVIOUS
    <3>. QED
      BY <3>1, <3>2, Zenon DEF IntOn
  <2>2. IsRowSums(inN, G, P, N)
    <3> SUFFICES ASSUME NEW a \in P
                 PROVE  sum(a, N) = SumFunctionOnSet([b \in N |-> G[<<a, b>>]], N)
      BY DEF IsRowSums
    <3>1. N \in SUBSET (1 .. n) /\ a \in 1 .. n
      OBVIOUS
    <3>. HIDE DEF N
    <3>. QED
      BY <3>1, WinsOver
  <2>. HIDE DEF G, inN, N
  <2>. QED
    BY <1>1, <2>1, <2>2, SumOfPairs
<1>6. SumFunctionOnSet(inN, P) \in Int
  <2>1. \A k \in P : inN[k] \in Int
    BY <1>2 DEF IntOn
  <2>. HIDE DEF inN
  <2>. QED
    BY <1>1, <2>1, SumType
<1>. HIDE DEF ranks, one, inP, inN, all, p, G, N
<1>7. SumFunctionOnSet(ranks, P) = SumFunctionOnSet(one, P) + SumFunctionOnSet(all, P)
  BY <1>1, <1>2, <1>3, SumOfSums
<1>8. SumFunctionOnSet(all, P) = SumFunctionOnSet(inP, P) + SumFunctionOnSet(inN, P)
  BY <1>1, <1>2, SumOfSums
<1>9. SumFunctionOnSet(one, P) = p
  <2>1. P \in SUBSET P
    OBVIOUS
  <2>. QED
    BY <1>1, <1>3, <2>1, SumCounts DEF p
<1>10. p * (p + 1) = p + p * p
  BY <1>1
<1>11. SumFunctionOnSet(ranks, P) = p * (p + 1) + SumFunctionOnSet(G, P \X N)
  BY <1>1, <1>4, <1>5, <1>6, <1>7, <1>8, <1>9, <1>10
<1>. QED
  BY <1>11 DEF ranks, p, G, N

-----------------------------------------------------------------------------
\* items are the records in the order o, the lowest score first.
SortedBy(items, o) ==
    LET I == 1 .. Len(records)
    IN  /\ o \in [I -> I] /\ Apart(o, I) /\ \A r \in I : \E i \in I : o[i] = r
        /\ \A i \in I : items[i] = records[o[i]]
        /\ Ranked(items, Len(records))

LEMMA RecordTypes ==
    ASSUME RecordsInv
    PROVE  /\ Len(records) \in Nat /\ DOMAIN records = 1 .. Len(records)
           /\ IsFiniteSet(1 .. Len(records))
           /\ \A r \in 1 .. Len(records) : records[r].score \in Nat
<1>1. Len(records) \in Nat /\ DOMAIN records = 1 .. Len(records)
  BY DEF RecordsInv
<1>2. IsFiniteSet(1 .. Len(records))
  BY <1>1, FS_Interval
<1>3. \A r \in 1 .. Len(records) : records[r].score \in Nat
  <2> SUFFICES ASSUME NEW r \in 1 .. Len(records) PROVE records[r].score \in Nat
    OBVIOUS
  <2>. DEFINE R == [verdict : Verdicts, tokens : Nat, score : Nat, wouldEscalate : BOOLEAN]
  <2>1. records \in Seq(R)
    BY DEF RecordsInv
  <2>2. records[r] \in R
    <3>. HIDE DEF R
    <3>. QED
      BY <2>1
  <2>. QED
    BY <2>2
<1>. QED
  BY <1>1, <1>2, <1>3

LEMMA SortsAre ==
    ASSUME RecordsInv, NEW items \in Sorts
    PROVE  \E o : SortedBy(items, o)
<1>. DEFINE I == 1 .. Len(records)
<1>1. PICK o \in Bijection(I, I) :
         /\ items = [i \in I |-> records[o[i]]]
         /\ \A i, j \in I : i < j => records[o[i]].score <= records[o[j]].score
  BY RecordTypes DEF Sorts
<1>2. o \in [I -> I] /\ Apart(o, I) /\ \A r \in I : \E i \in I : o[i] = r
  BY <1>1 DEF Bijection, Injection, Surjection, IsInjective, Apart
<1>3. Ranked(items, Len(records))
  <2>1. DOMAIN items = I /\ \A i \in I : items[i] = records[o[i]] /\ o[i] \in I
    BY <1>1, <1>2
  <2>2. \A r \in I : records[r].score \in Int
    BY RecordTypes
  <2>. HIDE DEF I
  <2>3. \A i, j \in I : i < j => items[i].score <= items[j].score
    BY <1>1, <2>1, Zenon
  <2>4. \A i \in I : items[i].score \in Int
    BY <2>1, <2>2, Zenon
  <2>. QED
    BY <2>1, <2>3, <2>4, Zenon DEF Ranked, I
<1>. QED
  BY <1>1, <1>2, <1>3 DEF SortedBy

\* However ties are sorted, the rank sum of the unacceptable drafts counts
\* what their records win against the others.
LEMMA RanksCountWins ==
    ASSUME RecordsInv, NEW items \in Sorts
    PROVE  TwiceU(items) =
             SumFunction([pair \in Pairs |-> Worth(records[pair[1]], records[pair[2]])])
<1>. DEFINE n == Len(records)   I == 1 .. n   P == Positives(items)   N == I \ P
            G == Games(items)   p == Cardinality(P)
            W == [pair \in Pairs |-> Worth(records[pair[1]], records[pair[2]])]
            ranks == [k \in P |-> TwiceMidrank(items, k)]
<1>1. PICK o : SortedBy(items, o)
  BY SortsAre
<1>. DEFINE h == [pair \in P \X N |-> <<o[pair[1]], o[pair[2]]>>]
<1>2. /\ n \in Nat /\ Ranked(items, n) /\ DOMAIN items = I /\ P \in SUBSET I /\ N \in SUBSET I
      /\ DOMAIN records = I /\ IsFiniteSet(P \X N) /\ p \in Nat
  <2>1. n \in Nat /\ Ranked(items, n) /\ DOMAIN items = I /\ DOMAIN records = I /\ IsFiniteSet(I)
    BY <1>1, RecordTypes DEF SortedBy, Ranked
  <2>2. P \in SUBSET I /\ N \in SUBSET I
    BY <2>1 DEF Positives
  <2>3. IsFiniteSet(P) /\ IsFiniteSet(N)
    BY <2>1, <2>2, FS_Subset
  <2>. QED
    BY <2>1, <2>2, <2>3, FS_Product, FS_CardinalityType
<1>3. /\ \A i \in I : o[i] \in I /\ items[i] = records[o[i]]
      /\ \A i, j \in I : o[i] = o[j] => i = j
      /\ \A r \in I : \E i \in I : o[i] = r
      /\ \A i \in I : i \in P <=> o[i] \in Positives(records)
  <2>1. /\ \A i \in I : o[i] \in I /\ items[i] = records[o[i]]
        /\ \A i, j \in I : o[i] = o[j] => i = j
        /\ \A r \in I : \E i \in I : o[i] = r
    BY <1>1 DEF SortedBy, Apart
  <2>. QED
    BY <1>2, <2>1 DEF Positives
<1>4. \A pair \in P \X N : pair[1] \in P /\ pair[2] \in N /\ pair = <<pair[1], pair[2]>>
  OBVIOUS
<1>5. Apart(h, P \X N)
  <2> SUFFICES ASSUME NEW x \in P \X N, NEW y \in P \X N, h[x] = h[y] PROVE x = y
    BY DEF Apart
  <2>1. o[x[1]] = o[y[1]] /\ o[x[2]] = o[y[2]]
    OBVIOUS
  <2>2. x[1] \in I /\ y[1] \in I /\ x[2] \in I /\ y[2] \in I
    BY <1>2, <1>4
  <2>3. x[1] = y[1] /\ x[2] = y[2]
    <3>. HIDE DEF I
    <3>. QED
      BY <1>3, <2>1, <2>2, Zenon
  <2>. QED
    BY <1>4, <2>3
<1>6. \A pair \in P \X N : h[pair] \in Pairs
  <2> SUFFICES ASSUME NEW x \in P \X N PROVE <<o[x[1]], o[x[2]]>> \in Pairs
    OBVIOUS
  <2>1. x[1] \in P /\ x[2] \in I /\ x[2] \notin P
    BY <1>2, <1>4
  <2>2. o[x[1]] \in Positives(records) /\ o[x[2]] \in I \ Positives(records)
    BY <1>2, <1>3, <2>1
  <2>. QED
    BY <1>2, <2>2 DEF Pairs
<1>7. \A pair \in Pairs : \E x \in P \X N : h[x] = pair
  <2> SUFFICES ASSUME NEW pair \in Pairs PROVE \E x \in P \X N : h[x] = pair
    OBVIOUS
  <2>1. /\ pair[1] \in Positives(records) /\ pair[2] \in I /\ pair[2] \notin Positives(records)
        /\ pair = <<pair[1], pair[2]>>
    BY <1>2 DEF Pairs
  <2>2. pair[1] \in I
    BY <1>2, <2>1 DEF Positives
  <2>3. PICK i \in I : o[i] = pair[1]
    BY <1>3, <2>2
  <2>4. PICK j \in I : o[j] = pair[2]
    BY <1>3, <2>1
  <2>5. i \in P /\ j \in N
    BY <1>3, <2>1, <2>3, <2>4
  <2>6. <<i, j>> \in P \X N /\ h[<<i, j>>] = <<o[i], o[j]>>
    BY <2>5
  <2>. QED
    BY <2>1, <2>3, <2>4, <2>6, Zenon
<1>8. Through(G, W, h, P \X N)
  <2> SUFFICES ASSUME NEW x \in P \X N PROVE W[h[x]] \in Int /\ G[x] = W[h[x]]
    BY DEF Through
  <2>1. x[1] \in I /\ x[2] \in I /\ x = <<x[1], x[2]>> /\ h[x] \in Pairs
    BY <1>2, <1>4, <1>6
  <2>2. W[h[x]] = Worth(records[o[x[1]]], records[o[x[2]]])
    BY <2>1
  <2>3. G[x] = Worth(items[x[1]], items[x[2]])
    BY <1>2, <2>1 DEF Games
  <2>4. items[x[1]] = records[o[x[1]]] /\ items[x[2]] = records[o[x[2]]]
    BY <1>3, <2>1
  <2>5. Worth(items[x[1]], items[x[2]]) \in Int
    BY <1>2, <2>1, WorthIs
  <2>. QED
    BY <2>2, <2>3, <2>4, <2>5, Zenon
<1>9. {h[x] : x \in P \X N} = Pairs
  BY <1>6, <1>7
<1>10. SumFunctionOnSet(W, Pairs) = SumFunctionOnSet(G, P \X N)
  <2>. HIDE DEF W, G, h, P, N
  <2>1. SumFunctionOnSet(W, {h[x] : x \in P \X N}) = SumFunctionOnSet(G, P \X N)
    BY <1>2, <1>5, <1>8, SumOfImage
  <2>. QED
    BY <1>9, <2>1
<1>11. SumFunctionOnSet(ranks, P) = p * (p + 1) + SumFunctionOnSet(G, P \X N)
  BY <1>2, RankSum
<1>12. SumFunctionOnSet(G, P \X N) \in Int
  <2>1. \A x \in P \X N : G[x] \in Int
    BY <1>8 DEF Through
  <2>. HIDE DEF G, P, N
  <2>. QED
    BY <1>2, <2>1, SumType
<1>13. TwiceU(items) = SumFunctionOnSet(ranks, P) - p * (p + 1)
  BY Zenon DEF TwiceU, SumFunction
<1>14. SumFunction(W) = SumFunctionOnSet(W, Pairs)
  BY DEF SumFunction
<1>15. p * (p + 1) \in Int
  BY <1>2
<1>. DEFINE q == p * (p + 1)
<1>. HIDE DEF q, W, ranks, G, P, N
<1>16. TwiceU(items) = SumFunction(W)
  BY <1>10, <1>11, <1>12, <1>13, <1>14, <1>15 DEF q
<1>. QED
  BY <1>16 DEF W

-----------------------------------------------------------------------------
\* A set of positions with every position after one of them is a final part.
LEMMA LastOnes ==
    ASSUME NEW n \in Nat, NEW A \in SUBSET (1 .. n),
           \A i \in A : \A j \in 1 .. n : i < j => j \in A
    PROVE  A = n - Cardinality(A) + 1 .. n /\ Cardinality(A) \in 0 .. n
<1>. DEFINE I == 1 .. n   B == I \ A   d == Cardinality(B)
<1>1. B = 1 .. d /\ d \in 0 .. n
  <2>1. B \in SUBSET I /\ \A i \in B : \A j \in I : j < i => j \in B
    OBVIOUS
  <2>. HIDE DEF B
  <2>. QED
    BY <2>1, FirstOnes
<1>2. A = I \ B
  OBVIOUS
<1>. HIDE DEF B, d
<1>3. A = d + 1 .. n
  BY <1>1, <1>2
<1>4. Cardinality(d + 1 .. n) = n - d
  <2>1. d + 1 \in Int /\ n \in Int
    BY <1>1
  <2>2. Cardinality(d + 1 .. n) = IF d + 1 > n THEN 0 ELSE n - (d + 1) + 1
    BY <2>1, FS_Interval
  <2>. QED
    BY <1>1, <2>2
<1>. QED
  BY <1>1, <1>3, <1>4

\* A set of records and that of their positions are as large.
LEMMA SameNumber ==
    ASSUME RecordsInv, NEW items, NEW o, SortedBy(items, o), NEW A \in SUBSET (1 .. Len(records))
    PROVE  Cardinality({k \in 1 .. Len(records) : o[k] \in A}) = Cardinality(A)
<1>. DEFINE I == 1 .. Len(records)   S == {k \in I : o[k] \in A}   f == [k \in S |-> o[k]]
<1>1. IsFiniteSet(S)
  <2>1. IsFiniteSet(I) /\ S \in SUBSET I
    BY RecordTypes
  <2>. HIDE DEF S
  <2>. QED
    BY <2>1, FS_Subset
<1>2. o \in [I -> I] /\ Apart(o, I) /\ \A r \in I : \E i \in I : o[i] = r
  BY DEF SortedBy
<1>3. f \in [S -> A] /\ (\A i, j \in S : f[i] = f[j] => i = j) /\ \A r \in A : \E i \in S : f[i] = r
  BY <1>2 DEF Apart
<1>. HIDE DEF S, f
<1>4. f \in Bijection(S, A)
  BY <1>3 DEF Bijection, Injection, Surjection, IsInjective
<1>5. ExistsBijection(S, A)
  BY <1>4 DEF ExistsBijection
<1>. QED
  BY <1>1, <1>5, FS_Bijection DEF S

-----------------------------------------------------------------------------
\* The positions of the scores above t.
Highest(items, n, t) == {k \in 1 .. n : items[k].score > t}

LEMMA HighestAreLast ==
    ASSUME NEW n \in Nat, NEW items, Ranked(items, n), NEW t \in Int
    PROVE  LET c == Cardinality(Highest(items, n, t))
           IN  Highest(items, n, t) = n - c + 1 .. n /\ c \in 0 .. n
<1>1. /\ Highest(items, n, t) \in SUBSET (1 .. n)
      /\ \A i \in Highest(items, n, t) : \A j \in 1 .. n : i < j => j \in Highest(items, n, t)
  BY DEF Highest, Ranked
<1>. QED
  BY <1>1, LastOnes

LEMMA HighestAreAbove ==
    ASSUME RecordsInv, NEW items, NEW o, SortedBy(items, o), NEW t \in Int
    PROVE  /\ Above(t) \in SUBSET (1 .. Len(records))
           /\ Highest(items, Len(records), t) = {k \in 1 .. Len(records) : o[k] \in Above(t)}
           /\ Cardinality(Above(t)) = Cardinality(Highest(items, Len(records), t))
<1>1. Above(t) \in SUBSET (1 .. Len(records))
  BY RecordTypes DEF Above
<1>2. Highest(items, Len(records), t) = {k \in 1 .. Len(records) : o[k] \in Above(t)}
  <2> SUFFICES ASSUME NEW k \in 1 .. Len(records)
               PROVE  items[k].score > t <=> o[k] \in Above(t)
    BY DEF Highest
  <2>1. o[k] \in 1 .. Len(records) /\ items[k] = records[o[k]]
    BY DEF SortedBy
  <2>. QED
    BY <2>1, RecordTypes DEF Above, ScoreThresholdPolicy
<1>3. Cardinality({k \in 1 .. Len(records) : o[k] \in Above(t)}) = Cardinality(Above(t))
  BY <1>1, SameNumber
<1>. QED
  BY <1>1, <1>2, <1>3, Zenon

\* The threshold for the m highest of n scores.
Matched(items, n, m) ==
    IF m = 0 THEN items[n].score
    ELSE IF m = n THEN items[1].score - Size
    ELSE items[n - m].score

LEMMA MatchedTakesHighest ==
    ASSUME NEW n \in Nat, n > 0, NEW items, Ranked(items, n), NEW m \in 0 .. n
    PROVE  /\ Matched(items, n, m) \in Int
           /\ Highest(items, n, Matched(items, n, m)) \subseteq n - m + 1 .. n
           /\ m \in {0, n} \/ items[n - m].score < items[n - m + 1].score
              => Highest(items, n, Matched(items, n, m)) = n - m + 1 .. n
<1>. DEFINE t == Matched(items, n, m)
<1>1. /\ \A i \in 1 .. n : items[i].score \in Int
      /\ \A i, j \in 1 .. n : i <= j => items[i].score <= items[j].score
      /\ Size \in Nat /\ Size >= 1
  BY WindowAssumption DEF Ranked
<1>2. CASE m = 0
  <2>1. t = items[n].score /\ \A k \in 1 .. n : items[k].score <= t /\ t \in Int
    BY <1>1, <1>2 DEF Matched
  <2>2. Highest(items, n, t) = {} /\ n - m + 1 .. n = {}
    BY <1>1, <1>2, <2>1 DEF Highest
  <2>. QED
    BY <2>1, <2>2
<1>3. CASE m = n
  <2>1. t = items[1].score - Size /\ \A k \in 1 .. n : items[k].score > t /\ t \in Int
    BY <1>1, <1>3 DEF Matched
  <2>2. Highest(items, n, t) = n - m + 1 .. n
    BY <1>1, <1>3, <2>1 DEF Highest
  <2>. QED
    BY <2>1, <2>2
<1>4. CASE m \in 1 .. n - 1
  <2>1. t = items[n - m].score /\ n - m \in 1 .. n /\ n - m + 1 \in 1 .. n
    BY <1>4 DEF Matched
  <2>2. t \in Int /\ \A k \in 1 .. n : k <= n - m => items[k].score <= t
    BY <1>1, <2>1
  <2>3. \A k \in 1 .. n : k \in n - m + 1 .. n <=> ~(k <= n - m)
    BY <1>4
  <2>4. Highest(items, n, t) \subseteq n - m + 1 .. n
    BY <1>1, <2>2, <2>3 DEF Highest
  <2>5. ASSUME items[n - m].score < items[n - m + 1].score
        PROVE  n - m + 1 .. n \subseteq Highest(items, n, t)
    <3> SUFFICES ASSUME NEW k \in n - m + 1 .. n PROVE k \in 1 .. n /\ items[k].score > t
      BY DEF Highest
    <3>1. k \in 1 .. n /\ n - m + 1 <= k
      BY <1>4
    <3>2. items[n - m + 1].score <= items[k].score
      BY <1>1, <2>1, <3>1
    <3>. QED
      BY <1>1, <2>1, <2>5, <3>1, <3>2
  <2>6. m \notin {0, n}
    BY <1>4
  <2>. HIDE DEF t
  <2>7. items[n - m].score < items[n - m + 1].score => Highest(items, n, t) = n - m + 1 .. n
    BY <2>4, <2>5
  <2>. QED
    BY <2>2, <2>4, <2>6, <2>7 DEF t
<1>. QED
  BY <1>2, <1>3, <1>4

-----------------------------------------------------------------------------
\* Rounding a quarter of n, and the rate of e out of n.
LEMMA RoundedQuarters ==
    ASSUME NEW n \in Nat, n > 0, NEW q \in 0 .. 4
    PROVE  Rounded(q, 4, n) \in 0 .. n
<1>1. CASE q = 0
  BY <1>1 DEF Rounded
<1>2. CASE q = 1
  BY <1>2 DEF Rounded
<1>3. CASE q = 2
  BY <1>3 DEF Rounded
<1>4. CASE q = 3
  BY <1>4 DEF Rounded
<1>5. CASE q = 4
  BY <1>5 DEF Rounded
<1>. QED
  BY <1>1, <1>2, <1>3, <1>4, <1>5

LEMMA RoundedRate ==
    ASSUME NEW n \in Nat, n > 0, NEW e \in 0 .. n
    PROVE  Rounded(e, n, n) = e
<1>. DEFINE twice == 2 * n
<1>1. 2 * e * n + n = twice * e + n /\ twice > 0 /\ twice \in Nat /\ 0 <= n /\ n < twice
  BY DEF twice
<1>2. twice * e + n >= twice * e /\ twice * e + n < twice * (e + 1)
  BY <1>1
<1>. HIDE DEF twice
<1>3. (twice * e + n) \div twice = e
  BY <1>1, <1>2
<1>. QED
  BY <1>1, <1>3 DEF Rounded, twice

\* ThresholdForRate on the scores of sorted items.
LEMMA ThresholdIs ==
    ASSUME NEW n \in Nat, n > 0, NEW items, Ranked(items, n), NEW num, NEW den,
           Rounded(num, den, n) \in 0 .. n
    PROVE  ThresholdForRate([i \in DOMAIN items |-> items[i].score], num, den) =
             Matched(items, n, Rounded(num, den, n))
<1>. DEFINE vals == [i \in DOMAIN items |-> items[i].score]
<1>1. DOMAIN vals = 1 .. n /\ \A i \in 1 .. n : vals[i] = items[i].score /\ vals[i] \in Int
  BY DEF Ranked
<1>. HIDE DEF vals
<1>2. Len(vals) = n
  BY <1>1
<1>3. PICK m \in 0 .. n : m = Rounded(num, den, n)
  OBVIOUS
<1>4. ThresholdForRate(vals, num, den) = IF m <= 0 THEN vals[n]
        ELSE IF m >= n THEN vals[1] - Size ELSE vals[n - m]
  BY <1>2, <1>3 DEF ThresholdForRate
<1>5. ThresholdForRate(vals, num, den) = Matched(items, n, m)
  <2>1. n \in 1 .. n /\ 1 \in 1 .. n /\ (m \notin {0, n} => n - m \in 1 .. n)
    OBVIOUS
  <2>2. (m <= 0 <=> m = 0) /\ (m >= n <=> m = n)
    OBVIOUS
  <2>. QED
    BY <1>1, <1>4, <2>1, <2>2 DEF Matched
<1>. QED
  BY <1>3, <1>5 DEF vals

\* The m highest scores at most are above it, and as many unless it is tied.
LEMMA MatchedNumber ==
    ASSUME RecordsInv, NEW items, NEW o, SortedBy(items, o), NEW m \in 0 .. Len(records),
           Len(records) > 0
    PROVE  LET t == Matched(items, Len(records), m)
           IN  Cardinality(Above(t)) <= m /\ (~Tied(t) => Cardinality(Above(t)) = m)
<1>. DEFINE n == Len(records)   I == 1 .. n   t == Matched(items, n, m)
            H == Highest(items, n, t)   last == n - m + 1 .. n
<1>1. n \in Nat /\ Ranked(items, n) /\ DOMAIN records = I /\ IsFiniteSet(I)
  BY RecordTypes DEF SortedBy
<1>2. /\ t \in Int /\ H \subseteq last
      /\ m \in {0, n} \/ items[n - m].score < items[n - m + 1].score => H = last
  BY <1>1, MatchedTakesHighest
<1>3. Cardinality(Above(t)) = Cardinality(H)
  <2>. HIDE DEF t
  <2>. QED
    BY <1>2, HighestAreAbove
<1>4. Cardinality(last) = m /\ IsFiniteSet(last)
  <2>1. n - m + 1 \in Int /\ n \in Int
    BY <1>1
  <2>2. Cardinality(last) = (IF n - m + 1 > n THEN 0 ELSE n - (n - m + 1) + 1) /\ IsFiniteSet(last)
    BY <2>1, FS_Interval
  <2>. QED
    BY <1>1, <2>2
<1>5. Cardinality(H) <= m
  <2>. HIDE DEF H, last
  <2>. QED
    BY <1>2, <1>4, FS_Subset
<1>6. ASSUME ~Tied(t) PROVE m \in {0, n} \/ items[n - m].score < items[n - m + 1].score
  <2> SUFFICES ASSUME m \notin {0, n}, ~(items[n - m].score < items[n - m + 1].score) PROVE FALSE
    OBVIOUS
  <2>. DEFINE i == n - m   j == n - m + 1   same == {r \in DOMAIN records : records[r].score = t}
  <2>1. i \in I /\ j \in I /\ i < j /\ i # j
    <3>1. n \in Nat /\ m # 0 /\ m # n /\ m \in 0 .. n
      BY <1>1
    <3>. HIDE DEF n
    <3>. QED
      BY <3>1
  <2>2. items[i].score <= items[j].score /\ items[i].score \in Int /\ items[j].score \in Int
    BY <1>1, <2>1 DEF Ranked
  <2>3. items[j].score = items[i].score /\ t = items[i].score
    BY <2>2 DEF Matched
  <2>. HIDE DEF i, j
  <2>4. o[i] \in I /\ o[j] \in I /\ o[i] # o[j]
        /\ items[i] = records[o[i]] /\ items[j] = records[o[j]]
    <3>1. o \in [I -> I] /\ Apart(o, I) /\ \A k \in I : items[k] = records[o[k]]
      BY DEF SortedBy
    <3>. HIDE DEF I
    <3>. QED
      BY <2>1, <3>1 DEF Apart
  <2>. HIDE DEF t
  <2>5. o[i] \in same /\ o[j] \in same /\ IsFiniteSet(same)
    <3>1. same \in SUBSET I
      BY <1>1
    <3>2. IsFiniteSet(same)
      BY <1>1, <3>1, FS_Subset
    <3>3. o[i] \in same /\ o[j] \in same
      BY <1>1, <2>3, <2>4
    <3>. QED
      BY <3>2, <3>3
  <2>6. Cardinality(same) <= 1 /\ Cardinality(same) \in Nat
    <3>1. Cardinality(same) \in Nat
      BY <2>5, FS_CardinalityType
    <3>. QED
      BY <1>6, <3>1 DEF Tied
  <2>7. IsFiniteSet(same \ {o[i]}) /\ Cardinality(same \ {o[i]}) = Cardinality(same) - 1
    BY <2>5, FS_RemoveElement
  <2>8. Cardinality(same \ {o[i]}) \in Nat
    BY <2>7, FS_CardinalityType
  <2>9. same \ {o[i]} = {}
    <3>1. Cardinality(same \ {o[i]}) = 0
      BY <2>6, <2>7, <2>8
    <3>. HIDE DEF same
    <3>. QED
      BY <2>7, <3>1, FS_EmptySet
  <2>. QED
    BY <2>4, <2>5, <2>9
<1>. HIDE DEF t, H, last
<1>7. Cardinality(Above(t)) <= m /\ (~Tied(t) => Cardinality(Above(t)) = m)
  BY <1>2, <1>3, <1>4, <1>5, <1>6
<1>. QED
  BY <1>7 DEF t

\* At the router's own rate they are the records that the router escalates.
LEMMA MatchedIsRouter ==
    ASSUME RecordsInv, NEW items, NEW o, SortedBy(items, o), Len(records) > 0
    PROVE  /\ Cardinality(Escalated) \in 0 .. Len(records)
           /\ Above(Matched(items, Len(records), Cardinality(Escalated))) = Escalated
<1>. DEFINE n == Len(records)   I == 1 .. n   limit == Size * Threshold
            e == Cardinality(Escalated)   t == Matched(items, n, e)
            last == n - e + 1 .. n
<1>1. n \in Nat /\ Ranked(items, n) /\ DOMAIN records = I /\ limit \in Int
  BY RecordTypes, WindowAssumption DEF SortedBy
<1>2. Escalated = Above(limit)
  BY DEF RecordsInv, Escalated, Above
<1>3. /\ Highest(items, n, limit) = {k \in I : o[k] \in Above(limit)}
      /\ Cardinality(Above(limit)) = Cardinality(Highest(items, n, limit))
      /\ Above(limit) \in SUBSET I
  <2>. HIDE DEF limit
  <2>. QED
    BY <1>1, HighestAreAbove
<1>4. Highest(items, n, limit) = last /\ e \in 0 .. n
  <2>. HIDE DEF limit
  <2>. QED
    BY <1>1, <1>2, <1>3, HighestAreLast
<1>5. e \in {0, n} \/ items[n - e].score < items[n - e + 1].score
  <2> SUFFICES ASSUME e \notin {0, n} PROVE items[n - e].score < items[n - e + 1].score
    OBVIOUS
  <2>1. n - e \in I /\ n - e + 1 \in I /\ n - e \notin last /\ n - e + 1 \in last
    BY <1>1, <1>4
  <2>2. n - e \notin Highest(items, n, limit) /\ n - e + 1 \in Highest(items, n, limit)
    BY <1>4, <2>1
  <2>3. ~(items[n - e].score > limit) /\ items[n - e + 1].score > limit
    BY <2>1, <2>2 DEF Highest
  <2>4. items[n - e].score \in Int /\ items[n - e + 1].score \in Int
    BY <1>1, <2>1 DEF Ranked
  <2>. HIDE DEF limit, e, n
  <2>. QED
    BY <1>1, <2>3, <2>4
<1>6. t \in Int /\ Highest(items, n, t) = last
  BY <1>1, <1>4, <1>5, MatchedTakesHighest
<1>7. Above(t) \in SUBSET I /\ Highest(items, n, t) = {k \in I : o[k] \in Above(t)}
  <2>. HIDE DEF t
  <2>. QED
    BY <1>6, HighestAreAbove
<1>8. \A r \in I : \E k \in I : o[k] = r
  BY DEF SortedBy
<1>. HIDE DEF t, limit, last, e
<1>9. \A k \in I : o[k] \in Above(t) <=> o[k] \in Above(limit)
  BY <1>3, <1>4, <1>6, <1>7
<1>10. Above(t) = Above(limit)
  <2>1. ASSUME NEW r \in I PROVE r \in Above(t) <=> r \in Above(limit)
    <3>1. PICK k \in I : o[k] = r
      BY <1>8
    <3>. QED
      BY <1>9, <3>1
  <2>. QED
    BY <1>3, <1>7, <2>1
<1>. QED
  BY <1>2, <1>4, <1>10 DEF t, e

\* For every sort of the records.
LEMMA RateMatches == RecordsInv => RateMatchedIsRouter
<1> SUFFICES ASSUME RecordsInv, NEW items \in Sorts, Len(records) > 0
    PROVE  LET vals == [i \in DOMAIN items |-> items[i].score]
               router == Stats(Escalated)
               n == router.TotalPrompts
           IN  /\ \A q \in 0 .. 4 :
                     LET t == ThresholdForRate(vals, q, 4)
                     IN  /\ Cardinality(Above(t)) <= Rounded(q, 4, n)
                         /\ ~Tied(t) => Cardinality(Above(t)) = Rounded(q, 4, n)
               /\ Stats(Above(ThresholdForRate(vals, router.EscalatedCount, n))) = router
  <2>1. Stats(Escalated).TotalPrompts = Len(records)
    BY DEF Stats
  <2>. QED
    BY <2>1 DEF RateMatchedIsRouter, SortedScores
<1>. DEFINE vals == [i \in DOMAIN items |-> items[i].score]   n == Len(records)
            e == Cardinality(Escalated)
<1>1. PICK o : SortedBy(items, o)
  BY SortsAre
<1>2. n \in Nat /\ Ranked(items, n)
  BY <1>1, RecordTypes DEF SortedBy
<1>3. Stats(Escalated).TotalPrompts = n /\ Stats(Escalated).EscalatedCount = e
  BY DEF Stats
<1>4. ASSUME NEW q \in 0 .. 4
      PROVE  LET t == ThresholdForRate(vals, q, 4)
             IN  /\ Cardinality(Above(t)) <= Rounded(q, 4, n)
                 /\ ~Tied(t) => Cardinality(Above(t)) = Rounded(q, 4, n)
  <2>1. Rounded(q, 4, n) \in 0 .. n
    BY <1>2, RoundedQuarters
  <2>2. ThresholdForRate(vals, q, 4) = Matched(items, n, Rounded(q, 4, n))
    BY <1>2, <2>1, ThresholdIs
  <2>. HIDE DEF vals
  <2>. QED
    BY <1>1, <2>1, <2>2, MatchedNumber
<1>5. Stats(Above(ThresholdForRate(vals, e, n))) = Stats(Escalated)
  <2>1. e \in 0 .. n /\ Above(Matched(items, n, e)) = Escalated
    BY <1>1, MatchedIsRouter
  <2>2. Rounded(e, n, n) = e
    BY <1>2, <2>1, RoundedRate
  <2>3. ThresholdForRate(vals, e, n) = Matched(items, n, e)
    BY <1>2, <2>1, <2>2, ThresholdIs
  <2>. HIDE DEF vals, e, n
  <2>. QED
    BY <2>1, <2>3, Zenon
<1>. HIDE DEF e, n
<1>. QED
  BY <1>3, <1>4, <1>5 DEF n

-----------------------------------------------------------------------------
\* One of the records that are left has the lowest score.
LEMMA LowestOf ==
    ASSUME RecordsInv, NEW T \in SUBSET (1 .. Len(records)), T # {}
    PROVE  \E x \in T : \A y \in T : records[x].score <= records[y].score
<1>. DEFINE s == [r \in T |-> records[r].score]
            Lowest == \E x \in T : \A y \in T : s[x] <= s[y]
            N == {b \in Nat : (\E x \in T : s[x] <= b) => Lowest}
<1>1. \A x \in T : s[x] \in Nat
  BY RecordTypes
<1>. HIDE DEF s
<1>2. 0 \in N
  BY <1>1
<1>3. ASSUME NEW b \in Nat, b \in N PROVE b + 1 \in N
  <2> SUFFICES ASSUME NEW x \in T, s[x] <= b + 1 PROVE Lowest
    BY DEF N
  <2>1. CASE \E y \in T : s[y] <= b
    BY <1>3, <2>1
  <2>2. CASE \A y \in T : ~(s[y] <= b)
    BY <1>1, <2>2
  <2>. QED
    BY <2>1, <2>2
<1>4. Nat \subseteq N
  <2>. HIDE DEF N
  <2>. QED
    BY <1>2, <1>3, SetInduction
<1>5. PICK x \in T : s[x] \in N
  BY <1>1, <1>4
<1>6. Lowest
  BY <1>1, <1>5
<1>. QED
  BY <1>6 DEF s

\* o lists the m records with the lowest scores, the lowest first.
Lists(o, m) ==
    /\ o \in [1 .. m -> 1 .. Len(records)] /\ Apart(o, 1 .. m)
    /\ \A i, j \in 1 .. m : i < j => records[o[i]].score <= records[o[j]].score
    /\ \A i \in 1 .. m : \A r \in 1 .. Len(records) :
          (\A j \in 1 .. m : o[j] # r) => records[o[i]].score <= records[r].score

LEMMA ListsGrow ==
    ASSUME RecordsInv, NEW m \in Nat, m < Len(records), NEW o, Lists(o, m)
    PROVE  \E longer : Lists(longer, m + 1)
<1>. DEFINE n == Len(records)   I == 1 .. n   left == {r \in I : \A j \in 1 .. m : o[j] # r}
<1>1. o \in [1 .. m -> I] /\ n \in Nat
  BY RecordTypes DEF Lists
<1>2. left # {}
  <2> SUFFICES ASSUME left = {} PROVE FALSE
    OBVIOUS
  <2>1. \A r \in I : \E j \in 1 .. m : o[j] = r
    OBVIOUS
  <2>2. o \in Surjection(1 .. m, I)
    BY <1>1, <2>1 DEF Surjection
  <2>3. Cardinality(I) <= m
    BY <2>2, FS_SurjCardinalityBound DEF ExistsSurjection
  <2>4. Cardinality(I) = n
    <3>1. Cardinality(I) = IF 1 > n THEN 0 ELSE n - 1 + 1
      BY <1>1, FS_Interval
    <3>. QED
      BY <1>1, <3>1
  <2>. QED
    BY <1>1, <2>3, <2>4
<1>3. PICK x \in left : \A y \in left : records[x].score <= records[y].score
  <2>1. left \in SUBSET I
    OBVIOUS
  <2>. HIDE DEF left
  <2>. QED
    BY <1>2, <2>1, LowestOf
<1>. DEFINE longer == [i \in 1 .. m + 1 |-> IF i = m + 1 THEN x ELSE o[i]]
<1>4. /\ \A i \in 1 .. m : longer[i] = o[i] /\ o[i] \in I /\ o[i] # x
      /\ longer[m + 1] = x /\ x \in I
      /\ \A i \in 1 .. m + 1 : i \in 1 .. m \/ i = m + 1
      /\ \A i \in 1 .. m : i \in 1 .. m + 1
  BY <1>1
<1>5. longer \in [1 .. m + 1 -> I]
  BY <1>4
<1>. HIDE DEF longer
<1>6. Apart(longer, 1 .. m + 1)
  <2> SUFFICES ASSUME NEW i \in 1 .. m + 1, NEW j \in 1 .. m + 1, longer[i] = longer[j] PROVE i = j
    BY DEF Apart
  <2>1. CASE i \in 1 .. m /\ j \in 1 .. m
    BY <1>4, <2>1 DEF Lists, Apart
  <2>. QED
    BY <1>4, <2>1
<1>7. ASSUME NEW i \in 1 .. m + 1, NEW j \in 1 .. m + 1, i < j
      PROVE  records[longer[i]].score <= records[longer[j]].score
  <2>1. i \in 1 .. m
    BY <1>7
  <2>2. CASE j \in 1 .. m
    BY <1>4, <1>7, <2>1, <2>2 DEF Lists
  <2>3. CASE j = m + 1
    <3>1. \A k \in 1 .. m : o[k] # x
      BY <1>4
    <3>2. records[o[i]].score <= records[x].score
      BY <1>4, <2>1, <3>1 DEF Lists
    <3>. QED
      BY <1>4, <2>1, <2>3, <3>2
  <2>. QED
    BY <1>4, <2>2, <2>3
<1>8. ASSUME NEW i \in 1 .. m + 1, NEW r \in I, \A j \in 1 .. m + 1 : longer[j] # r
      PROVE  records[longer[i]].score <= records[r].score
  <2>1. \A j \in 1 .. m : o[j] # r
    BY <1>4, <1>8
  <2>2. CASE i \in 1 .. m
    <3>1. records[o[i]].score <= records[r].score
      BY <2>1, <2>2 DEF Lists
    <3>. QED
      BY <1>4, <2>2, <3>1
  <2>3. CASE i = m + 1
    BY <1>3, <1>4, <2>1, <2>3
  <2>. QED
    BY <1>4, <2>2, <2>3
<1>9. Lists(longer, m + 1)
  BY <1>5, <1>6, <1>7, <1>8 DEF Lists
<1>. QED
  BY <1>9

LEMMA ListsReach == RecordsInv => \E o : Lists(o, Len(records))
<1> SUFFICES ASSUME RecordsInv PROVE \E o : Lists(o, Len(records))
  OBVIOUS
<1>. DEFINE N == {m \in Nat : m <= Len(records) => \E o : Lists(o, m)}
<1>1. 0 \in N
  <2>. DEFINE o == [i \in {} |-> 0]
  <2>1. 1 .. 0 = {}
    OBVIOUS
  <2>2. Lists(o, 0)
    BY <2>1 DEF Lists, Apart
  <2>. QED
    BY <2>2
<1>2. ASSUME NEW m \in Nat, m \in N PROVE m + 1 \in N
  <2> SUFFICES ASSUME m + 1 <= Len(records) PROVE \E o : Lists(o, m + 1)
    OBVIOUS
  <2>1. Len(records) \in Nat
    BY RecordTypes
  <2>2. m < Len(records) /\ m <= Len(records)
    BY <2>1
  <2>3. PICK o : Lists(o, m)
    BY <1>2, <2>2
  <2>. QED
    BY <2>2, <2>3, ListsGrow
<1>3. Len(records) \in Nat
  BY RecordTypes
<1>4. Len(records) \in N
  <2>. HIDE DEF N
  <2>. QED
    BY <1>1, <1>2, <1>3, SetInduction
<1>. QED
  BY <1>3, <1>4

LEMMA CanBeSorted == RecordsInv => SortsExist
<1> SUFFICES ASSUME RecordsInv PROVE SortsExist
  OBVIOUS
<1>. DEFINE I == 1 .. Len(records)
<1>1. PICK o : Lists(o, Len(records))
  BY ListsReach
<1>2. DOMAIN records = I /\ IsFiniteSet(I)
  BY RecordTypes
<1>3. o \in Injection(I, I)
  BY <1>1 DEF Lists, Injection, IsInjective, Apart
<1>4. o \in Bijection(I, I)
  <2>1. o \in Surjection(I, I)
    BY <1>2, <1>3, FS_Injection
  <2>. QED
    BY <1>3, <2>1 DEF Bijection
<1>5. \A i, j \in I : i < j => records[o[i]].score <= records[o[j]].score
  BY <1>1 DEF Lists
<1>6. [i \in I |-> records[o[i]]] \in Sorts
  BY <1>2, <1>4, <1>5 DEF Sorts
<1>. QED
  BY <1>6 DEF SortsExist

-----------------------------------------------------------------------------
LEMMA InitRecords == SweepInit => RecordsInv
BY InitReplay DEF SweepInit, RecordsInv

\* A record keeps the score and the decision of the trace that was read.
LEMMA RecordKept ==
    ASSUME RecordsInv, NextRecord, ReplayInv'
    PROVE  RecordsInv'
<1>. DEFINE R == [verdict : Verdicts, tokens : Nat, score : Nat, wouldEscalate : BOOLEAN]
            Decided(r) == EntropyPolicy(r) <=> ScoreThresholdPolicy(Size * Threshold, r)
<1>1. PICK v \in Verdicts : records' = Append(records, Record(v))
  BY DEF NextRecord
<1>2. Record(v) \in R /\ Decided(Record(v))
  <2>1. Len(fed) \in Nat
    BY DEF RecordsInv, ReplayInv, AddDecidesByRule, RingTypeOK
  <2>2. peak \in Nat /\ (escalatedAt # 0 <=> peak > Size * Threshold)
    BY DEF RecordsInv, ReplayInv, ScoreDecidesReplay
  <2>. QED
    BY <2>1, <2>2 DEF Record, EntropyPolicy, ScoreThresholdPolicy
<1>3. records \in Seq(R) /\ \A i \in DOMAIN records : Decided(records[i])
  BY DEF RecordsInv
<1>. HIDE DEF R, Decided
<1>4. records' \in Seq(R) /\ \A i \in DOMAIN records' : Decided(records'[i])
  <2>. DEFINE r == Record(v)
  <2>1. /\ Append(records, r) \in Seq(R) /\ DOMAIN Append(records, r) = 1 .. Len(records) + 1
        /\ \A i \in 1 .. Len(records) : Append(records, r)[i] = records[i]
        /\ Append(records, r)[Len(records) + 1] = r
    <3>. HIDE DEF r
    <3>. QED
      BY <1>2, <1>3, AppendProperties DEF r
  <2>2. DOMAIN records = 1 .. Len(records) /\ Len(records) \in Nat
    BY <1>3
  <2>. HIDE DEF r
  <2>3. \A i \in 1 .. Len(records) + 1 : Decided(Append(records, r)[i])
    BY <1>2, <1>3, <2>1, <2>2 DEF r
  <2>. QED
    BY <1>1, <2>1, <2>3 DEF r
<1>5. (\A i \in DOMAIN records : Decided(records[i]))'
        <=> \A i \in DOMAIN records' : Decided(records'[i])
  BY DEF Decided, EntropyPolicy, ScoreThresholdPolicy
<1>. QED
  BY <1>4 DEF R, Decided, RecordsInv, EntropyPolicy, ScoreThresholdPolicy

LEMMA NextRecords == RecordsInv /\ [SweepNext]_sweepVars => RecordsInv'
<1> SUFFICES ASSUME RecordsInv, [SweepNext]_sweepVars PROVE RecordsInv'
  OBVIOUS
<1>1. ReplayInv'
  BY NextReplay DEF RecordsInv
<1>2. CASE NextRecord
  BY <1>1, <1>2, RecordKept
<1>3. CASE UNCHANGED records
  BY <1>1, <1>3 DEF RecordsInv, EntropyPolicy, ScoreThresholdPolicy
<1>. QED
  BY <1>2, <1>3 DEF SweepNext, SkipRecord, ReadRecordToken, sweepVars

\* At every step of a sweep the score and the decision that a record has
\* kept agree at the threshold it was replayed at.
THEOREM RecordsInductive == SweepSpec => []RecordsInv
BY InitRecords, NextRecords, PTL DEF SweepSpec

\* What is said of every sort of the records is said of one at least.
THEOREM RecordsCanBeSorted == SweepSpec => []SortsExist
BY CanBeSorted, RecordsInductive, PTL

\* AUROC's rank sum is the number of pairs of an unacceptable and an
\* acceptable draft that the score orders, ties as half, for any records and
\* whatever order the sort leaves ties in.
THEOREM AUROCCountsPairs == SweepSpec => []AUROCIsPairwise
<1>1. RecordsInv => AUROCIsPairwise
  BY RanksCountWins DEF AUROCIsPairwise
<1>. QED
  BY <1>1, RecordsInductive, PTL

\* ThresholdForRate never takes more records than the rate asks for, exactly
\* as many unless its threshold is a tied score, and at the router's own rate
\* it takes the records that the router escalates.
THEOREM RateMatchesRouter == SweepSpec => []RateMatchedIsRouter
BY RateMatches, RecordsInductive, PTL

=============================================================================
