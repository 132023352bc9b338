--------------------------- MODULE StreamReaderProofs ---------------------------
(***************************************************************************)
(* Proofs about one streaming call and its reader, for any chunks, any     *)
(* capacity of the channel and bodies of any length.                       *)
(***************************************************************************)
EXTENDS StreamReader, SequenceTheorems, TLAPS

\* An item changes places at the seam of two sequences.
LEMMA Seam ==
    ASSUME NEW S, NEW s \in Seq(S), NEW t \in Seq(S), t # <<>>
    PROVE  /\ Append(s, Head(t)) \o Tail(t) = s \o t
           /\ Head(t) \in S /\ Tail(t) \in Seq(S)
<1>1. /\ Head(t) \in S /\ Tail(t) \in Seq(S) /\ Len(Tail(t)) = Len(t) - 1
      /\ \A i \in 1 .. Len(Tail(t)) : Tail(t)[i] = t[i + 1]
      /\ Head(t) = t[1]
  BY HeadTailProperties
<1>. DEFINE h == Head(t)   r == Tail(t)
<1>. HIDE DEF h, r
<1>2. /\ Append(s, h) \in Seq(S) /\ Len(Append(s, h)) = Len(s) + 1
      /\ \A i \in 1 .. Len(s) : Append(s, h)[i] = s[i]
      /\ Append(s, h)[Len(s) + 1] = h
  BY <1>1, AppendProperties DEF h
<1>. DEFINE u == Append(s, h)
<1>. HIDE DEF u
<1>3. /\ u \o r \in Seq(S) /\ Len(u \o r) = Len(u) + Len(r)
      /\ \A i \in 1 .. Len(u) + Len(r) :
            (u \o r)[i] = IF i <= Len(u) THEN u[i] ELSE r[i - Len(u)]
  BY <1>1, <1>2, ConcatProperties DEF u, r
<1>4. /\ s \o t \in Seq(S) /\ Len(s \o t) = Len(s) + Len(t)
      /\ \A i \in 1 .. Len(s) + Len(t) :
            (s \o t)[i] = IF i <= Len(s) THEN s[i] ELSE t[i - Len(s)]
  BY ConcatProperties
<1>5. Len(s) \in Nat /\ Len(t) \in Nat /\ Len(r) = Len(t) - 1 /\ Len(u) = Len(s) + 1
  BY <1>1, <1>2, LenProperties DEF r, u
<1>6. ASSUME NEW i \in 1 .. Len(u \o r) PROVE (u \o r)[i] = (s \o t)[i]
  <2>1. CASE i <= Len(s)
    BY <1>2, <1>3, <1>4, <1>5, <2>1 DEF u
  <2>2. CASE i = Len(s) + 1
    BY <1>1, <1>2, <1>3, <1>4, <1>5, <2>2 DEF u, h
  <2>3. CASE i > Len(s) + 1
    <3>1. i - Len(u) \in 1 .. Len(r) /\ (i - Len(u)) + 1 = i - Len(s)
      BY <1>3, <1>5, <2>3
    <3>2. r[i - Len(u)] = t[i - Len(s)]
      BY <1>1, <3>1 DEF r
    <3>. QED
      BY <1>3, <1>4, <1>5, <2>3, <3>2
  <2>. QED
    BY <1>5, <2>1, <2>2, <2>3
<1>7. u \o r = s \o t
  <2>. DEFINE a == u \o r   b == s \o t
  <2>1. a \in Seq(S) /\ b \in Seq(S) /\ Len(a) = Len(b) /\ \A i \in 1 .. Len(a) : a[i] = b[i]
    BY <1>3, <1>4, <1>5, <1>6
  <2>. HIDE DEF a, b
  <2>2. a = b
    BY <2>1, SeqEqual
  <2>. QED
    BY <2>2 DEF a, b
<1>. QED
  BY <1>1, <1>7 DEF u, r, h

\* What is appended to the last part is appended to the whole.
LEMMA AppendLast ==
    ASSUME NEW S, NEW s \in Seq(S), NEW t \in Seq(S), NEW x \in S
    PROVE  s \o Append(t, x) = Append(s \o t, x)
<1>1. Append(t, x) = t \o <<x>> /\ <<x>> \in Seq(S)
  BY AppendIsConcat
<1>2. s \o t \in Seq(S)
  BY ConcatProperties
<1>3. Append(s \o t, x) = (s \o t) \o <<x>>
  BY <1>2, AppendIsConcat
<1>. QED
  BY <1>1, <1>3, ConcatAssociative

-----------------------------------------------------------------------------
LEMMA Types ==
    ASSUME TypeOK
    PROVE  /\ stream.ch \in Seq(Items) /\ received \in Seq(Items) /\ sent \in Seq(Chunks)
           /\ forwarder.merged \in Seq(Items) /\ forwarder.held \in Seq(Items)
           /\ received \o forwarder.merged \in Seq(Items)
           /\ received \o forwarder.merged \o forwarder.held \in Seq(Items)
           /\ Delivered \in Seq(Items)
<1>1. stream.ch \in Seq(Items) /\ received \in Seq(Items) /\ sent \in Seq(Chunks)
  BY DEF TypeOK, StreamState, Items
<1>2. \A q \in AtMostOne : q \in Seq(Items)
  <2>1. <<>> \in Seq(Items) /\ \A x \in Items : <<x>> \in Seq(Items)
    OBVIOUS
  <2>. QED
    BY <2>1, Zenon DEF AtMostOne
<1>3. forwarder.merged \in Seq(Items) /\ forwarder.held \in Seq(Items)
  BY <1>2 DEF TypeOK
<1>4. received \o forwarder.merged \in Seq(Items)
  BY <1>1, <1>3, ConcatProperties
<1>5. received \o forwarder.merged \o forwarder.held \in Seq(Items)
  BY <1>3, <1>4, ConcatProperties
<1>6. Delivered \in Seq(Items)
  BY <1>1, <1>5, ConcatProperties DEF Delivered
<1>. QED
  BY <1>1, <1>3, <1>4, <1>5, <1>6

LEMMA InitInv == Init => IInv
<1> SUFFICES ASSUME Init PROVE IInv
  OBVIOUS
<1>1. forwarder \in [pc : {"none", "first"}, held : {<<>>}, merged : {<<>>}]
  BY DEF Init, NoForwarder
<1>2. stream = [phase |-> "scanning", pending |-> <<>>, ch |-> <<>>, ending |-> "open",
                scanned |-> 0]
  BY DEF Init, NoStream
<1>3. <<>> \in Seq(Items) /\ <<>> \in Seq(Chunks) /\ Len(<<>>) = 0
  OBVIOUS
<1>4. TypeOK
  <2>1. stream \in StreamState
    BY <1>2, <1>3 DEF StreamState, Items
  <2>2. forwarder \in [pc : {"none", "first", "ranging", "sending", "gone"},
                       held : AtMostOne, merged : AtMostOne]
    BY <1>1 DEF AtMostOne
  <2>. QED
    <3>1. cancelled \in BOOLEAN /\ reader = "reading" /\ sent = <<>> /\ received = <<>>
      BY DEF Init
    <3>2. Len(stream.ch) <= Capacity
      BY <1>2, <1>3, StreamAssumption
    <3>. QED
      BY <1>3, <2>1, <2>2, <3>1, <3>2 DEF TypeOK
<1>5. Delivered = <<>> \o <<>> \o <<>> \o <<>>
  BY <1>1, <1>2 DEF Delivered, Init
<1>6. Delivered = <<>>
  BY <1>3, <1>5, ConcatEmptySeq
<1>7. Offered = 0 /\ Errors = 0
  BY <1>2, <1>3 DEF Offered, Errors, Init
<1>8. NoGapInDelivery
  BY <1>3, <1>4, <1>6, <1>7 DEF NoGapInDelivery
<1>9. PlacesInv
  BY <1>1, <1>2 DEF PlacesInv
<1>. QED
  BY <1>8, <1>9 DEF IInv

-----------------------------------------------------------------------------
\* A step on the way of an item, or one that puts nothing in the channel.
LEMMA NothingNew ==
    ASSUME NoGapInDelivery, TypeOK', Delivered' = Delivered, Offered' = Offered,
           Errors' = Errors, \A i \in 1 .. Offered : sent'[i] = sent[i]
    PROVE  NoGapInDelivery'
BY DEF NoGapInDelivery

\* The goroutine puts an item in the channel: the chunk that is next, or the error.
LEMMA OneMore ==
    ASSUME NoGapInDelivery, TypeOK', NEW x \in Items, Delivered' = Append(Delivered, x),
           sent' = sent, Errors = 0, Offered \in Nat,
           \/ Offered' = Offered + 1 /\ Errors' = 0 /\ x = sent[Offered + 1]
           \/ Offered' = Offered /\ Errors' = 1
    PROVE  NoGapInDelivery'
<1>1. /\ Delivered \in Seq(Items) /\ Len(Delivered) = Offered
      /\ \A i \in 1 .. Offered : Delivered[i] = sent[i]
  BY Types DEF NoGapInDelivery
<1>2. /\ Len(Delivered') = Offered + 1 /\ Delivered'[Offered + 1] = x
      /\ \A i \in 1 .. Offered : Delivered'[i] = Delivered[i]
  BY <1>1, AppendProperties
<1>3. Len(Delivered') = Offered' + Errors'
  BY <1>2
<1>4. \A i \in 1 .. Offered' : Delivered'[i] = sent'[i]
  BY <1>1, <1>2
<1>. QED
  BY <1>3, <1>4 DEF NoGapInDelivery

\* What the goroutine puts in the channel is the last item delivered.
LEMMA ChannelGrows ==
    ASSUME TypeOK, NEW x \in Items, stream'.ch = Append(stream.ch, x),
           UNCHANGED <<forwarder, received>>
    PROVE  Delivered' = Append(Delivered, x)
<1>. DEFINE before == received \o forwarder.merged \o forwarder.held
<1>1. before \in Seq(Items) /\ stream.ch \in Seq(Items)
  BY Types
<1>2. Delivered = before \o stream.ch /\ Delivered' = before \o Append(stream.ch, x)
  BY DEF Delivered
<1>. HIDE DEF before
<1>. QED
  BY <1>1, <1>2, AppendLast

LEMMA NextProducer == IInv /\ Producer => IInv'
<1> SUFFICES ASSUME IInv, Producer PROVE IInv'
  OBVIOUS
<1>1. /\ TypeOK /\ NoGapInDelivery /\ PlacesInv /\ stream \in StreamState
      /\ UNCHANGED <<cancelled, reader, forwarder, received>> /\ sent \in Seq(Chunks)
      /\ Len(stream.ch) \in Nat /\ Len(sent) \in Nat /\ Len(<<>>) = 0 /\ \A x : Len(<<x>>) = 1
      /\ received \o forwarder.merged \o forwarder.held \in Seq(Items)
      /\ stream.ch \in Seq(Items) /\ Delivered \in Seq(Items)
  <2>1. TypeOK /\ NoGapInDelivery /\ PlacesInv
    BY DEF IInv, NoGapInDelivery
  <2>. QED
    BY <2>1, Types DEF Producer, readerVars, TypeOK
<1>2. stream'.scanned = stream.scanned => sent' = sent
  BY <1>1 DEF Producer, StreamState
<1>3. ASSUME stream' \in StreamState, stream'.ch = stream.ch, sent' \in Seq(Chunks)
      PROVE  TypeOK' /\ Delivered' = Delivered
  BY <1>1, <1>3 DEF TypeOK, Delivered
<1>4. CASE ScanChunk
  <2>1. PICK c \in Chunks :
           stream' = [stream EXCEPT !.phase = "offering", !.pending = <<c>>, !.scanned = @ + 1]
    BY <1>4 DEF ScanChunk
  <2>2. /\ stream' \in StreamState /\ stream'.phase = "offering" /\ stream'.pending = <<c>>
        /\ stream'.ch = stream.ch /\ stream'.ending = stream.ending
        /\ stream'.scanned > stream.scanned
    <3>1. stream.scanned \in Nat /\ stream.scanned + 1 > stream.scanned /\ stream.scanned + 1 \in Nat
      BY <1>1 DEF StreamState
    <3>2. <<c>> \in {<<>>} \cup {<<d>> : d \in Chunks}
      OBVIOUS
    <3>. QED
      BY <1>1, <2>1, <3>1, <3>2 DEF StreamState
  <2>3. sent' = sent \o <<c>>
    BY <2>2 DEF Producer
  <2>4. /\ sent' \in Seq(Chunks) /\ Len(sent') = Len(sent) + 1 /\ sent'[Len(sent) + 1] = c
        /\ \A i \in 1 .. Len(sent) : sent'[i] = sent[i]
    <3>1. sent' = Append(sent, c)
      BY <1>1, <2>3, AppendIsConcat
    <3>. QED
      BY <1>1, <3>1, AppendProperties
  <2>5. stream.pending = <<>> /\ stream.ending = "open"
    BY <1>1, <1>4 DEF PlacesInv, ScanChunk
  <2>6. Offered' = Offered /\ Offered = Len(sent) /\ Errors' = Errors
    BY <1>1, <2>2, <2>4, <2>5 DEF Offered, Errors
  <2>7. NoGapInDelivery'
    BY <1>1, <1>3, <2>2, <2>4, <2>6, NothingNew
  <2>8. PlacesInv'
    BY <1>1, <2>2, <2>4, <2>5 DEF PlacesInv
  <2>. QED
    BY <2>7, <2>8 DEF IInv
<1>5. CASE ScanDone \/ ScanEOF \/ ScanFail
  <2>1. /\ stream' \in StreamState /\ stream'.pending = stream.pending
        /\ stream'.ch = stream.ch /\ stream'.scanned = stream.scanned
        /\ \/ stream'.phase = "closed" /\ stream'.ending \in {"done", "eof"}
           \/ stream'.phase = "failing" /\ stream'.ending = stream.ending
    <3>1. CASE ScanDone \/ ScanEOF
      BY <1>1, <3>1 DEF ScanDone, ScanEOF, StreamState
    <3>2. CASE ScanFail
      BY <1>1, <3>2 DEF ScanFail, StreamState
    <3>. QED
      BY <1>5, <3>1, <3>2
  <2>2. stream.pending = <<>> /\ stream.ending = "open"
    BY <1>1, <1>5 DEF PlacesInv, ScanDone, ScanEOF, ScanFail
  <2>3. sent' = sent /\ Offered' = Offered /\ Errors' = Errors
    BY <1>2, <2>1, <2>2 DEF Offered, Errors
  <2>4. NoGapInDelivery'
    BY <1>1, <1>3, <2>1, <2>3, NothingNew
  <2>5. PlacesInv'
    BY <1>1, <2>1, <2>2 DEF PlacesInv
  <2>. QED
    BY <2>4, <2>5 DEF IInv
<1>6. CASE Offer
  <2>1. sent # <<>> /\ stream.pending = <<sent[Len(sent)]>> /\ stream.ending = "open"
    BY <1>1, <1>6 DEF PlacesInv, Offer
  <2>. DEFINE x == sent[Len(sent)]
  <2>2. x \in Chunks /\ x \in Items /\ Len(sent) > 0
    BY <1>1, <2>1, EmptySeq, ElementOfSeq DEF Items
  <2>3. stream.ch \o <<x>> = Append(stream.ch, x)
    BY <1>1, <2>2, AppendIsConcat
  <2>4. Append(stream.ch, x) \in Seq(Items) /\ Len(Append(stream.ch, x)) = Len(stream.ch) + 1
    BY <1>1, <2>2, AppendProperties
  <2>5. stream' = [stream EXCEPT !.phase = "scanning", !.pending = <<>>,
                                 !.ch = Append(stream.ch, x)]
    BY <1>6, <2>1, <2>3 DEF Offer
  <2>. HIDE DEF x
  <2>6. /\ stream' \in StreamState /\ stream'.phase = "scanning" /\ stream'.pending = <<>>
        /\ stream'.ch = Append(stream.ch, x) /\ stream'.ending = stream.ending
        /\ stream'.scanned = stream.scanned
    BY <1>1, <2>4, <2>5 DEF StreamState, Items
  <2>7. Len(stream'.ch) <= Capacity
    <3>1. Len(stream.ch) < Capacity
      BY <1>6 DEF Offer, HasRoom
    <3>. QED
      BY <1>1, <2>4, <2>6, <3>1, StreamAssumption
  <2>8. TypeOK'
    BY <1>1, <1>2, <2>6, <2>7 DEF TypeOK
  <2>9. Delivered' = Append(Delivered, x)
    BY <1>1, <2>2, <2>6, ChannelGrows
  <2>10. /\ Offered' = Offered + 1 /\ Offered \in Nat /\ Errors' = 0 /\ Errors = 0
         /\ x = sent[Offered + 1]
    BY <1>1, <1>2, <2>1, <2>2, <2>6 DEF Offered, Errors, x
  <2>11. NoGapInDelivery'
    BY <1>1, <1>2, <2>2, <2>6, <2>8, <2>9, <2>10, OneMore
  <2>12. PlacesInv'
    BY <1>1, <2>1, <2>6 DEF PlacesInv
  <2>. QED
    BY <2>11, <2>12 DEF IInv
<1>7. CASE OfferAborted
  <2>1. /\ stream' \in StreamState /\ stream'.phase = "closed" /\ stream'.pending = <<>>
        /\ stream'.ch = stream.ch /\ stream'.ending = "aborted"
        /\ stream'.scanned = stream.scanned
    BY <1>1, <1>7 DEF OfferAborted, StreamState
  <2>2. Len(stream.pending) = 1 /\ stream.ending = "open"
    BY <1>1, <1>7 DEF PlacesInv, OfferAborted
  <2>3. sent' = sent /\ Offered' = Offered /\ Errors' = Errors
    BY <1>1, <1>2, <2>1, <2>2 DEF Offered, Errors
  <2>4. NoGapInDelivery'
    BY <1>1, <1>3, <2>1, <2>3, NothingNew
  <2>5. PlacesInv'
    BY <1>1, <2>1 DEF PlacesInv
  <2>. QED
    BY <2>4, <2>5 DEF IInv
<1>8. CASE SendErr
  <2>1. stream.pending = <<>> /\ stream.ending = "open" /\ Err \in Items
    BY <1>1, <1>8 DEF PlacesInv, SendErr, Items
  <2>2. Append(stream.ch, Err) \in Seq(Items) /\ Len(Append(stream.ch, Err)) = Len(stream.ch) + 1
    BY <1>1, <2>1, AppendProperties
  <2>3. /\ stream' \in StreamState /\ stream'.phase = "closed" /\ stream'.pending = <<>>
        /\ stream'.ch = Append(stream.ch, Err) /\ stream'.ending = "error"
        /\ stream'.scanned = stream.scanned
    BY <1>1, <1>8, <2>1, <2>2 DEF SendErr, StreamState, Items
  <2>4. Len(stream'.ch) <= Capacity
    BY <1>1, <1>8, <2>2, <2>3, StreamAssumption DEF SendErr, HasRoom
  <2>5. TypeOK'
    BY <1>1, <1>2, <2>3, <2>4 DEF TypeOK
  <2>6. Delivered' = Append(Delivered, Err)
    BY <1>1, <2>1, <2>3, ChannelGrows
  <2>7. Offered' = Offered /\ Offered \in Nat /\ Errors' = 1 /\ Errors = 0
    BY <1>1, <1>2, <2>1, <2>3 DEF Offered, Errors
  <2>8. NoGapInDelivery'
    BY <1>1, <1>2, <2>1, <2>3, <2>5, <2>6, <2>7, OneMore
  <2>9. PlacesInv'
    BY <1>1, <2>3 DEF PlacesInv
  <2>. QED
    BY <2>8, <2>9 DEF IInv
<1>. QED
  BY <1>4, <1>5, <1>6, <1>7, <1>8 DEF Producer, Produce

-----------------------------------------------------------------------------
\* A receive takes the oldest item of the channel, and nothing else.
LEMMA ReceiveTakes ==
    ASSUME TypeOK, Receive
    PROVE  /\ stream.ch # <<>> /\ NextItem \in Items /\ stream'.ch = Tail(stream.ch)
           /\ stream' \in StreamState /\ Len(stream'.ch) <= Capacity
           /\ stream'.phase = stream.phase /\ stream'.pending = stream.pending
           /\ stream'.ending = stream.ending
<1>1. stream.ch \in Seq(Items) /\ stream.ch # <<>> /\ stream' = [stream EXCEPT !.ch = Tail(stream.ch)]
  BY Types DEF Receive
<1>2. /\ Head(stream.ch) \in Items /\ Tail(stream.ch) \in Seq(Items)
      /\ Len(Tail(stream.ch)) = Len(stream.ch) - 1 /\ Len(stream.ch) \in Nat
  BY <1>1, HeadTailProperties, LenProperties
<1>3. Len(Tail(stream.ch)) <= Capacity
  BY <1>2, StreamAssumption DEF TypeOK
<1>. QED
  BY <1>1, <1>2, <1>3 DEF TypeOK, StreamState, Items, NextItem

LEMMA TakenFromChannel ==
    ASSUME TypeOK, Receive, NEW s \in Seq(Items)
    PROVE  Append(s, NextItem) \o stream'.ch = s \o stream.ch
<1>. DEFINE ch == stream.ch
<1>1. ch \in Seq(Items) /\ ch # <<>> /\ NextItem = Head(ch) /\ stream'.ch = Tail(ch)
  BY Types, ReceiveTakes DEF NextItem
<1>. HIDE DEF ch
<1>2. Append(s, Head(ch)) \o Tail(ch) = s \o ch
  BY <1>1, Seam
<1>. QED
  BY <1>1, <1>2 DEF ch

\* The readers move items along the way, and change none of them.
LEMMA Moved ==
    ASSUME IInv, UNCHANGED <<sent, cancelled>>, stream' \in StreamState, Len(stream'.ch) <= Capacity,
           stream'.phase = stream.phase, stream'.pending = stream.pending,
           stream'.ending = stream.ending,
           reader' \in {"reading", "left", "error", "finished"}, received' \in Seq(Items),
           forwarder' \in [pc : {"none", "first", "ranging", "sending", "gone"},
                           held : AtMostOne, merged : AtMostOne],
           forwarder'.pc = "sending" <=> forwarder'.held # <<>>,
           forwarder'.pc \in {"none", "first"} => forwarder'.merged = <<>>,
           Delivered' = Delivered
    PROVE  IInv'
<1>1. TypeOK'
  BY DEF IInv, NoGapInDelivery, TypeOK
<1>2. NoGapInDelivery'
  BY <1>1, NothingNew DEF IInv, Offered, Errors
<1>3. PlacesInv'
  BY DEF IInv, PlacesInv
<1>. QED
  BY <1>2, <1>3 DEF IInv

LEMMA NextReader == IInv /\ (Read \/ Forward \/ StopReading \/ Cancel) => IInv'
<1> SUFFICES ASSUME IInv, Read \/ Forward \/ StopReading \/ Cancel PROVE IInv'
  OBVIOUS
<1>1. TypeOK /\ PlacesInv
  BY DEF IInv, NoGapInDelivery
<1>2. /\ stream.ch \in Seq(Items) /\ received \in Seq(Items)
      /\ forwarder.merged \in Seq(Items) /\ forwarder.held \in Seq(Items)
      /\ received \o forwarder.merged \in Seq(Items)
      /\ <<>> \in AtMostOne /\ <<>> \in Seq(Items)
  BY <1>1, Types DEF AtMostOne
<1>3. /\ stream \in StreamState /\ Len(stream.ch) <= Capacity
      /\ reader \in {"reading", "left", "error", "finished"}
      /\ forwarder \in [pc : {"none", "first", "ranging", "sending", "gone"},
                        held : AtMostOne, merged : AtMostOne]
  BY <1>1 DEF TypeOK
<1>4. ASSUME NEW s \in Seq(Items) PROVE s \o <<>> = s /\ <<>> \o s = s
  BY ConcatEmptySeq
<1>5. ASSUME NEW s \in Seq(Items), NEW x \in Items
      PROVE  Append(s, x) \in Seq(Items) /\ Append(s, x) = s \o <<x>>
  BY AppendProperties, AppendIsConcat
<1>6. \A x \in Items : <<x>> \in AtMostOne /\ <<x>> # <<>>
  BY DEF AtMostOne
<1>7. CASE ReadDirect
  <2>1. /\ Receive /\ UNCHANGED <<cancelled, sent, forwarder>> /\ forwarder.pc = "none"
        /\ received' = Append(received, NextItem)
        /\ reader' \in {"reading", "left", "error", "finished"}
    BY <1>3, <1>7 DEF ReadDirect, Reading, Taken
  <2>2. forwarder.merged = <<>> /\ forwarder.held = <<>>
    BY <1>1, <2>1 DEF PlacesInv
  <2>3. Delivered = received \o stream.ch /\ Delivered' = received' \o stream'.ch
    BY <1>1, <1>2, <1>4, <1>5, <2>1, <2>2, ReceiveTakes DEF Delivered
  <2>4. Delivered' = Delivered
    BY <1>1, <1>2, <2>1, <2>3, ReceiveTakes, TakenFromChannel
  <2>. QED
    BY <1>1, <1>2, <1>3, <1>5, <2>1, <2>2, <2>4, ReceiveTakes, Moved
<1>8. CASE SeeClosed
  <2>1. /\ UNCHANGED <<stream, cancelled, sent, received>> /\ reader' = "finished"
        /\ forwarder.pc \in {"none", "first", "gone"}
        /\ forwarder'.pc = (IF forwarder.pc = "first" THEN "gone" ELSE forwarder.pc)
        /\ forwarder'.held = forwarder.held /\ forwarder'.merged = forwarder.merged
        /\ forwarder' \in [pc : {"none", "first", "ranging", "sending", "gone"},
                           held : AtMostOne, merged : AtMostOne]
    BY <1>3, <1>8 DEF SeeClosed, Reading
  <2>2. Delivered' = Delivered
    BY <2>1 DEF Delivered
  <2>3. /\ forwarder'.pc = "sending" <=> forwarder'.held # <<>>
        /\ forwarder'.pc \in {"none", "first"} => forwarder'.merged = <<>>
    BY <1>1, <2>1 DEF PlacesInv
  <2>. QED
    BY <1>2, <1>3, <2>1, <2>2, <2>3, Moved
<1>9. CASE WaitForFirst
  <2>1. Receive /\ UNCHANGED <<cancelled, sent>> /\ forwarder.pc = "first"
    BY <1>9 DEF WaitForFirst, Reading
  <2>2. forwarder.merged = <<>> /\ forwarder.held = <<>>
    BY <1>1, <2>1 DEF PlacesInv
  <2>3. Delivered = received \o stream.ch
    BY <1>2, <1>4, <2>2 DEF Delivered
  <2>4. NextItem \in Items /\ Append(received, NextItem) \o stream'.ch = received \o stream.ch
    BY <1>1, <1>2, <2>1, ReceiveTakes, TakenFromChannel
  <2>5. CASE NextItem = Err
    <3>1. /\ received' = Append(received, NextItem) /\ reader' = "error"
          /\ forwarder' = [forwarder EXCEPT !.pc = "gone"]
      BY <1>9, <2>5 DEF WaitForFirst, Taken
    <3>2. /\ forwarder'.pc = "gone" /\ forwarder'.held = <<>> /\ forwarder'.merged = <<>>
          /\ forwarder' \in [pc : {"none", "first", "ranging", "sending", "gone"},
                             held : AtMostOne, merged : AtMostOne]
      BY <1>3, <2>2, <3>1
    <3>3. received' \in Seq(Items)
      BY <1>2, <1>5, <2>4, <3>1
    <3>4. Delivered' = Delivered
      BY <1>4, <2>3, <2>4, <3>1, <3>2, <3>3 DEF Delivered
    <3>. QED
      BY <1>1, <2>1, <3>1, <3>2, <3>3, <3>4, ReceiveTakes, Moved
  <2>6. CASE NextItem # Err
    <3>1. /\ received' = received /\ reader' = reader
          /\ forwarder' = [forwarder EXCEPT !.pc = "ranging", !.merged = <<NextItem>>]
      BY <1>9, <2>6 DEF WaitForFirst
    <3>2. /\ forwarder'.pc = "ranging" /\ forwarder'.held = <<>>
          /\ forwarder'.merged = <<NextItem>>
          /\ forwarder' \in [pc : {"none", "first", "ranging", "sending", "gone"},
                             held : AtMostOne, merged : AtMostOne]
      BY <1>3, <1>6, <2>2, <2>4, <3>1
    <3>3. Append(received, NextItem) \in Seq(Items)
          /\ Append(received, NextItem) = received \o <<NextItem>>
      BY <1>2, <1>5, <2>4
    <3>4. Delivered' = Delivered
      BY <1>4, <2>3, <2>4, <3>1, <3>2, <3>3 DEF Delivered
    <3>. QED
      BY <1>1, <1>2, <1>3, <2>1, <3>1, <3>2, <3>4, ReceiveTakes, Moved
  <2>. QED
    BY <2>5, <2>6
<1>10. CASE ReadMerged
  <2>1. /\ UNCHANGED <<stream, cancelled, sent>> /\ forwarder.merged # <<>>
        /\ forwarder.pc \in {"ranging", "sending", "gone"}
        /\ received' = Append(received, Head(forwarder.merged))
        /\ reader' \in {"reading", "left", "error", "finished"}
        /\ forwarder' = [forwarder EXCEPT !.merged = Tail(@)]
    BY <1>3, <1>10 DEF ReadMerged, Reading, Taken
  <2>2. PICK x \in Items : forwarder.merged = <<x>>
    BY <1>3, <2>1 DEF AtMostOne
  <2>3. Head(<<x>>) = x /\ Tail(<<x>>) = <<>>
    OBVIOUS
  <2>4. /\ received' = Append(received, x) /\ forwarder'.pc = forwarder.pc
        /\ forwarder'.held = forwarder.held /\ forwarder'.merged = <<>>
        /\ forwarder' \in [pc : {"none", "first", "ranging", "sending", "gone"},
                           held : AtMostOne, merged : AtMostOne]
    BY <1>2, <1>3, <2>1, <2>2, <2>3
  <2>5. received' \in Seq(Items) /\ received' \o <<>> = received \o <<x>>
    BY <1>2, <1>4, <1>5, <2>4
  <2>6. Delivered' = Delivered
    BY <2>1, <2>2, <2>4, <2>5 DEF Delivered
  <2>7. /\ forwarder'.pc = "sending" <=> forwarder'.held # <<>>
        /\ forwarder'.pc \in {"none", "first"} => forwarder'.merged = <<>>
    BY <1>1, <2>4 DEF PlacesInv
  <2>. QED
    BY <1>3, <2>1, <2>4, <2>5, <2>6, <2>7, Moved
<1>11. CASE ForwardTake
  <2>1. /\ Receive /\ UNCHANGED <<cancelled, sent, reader, received>> /\ forwarder.pc = "ranging"
        /\ forwarder' = [forwarder EXCEPT !.pc = "sending", !.held = <<NextItem>>]
    BY <1>11 DEF ForwardTake
  <2>2. forwarder.held = <<>> /\ NextItem \in Items
    BY <1>1, <2>1, ReceiveTakes DEF PlacesInv
  <2>3. /\ forwarder'.pc = "sending" /\ forwarder'.held = <<NextItem>>
        /\ forwarder'.merged = forwarder.merged
        /\ forwarder' \in [pc : {"none", "first", "ranging", "sending", "gone"},
                           held : AtMostOne, merged : AtMostOne]
    BY <1>3, <1>6, <2>1, <2>2
  <2>. DEFINE before == received \o forwarder.merged
  <2>4. before \in Seq(Items)
    BY <1>2
  <2>5. Delivered = (before \o <<>>) \o stream.ch /\ Delivered' = (before \o <<NextItem>>) \o stream'.ch
    BY <2>1, <2>2, <2>3 DEF Delivered
  <2>. HIDE DEF before
  <2>6. Append(before, NextItem) \o stream'.ch = before \o stream.ch
    BY <1>1, <1>2, <2>1, <2>4, ReceiveTakes, TakenFromChannel
  <2>7. Delivered' = Delivered
    BY <1>4, <1>5, <2>2, <2>4, <2>5, <2>6
  <2>. QED
    BY <1>1, <1>2, <1>3, <1>6, <2>1, <2>2, <2>3, <2>7, ReceiveTakes, Moved
<1>12. CASE ForwardSend
  <2>1. /\ UNCHANGED <<stream, cancelled, sent, reader, received>> /\ forwarder.pc = "sending"
        /\ Len(forwarder.merged) < 1
        /\ forwarder' = [pc |-> "ranging", held |-> <<>>,
                         merged |-> forwarder.merged \o forwarder.held]
    BY <1>12 DEF ForwardSend, MergedCapacity
  <2>2. forwarder.merged = <<>>
    BY <1>2, <2>1, EmptySeq
  <2>3. forwarder.merged \o forwarder.held = forwarder.held
    BY <1>2, <1>4, <2>2
  <2>4. /\ forwarder'.pc = "ranging" /\ forwarder'.held = <<>>
        /\ forwarder'.merged = forwarder.held
        /\ forwarder' \in [pc : {"none", "first", "ranging", "sending", "gone"},
                           held : AtMostOne, merged : AtMostOne]
    BY <1>2, <1>3, <2>1, <2>3
  <2>5. received \o <<>> = received /\ (received \o forwarder.held) \o <<>> = received \o forwarder.held
    BY <1>2, <1>4, ConcatProperties
  <2>6. Delivered' = Delivered
    BY <2>1, <2>2, <2>4, <2>5 DEF Delivered
  <2>. QED
    BY <1>2, <1>3, <2>1, <2>4, <2>6, Moved
<1>13. CASE ForwardEnd \/ StopReading \/ Cancel
  <2>1. /\ UNCHANGED <<stream, sent, received>> /\ cancelled' \in BOOLEAN
        /\ reader' \in {"reading", "left", "error", "finished"}
        /\ forwarder'.held = forwarder.held /\ forwarder'.merged = forwarder.merged
        /\ forwarder'.pc = forwarder.pc \/ (forwarder.pc = "ranging" /\ forwarder'.pc = "gone")
        /\ forwarder' \in [pc : {"none", "first", "ranging", "sending", "gone"},
                           held : AtMostOne, merged : AtMostOne]
    BY <1>1, <1>3, <1>13 DEF ForwardEnd, StopReading, Cancel, readerVars, TypeOK
  <2>2. Delivered' = Delivered
    BY <2>1 DEF Delivered
  <2>3. NoGapInDelivery' /\ PlacesInv'
    BY <1>1, <2>1, <2>2 DEF IInv, NoGapInDelivery, PlacesInv, TypeOK, Offered, Errors
  <2>. QED
    BY <2>3 DEF IInv
<1>. QED
  BY <1>7, <1>8, <1>9, <1>10, <1>11, <1>12, <1>13 DEF Read, Forward

LEMMA NextInv == IInv /\ [Next]_vars => IInv'
<1>1. IInv /\ UNCHANGED vars => IInv'
  BY DEF vars, readerVars, IInv, NoGapInDelivery, PlacesInv, TypeOK, Delivered, Offered, Errors
<1>. QED
  BY <1>1, NextProducer, NextReader DEF Next

\* What the goroutine's phase and the forwarder's place say of the items on
\* their way, in any interleaving with the reader and a cancellation.
THEOREM Inductive == Spec => []IInv
BY InitInv, NextInv, PTL DEF Spec

\* Through the client's channel and streamHeavyweight's forwarder, the reader
\* sees the chunks of the body in order and with no gap.
THEOREM DeliveryHasNoGap == Spec => []NoGapInDelivery
<1>1. IInv => NoGapInDelivery
  BY DEF IInv
<1>. QED
  BY <1>1, Inductive, PTL

\* Stream's goroutine sends nothing after an error, and closes the channel.
THEOREM ErrorIsLast == Spec => []NothingFollowsAnError
<1>1. IInv => NothingFollowsAnError
  <2> SUFFICES ASSUME IInv, NEW i \in 1 .. Len(Delivered), Delivered[i] = Err
               PROVE  i = Len(Delivered) /\ stream.phase = "closed"
    BY DEF NothingFollowsAnError
  <2>1. /\ Len(Delivered) = Offered + Errors /\ \A j \in 1 .. Offered : Delivered[j] = sent[j]
        /\ sent \in Seq(Chunks) /\ Len(sent) \in Nat
    BY Types DEF IInv, NoGapInDelivery
  <2>2. Offered \in Int /\ Offered <= Len(sent)
    <3>1. stream.pending \in {<<>>} \cup {<<c>> : c \in Chunks}
      BY DEF IInv, NoGapInDelivery, TypeOK, StreamState
    <3>2. Len(<<>>) = 0 /\ \A c : Len(<<c>>) = 1
      OBVIOUS
    <3>3. Len(stream.pending) = 0 \/ Len(stream.pending) = 1
      BY <3>1, <3>2
    <3>. QED
      <4>. DEFINE lost == IF stream.ending = "aborted" THEN 1 ELSE 0
      <4>1. lost \in {0, 1} /\ Offered = Len(sent) - Len(stream.pending) - lost
        BY DEF Offered
      <4>2. \A n \in Nat, p \in {0, 1}, l \in {0, 1} : n - p - l \in Int /\ n - p - l <= n
        OBVIOUS
      <4>3. Len(sent) \in Nat /\ Len(stream.pending) \in {0, 1}
        BY <2>1, <3>3
      <4>. HIDE DEF lost
      <4>. QED
        BY <4>1, <4>2, <4>3, Zenon
  <2>3. ~(i <= Offered)
    BY <2>1, <2>2, ElementOfSeq, StreamAssumption
  <2>4. Errors = 1 /\ stream.ending = "error"
    BY <2>1, <2>2, <2>3 DEF Errors
  <2>. QED
    BY <2>1, <2>2, <2>3, <2>4 DEF IInv, PlacesInv
<1>. QED
  BY <1>1, Inductive, PTL

=============================================================================
