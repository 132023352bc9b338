------------------------------ MODULE StreamReader -----------------------------
(***************************************************************************)
(* One streaming call and one reader of its items.  The reader is any of   *)
(* the loops that range over a client's channel: it may leave at any point *)
(* (a done context, a failed write to the client) and returns on the first *)
(* error.  On the escalation path of internal/gateway/handler.go it reads  *)
(* through a forwarder: streamHeavyweight waits for the first item, puts   *)
(* it in the channel merged, and leaves a goroutine that copies the rest   *)
(* there, from where streamSSE takes it.  The request's context is         *)
(* cancelled by a client that disconnects or by net/http when the handler  *)
(* has returned.                                                           *)
(***************************************************************************)
EXTENDS StreamClient

VARIABLES
    reader,      \* "reading", or why the loop was left
    forwarder,   \* streamHeavyweight's goroutine and its channel
    sent,        \* the chunks scanned off the body, in order
    received     \* the items the reader has taken, in order

readerVars == <<reader, forwarder, received>>
vars == <<stream, cancelled, sent, readerVars>>

(***************************************************************************)
(* pc      "none" without a forwarder; "first" while streamHeavyweight     *)
(*         waits for the first item; then the goroutine ranges over the    *)
(*         client's channel, sends to merged, and is gone                  *)
(* held    the item the goroutine is sending                               *)
(* merged  the buffer of the channel merged                                *)
(***************************************************************************)
MergedCapacity == 1
NoForwarder == [pc |-> "none", held |-> <<>>, merged |-> <<>>]

Init ==
    /\ stream = [NoStream EXCEPT !.phase = "scanning"]
    /\ cancelled = FALSE
    /\ reader = "reading"
    /\ forwarder \in {NoForwarder, [NoForwarder EXCEPT !.pc = "first"]}
    /\ sent = <<>>
    /\ received = <<>>

Producer ==
    /\ Produce
    /\ sent' = IF stream'.scanned > stream.scanned THEN sent \o stream'.pending ELSE sent
    /\ UNCHANGED <<cancelled, readerVars>>

Reading(pcs) == reader = "reading" /\ forwarder.pc \in pcs
NextItem == Head(stream.ch)

Taken(item) ==
    /\ received' = Append(received, item)
    /\ reader' = IF item = Err THEN "error" ELSE reader

ReadDirect ==
    /\ Reading({"none"})
    /\ Receive
    /\ Taken(NextItem)
    /\ UNCHANGED <<cancelled, forwarder, sent>>

\* Mutant of SeeClosed: a closed channel is not told from an empty one.
SeeNothing == FALSE /\ UNCHANGED vars

\* The loop ends, or streamHeavyweight's first receive reports !ok.
SeeClosed ==
    /\ \/ Reading({"none", "first"}) /\ Ended
       \/ Reading({"gone"}) /\ forwarder.merged = <<>>
    /\ reader' = "finished"
    /\ forwarder' = [forwarder EXCEPT !.pc = IF @ = "first" THEN "gone" ELSE @]
    /\ UNCHANGED <<stream, cancelled, sent, received>>

\* An error as the first item starts no forwarder.
WaitForFirst ==
    /\ Reading({"first"})
    /\ Receive
    /\ IF NextItem = Err
       THEN /\ Taken(Err)
            /\ forwarder' = [forwarder EXCEPT !.pc = "gone"]
       ELSE /\ forwarder' = [forwarder EXCEPT !.pc = "ranging", !.merged = <<NextItem>>]
            /\ UNCHANGED <<reader, received>>
    /\ UNCHANGED <<cancelled, sent>>

ForwardTake ==
    /\ forwarder.pc = "ranging"
    /\ Receive
    /\ forwarder' = [forwarder EXCEPT !.pc = "sending", !.held = <<NextItem>>]
    /\ UNCHANGED <<cancelled, sent, reader, received>>

\* Mutant of ForwardSend: what does not fit is dropped.
ForwardOrDrop ==
    /\ forwarder.pc = "sending"
    /\ forwarder' = [pc |-> "ranging", held |-> <<>>,
                     merged |-> IF Len(forwarder.merged) < MergedCapacity
                                THEN forwarder.merged \o forwarder.held
                                ELSE forwarder.merged]
    /\ UNCHANGED <<stream, cancelled, sent, reader, received>>

\* The send is outside any select: it waits for room whatever the context does.
ForwardSend ==
    /\ forwarder.pc = "sending"
    /\ Len(forwarder.merged) < MergedCapacity
    /\ forwarder' = [pc |-> "ranging", held |-> <<>>,
                     merged |-> forwarder.merged \o forwarder.held]
    /\ UNCHANGED <<stream, cancelled, sent, reader, received>>

\* The deferred close of merged.
ForwardEnd ==
    /\ forwarder.pc = "ranging"
    /\ Ended
    /\ forwarder' = [forwarder EXCEPT !.pc = "gone"]
    /\ UNCHANGED <<stream, cancelled, sent, reader, received>>

Forward == ForwardTake \/ ForwardSend \/ ForwardEnd

ReadMerged ==
    /\ Reading({"ranging", "sending", "gone"})
    /\ forwarder.merged # <<>>
    /\ Taken(Head(forwarder.merged))
    /\ forwarder' = [forwarder EXCEPT !.merged = Tail(@)]
    /\ UNCHANGED <<stream, cancelled, sent>>

Read == ReadDirect \/ WaitForFirst \/ ReadMerged \/ SeeClosed

\* Route and Execute return on ctx.Done() without draining; streamSSE breaks
\* out of its loop when a write to the client fails, after it has taken an item.
StopReading ==
    /\ Reading({"none", "ranging", "sending", "gone"})
    /\ forwarder.pc # "none" => received # <<>>
    /\ reader' = "left"
    /\ UNCHANGED <<stream, cancelled, sent, forwarder, received>>

Cancel ==
    /\ ~cancelled
    /\ cancelled' = TRUE
    /\ UNCHANGED <<stream, sent, readerVars>>

Next == Producer \/ Read \/ Forward \/ StopReading \/ Cancel

\* The goroutines and the reader are scheduled; a body is read to its end or
\* fails (the http.Client has a timeout); a handler that has stopped reading
\* returns, and net/http then cancels the request's context.
Fairness ==
    /\ WF_vars(Producer)
    /\ WF_vars(Read)
    /\ WF_vars(Forward)
    /\ WF_vars(reader # "reading" /\ Cancel)

Spec == Init /\ [][Next]_vars /\ Fairness

-----------------------------------------------------------------------------
Items == Chunks \cup {Err}
AtMostOne == {<<>>} \cup {<<x>> : x \in Items}

TypeOK ==
    /\ stream \in StreamState
    /\ Len(stream.ch) <= Capacity
    /\ cancelled \in BOOLEAN
    /\ reader \in {"reading", "left", "error", "finished"}
    /\ forwarder \in [pc : {"none", "first", "ranging", "sending", "gone"},
                      held : AtMostOne, merged : AtMostOne]
    /\ sent \in Seq(Chunks)
    /\ received \in Seq(Items)

\* What the reader has taken followed by what is still on its way.
Delivered == received \o forwarder.merged \o forwarder.held \o stream.ch

\* How many chunks were put in the channel: all that were scanned but the one
\* being offered, and the one whose offer was cancelled.
Offered ==
    Len(sent) - Len(stream.pending) - (IF stream.ending = "aborted" THEN 1 ELSE 0)
Errors == IF stream.ending = "error" THEN 1 ELSE 0

\* The reader sees the body's chunks in order with no gap, also through the
\* forwarder, and then the error if there was one: a chunk can only be missing
\* at the very end, and only from a call that was cancelled while it offered
\* that chunk.
NoGapInDelivery ==
    /\ TypeOK
    /\ Len(Delivered) = Offered + Errors
    /\ \A i \in 1 .. Offered : Delivered[i] = sent[i]

\* An error is the last item there is, so a reader that returns on the first
\* error it sees leaves nothing behind that could block a goroutine.
NothingFollowsAnError ==
    \A i \in 1 .. Len(Delivered) :
        Delivered[i] = Err => i = Len(Delivered) /\ stream.phase = "closed"

\* The two sends that no context interrupts.  The forwarder is left behind with
\* an item when the reader has left and merged is full; the client's goroutine,
\* and its response body with it, when it has an error to send, its buffer is
\* full, and the one who took from it has left or is stuck.
StuckForwarder ==
    /\ forwarder.pc = "sending" /\ forwarder.merged # <<>>
    /\ reader = "left"
StuckOnError ==
    /\ stream.phase = "failing" /\ ~HasRoom
    /\ StuckForwarder \/ (reader = "left" /\ forwarder.pc = "none")

\* Whatever the reader does, the call's goroutine and the forwarder end, or are
\* stuck in one of these two sends.  Both need a reader that left before the
\* end: after an error or a closed channel nothing stays behind.
GoroutinesEnd ==
    <>[](/\ stream.phase = "closed" \/ StuckOnError
         /\ forwarder.pc \in {"none", "gone"} \/ StuckForwarder)

\* The reader's loop ends, also if it waits for a first item that never comes
\* and although that wait does not look at the context.
ReaderReturns == <>(reader # "reading")

-----------------------------------------------------------------------------
(***************************************************************************)
(* The inductive invariant behind the two safety properties: what the      *)
(* goroutine's phase says of its chunk and its end, and what the           *)
(* forwarder's place says of the items it has.                             *)
(***************************************************************************)
PlacesInv ==
    /\ stream.phase = "closed" <=> stream.ending # "open"
    /\ stream.phase = "offering" => sent # <<>> /\ stream.pending = <<sent[Len(sent)]>>
    /\ stream.phase # "offering" => stream.pending = <<>>
    /\ forwarder.pc = "sending" <=> forwarder.held # <<>>
    /\ forwarder.pc \in {"none", "first"} => forwarder.merged = <<>>

IInv == NoGapInDelivery /\ PlacesInv

=============================================================================
