------------------------------ MODULE StreamClient -----------------------------
(***************************************************************************)
(* One streaming upstream call of pkg/client/openai_compat.go: the channel *)
(* Stream returns and the goroutine that scans the SSE body into it.  The  *)
(* module has the call's own steps; a module that reads the channel        *)
(* instantiates it and supplies the reader and the call's context.         *)
(***************************************************************************)
EXTENDS Naturals, Sequences

CONSTANTS
    Chunks,      \* the chunks an upstream can send
    Err,         \* the StreamChunk whose Err field is set
    Capacity,    \* make(chan StreamChunk, 16)
    MaxChunks    \* bound on the chunks of one response body

ASSUME StreamAssumption ==
    /\ Err \notin Chunks
    /\ Capacity \in Nat \ {0}
    /\ MaxChunks \in Nat

VARIABLES
    stream,      \* the call: its goroutine and its channel
    cancelled    \* the call's context is done

(***************************************************************************)
(* phase    where the goroutine stands: not started, scanning the body, in *)
(*          the select that offers a chunk, in the send of an error, gone  *)
(*          (its deferred close has closed the channel)                    *)
(* pending  the chunk being offered                                        *)
(* ch       the channel's buffer                                           *)
(* ending   how the goroutine came to return                               *)
(* scanned  the chunks read off the body so far                            *)
(***************************************************************************)
StreamState ==
    [phase   : {"idle", "scanning", "offering", "failing", "closed"},
     pending : {<<>>} \cup {<<c>> : c \in Chunks},
     ch      : Seq(Chunks \cup {Err}),
     ending  : {"open", "done", "eof", "aborted", "error"},
     scanned : Nat]

NoStream ==
    [phase |-> "idle", pending |-> <<>>, ch |-> <<>>, ending |-> "open", scanned |-> 0]

Started == stream.phase # "idle"
Ended == stream.phase = "closed" /\ stream.ch = <<>>   \* a receive reports !ok
HasRoom == Len(stream.ch) < Capacity

-----------------------------------------------------------------------------
\* Stream returns a channel; when it returns an error there is no call.
Open ==
    /\ stream.phase = "idle"
    /\ stream' = [stream EXCEPT !.phase = "scanning"]

ScanChunk ==
    /\ stream.phase = "scanning"
    /\ stream.scanned < MaxChunks
    /\ \E c \in Chunks :
          stream' = [stream EXCEPT !.phase = "offering", !.pending = <<c>>, !.scanned = @ + 1]

ScanDone ==
    /\ stream.phase = "scanning"
    /\ stream' = [stream EXCEPT !.phase = "closed", !.ending = "done"]

\* The body ends cleanly without a [DONE] line: scanner.Err() is nil.
ScanEOF ==
    /\ stream.phase = "scanning"
    /\ stream' = [stream EXCEPT !.phase = "closed", !.ending = "eof"]

\* A line that does not parse, or a body that fails under the scanner (a reset
\* connection, the client's timeout, the cancelled context).
ScanFail ==
    /\ stream.phase = "scanning"
    /\ stream' = [stream EXCEPT !.phase = "failing"]

Offer ==
    /\ stream.phase = "offering"
    /\ HasRoom
    /\ stream' = [stream EXCEPT !.phase = "scanning", !.pending = <<>>,
                                !.ch = @ \o stream.pending]

\* Mutant of OfferAborted: the cancelled send is skipped and the scan goes on.
OfferSkipped ==
    /\ stream.phase = "offering"
    /\ cancelled
    /\ stream' = [stream EXCEPT !.phase = "scanning", !.pending = <<>>]

\* Mutant of OfferAborted: a plain blocking send, with no ctx.Done() case.
OfferNeverAborts == FALSE /\ UNCHANGED stream

OfferAborted ==
    /\ stream.phase = "offering"
    /\ cancelled
    /\ stream' = [stream EXCEPT !.phase = "closed", !.pending = <<>>, !.ending = "aborted"]

\* Mutant of SendErr: the scan goes on after the error was sent.
SendErrAndContinue ==
    /\ stream.phase = "failing"
    /\ HasRoom
    /\ stream' = [stream EXCEPT !.phase = "scanning", !.ch = Append(@, Err)]

\* The error is sent outside any select: the context cannot interrupt it.
SendErr ==
    /\ stream.phase = "failing"
    /\ HasRoom
    /\ stream' = [stream EXCEPT !.phase = "closed", !.ch = Append(@, Err), !.ending = "error"]

Produce ==
    \/ ScanChunk \/ ScanDone \/ ScanEOF \/ ScanFail
    \/ Offer \/ OfferAborted \/ SendErr

\* The receive of the channel's oldest item.
Receive ==
    /\ stream.ch # <<>>
    /\ stream' = [stream EXCEPT !.ch = Tail(@)]

=============================================================================
