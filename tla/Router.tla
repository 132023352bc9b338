--------------------------------- MODULE Router ---------------------------------
(***************************************************************************)
(* internal/router/router.go: Route reads the drafter's channel, scores    *)
(* every token and returns a decision; it is what decides when speculation *)
(* is off.  The drafter's call is a StreamClient whose goroutine runs      *)
(* concurrently with Route and with the goroutine that drains the channel  *)
(* after an escalation.                                                    *)
(***************************************************************************)
EXTENDS EntropyWindow

CONSTANTS
    DraftChunks,     \* a drafter chunk is the sequence of its tokens' entropies
    Err, Capacity, MaxChunks

ASSUME RouterAssumption ==
    /\ DraftChunks \subseteq Seq(Nat)
    /\ Capacity \in Nat \ {0} /\ MaxChunks \in Nat
    /\ Err \notin DraftChunks

VARIABLES
    drafter,     \* the drafter's streaming call
    ctxDone,     \* the request's context is done
    pc,          \* where Route stands, or how it returned
    window,
    tokens,      \* the tokens of the current chunk not scored yet
    decision,    \* RoutingResult.Decision, "accept" once it is returned as such
    entropies,   \* RoutingResult.Entropies
    drafted,     \* len(RoutingResult.DraftChunks)
    draining     \* a goroutine reads and discards the rest of the channel

vars == <<drafter, ctxDone, pc, window, tokens, decision, entropies, drafted, draining>>

D == INSTANCE StreamClient WITH
        stream <- drafter, cancelled <- ctxDone, Chunks <- DraftChunks

Returned == pc \in {"result", "ctxErr", "drafterErr"}

\* Route is entered with an open drafter channel.
Init ==
    /\ drafter = [D!NoStream EXCEPT !.phase = "scanning"]
    /\ ctxDone = FALSE
    /\ pc = "select"
    /\ window = NewWindow
    /\ tokens = <<>>
    /\ decision = "continue"
    /\ entropies = <<>>
    /\ drafted = 0
    /\ draining = FALSE

-----------------------------------------------------------------------------
\* Mutant of CtxReturn: the select has no ctx.Done() case.
NoCtxCase == FALSE /\ UNCHANGED vars

CtxReturn ==
    /\ pc = "select"
    /\ ctxDone
    /\ pc' = "ctxErr"
    /\ UNCHANGED <<drafter, ctxDone, window, tokens, decision, entropies, drafted, draining>>

\* Mutant of AcceptDraft: a closed channel is read as an endless run of nil chunks.
ClosedIsNilChunk ==
    /\ pc = "select" /\ D!Ended
    /\ UNCHANGED vars

AcceptDraft ==
    /\ pc = "select"
    /\ D!Ended
    /\ pc' = "result"
    /\ decision' = "accept"
    /\ UNCHANGED <<drafter, ctxDone, window, tokens, entropies, drafted, draining>>

DrafterError ==
    /\ pc = "select"
    /\ D!Receive /\ Head(drafter.ch) = Err
    /\ pc' = "drafterErr"
    /\ UNCHANGED <<ctxDone, window, tokens, decision, entropies, drafted, draining>>

\* A chunk without logprobs has no token, and the select is entered again.
ReceiveChunk ==
    /\ pc = "select"
    /\ D!Receive /\ Head(drafter.ch) # Err
    /\ tokens' = Head(drafter.ch)
    /\ pc' = IF tokens' = <<>> THEN "select" ELSE "tokens"
    /\ drafted' = drafted + 1
    /\ UNCHANGED <<ctxDone, window, decision, entropies, draining>>

\* The head of the loop over a chunk's tokens: score the next one.
Score ==
    /\ pc = "tokens"
    /\ window' = AddToWindow(window, Head(tokens))
    /\ tokens' = Tail(tokens)
    /\ entropies' = Append(entropies, Head(tokens))
    /\ UNCHANGED <<drafter, ctxDone, drafted>>

Crossed == Escalates(window', Head(tokens))

\* Mutant of EscalateDraft: the abandoned channel is left to fill up.
EscalateWithoutDrain ==
    /\ Score /\ Crossed
    /\ pc' = "result" /\ decision' = "escalate"
    /\ UNCHANGED draining

EscalateDraft ==
    /\ Score /\ Crossed
    /\ pc' = "result" /\ decision' = "escalate"
    /\ draining' = TRUE

KeepDrafting ==
    /\ Score /\ ~Crossed
    /\ pc' = IF tokens' = <<>> THEN "select" ELSE "tokens"
    /\ UNCHANGED <<decision, draining>>

Route ==
    \/ CtxReturn \/ AcceptDraft \/ DrafterError \/ ReceiveChunk
    \/ EscalateDraft \/ KeepDrafting

-----------------------------------------------------------------------------
others == <<pc, window, tokens, decision, entropies, drafted, draining>>

DrafterGoroutine == D!Produce /\ UNCHANGED <<ctxDone, others>>
DrainDrafter == draining /\ D!Receive /\ UNCHANGED <<ctxDone, others>>

\* The client disconnects, or the handler has returned.
ContextDone ==
    /\ ~ctxDone
    /\ ctxDone' = TRUE
    /\ UNCHANGED <<drafter, others>>

Next == Route \/ DrafterGoroutine \/ DrainDrafter \/ ContextDone

\* Route is scheduled.  Nothing is assumed of the drafter, which may stall for
\* ever in the middle of its body, nor of the client.
Spec == Init /\ [][Next]_vars /\ WF_vars(Route)

=============================================================================
