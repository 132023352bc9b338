-------------------------- MODULE SpeculativeExecutor --------------------------
(***************************************************************************)
(* internal/speculative/executor.go: Execute reads the drafter's channel,  *)
(* scores every token, may start the heavyweight call early and returns a  *)
(* verdict.  The two streaming calls are StreamClients whose goroutines    *)
(* run concurrently with it, as do the drain goroutines it leaves behind   *)
(* and the handler that takes over a handed heavyweight channel.           *)
(***************************************************************************)
EXTENDS EntropyWindow

CONSTANTS
    SoftThreshold,   \* Threshold * SoftThresholdMult, the multiplier being in (0, 1)
    DraftChunks,     \* a drafter chunk is the sequence of its tokens' entropies
    HeavyChunks,
    Err, Capacity, MaxChunks

ASSUME ExecutorAssumption ==
    /\ SoftThreshold \in Nat /\ SoftThreshold < Threshold
    /\ DraftChunks \subseteq Seq(Nat)
    /\ Capacity \in Nat \ {0} /\ MaxChunks \in Nat
    /\ Err \notin DraftChunks \cup HeavyChunks

VARIABLES
    drafter,        \* the drafter's streaming call
    heavy,          \* the speculative heavyweight call (heavyCh, heavyCancel)
    ctxDone,        \* the request's context is done
    hvCancelled,    \* heavyCancel was called
    handed,         \* the Result carries heavyCh and heavyCancel
    pc,             \* where Execute stands, or how it returned
    window,
    tokens,         \* the tokens of the current chunk not scored yet
    softTriggered,
    state,          \* Result.State
    entropies,      \* Result.Entropies
    drafted,        \* len(Result.DraftChunks)
    drains          \* the channels a drain goroutine is reading

vars == <<drafter, heavy, ctxDone, hvCancelled, handed, pc, window, tokens,
          softTriggered, state, entropies, drafted, drains>>

D == INSTANCE StreamClient WITH
        stream <- drafter, cancelled <- ctxDone, Chunks <- DraftChunks
H == INSTANCE StreamClient WITH
        stream <- heavy, cancelled <- hvCancelled \/ ctxDone, Chunks <- HeavyChunks

Returned == pc \in {"result", "ctxErr", "drafterErr"}

\* Execute is entered with an open drafter channel.
Init ==
    /\ drafter = [D!NoStream EXCEPT !.phase = "scanning"]
    /\ heavy = H!NoStream
    /\ ctxDone = FALSE /\ hvCancelled = FALSE /\ handed = FALSE
    /\ pc = "select"
    /\ window = NewWindow
    /\ tokens = <<>>
    /\ softTriggered = FALSE
    /\ state = "drafting"
    /\ entropies = <<>>
    /\ drafted = 0
    /\ drains = {}

-----------------------------------------------------------------------------
\* Mutant of StopHeavy: cancelled, but nobody reads its channel any more.
CancelOnly == hvCancelled' = (hvCancelled \/ H!Started) /\ UNCHANGED drains

\* heavyCancel() and drainChannel(heavyCh), if there is a call.
StopHeavy ==
    IF H!Started
    THEN hvCancelled' = TRUE /\ drains' = drains \cup {"heavy"}
    ELSE UNCHANGED <<hvCancelled, drains>>

\* The select takes ctx.Done(), whatever the drafter's channel holds.
CtxReturn ==
    /\ pc = "select"
    /\ ctxDone
    /\ pc' = "ctxErr"
    /\ StopHeavy
    /\ UNCHANGED <<drafter, heavy, ctxDone, handed, window, tokens, softTriggered,
                   state, entropies, drafted>>

\* Mutant of AcceptDraft: a closed channel is read as an endless run of nil chunks.
ClosedIsNilChunk ==
    /\ pc = "select" /\ D!Ended
    /\ UNCHANGED vars

\* The drafter's channel is closed and empty: the draft is accepted.
AcceptDraft ==
    /\ pc = "select"
    /\ D!Ended
    /\ pc' = "result"
    /\ state' = "accepted"
    /\ IF softTriggered THEN StopHeavy ELSE UNCHANGED <<hvCancelled, drains>>
    /\ UNCHANGED <<drafter, heavy, ctxDone, handed, window, tokens, softTriggered,
                   entropies, drafted>>

\* Mutant of DrafterError: the error item is skipped like a nil chunk.
SkipDrafterError ==
    /\ pc = "select"
    /\ D!Receive /\ Head(drafter.ch) = Err
    /\ UNCHANGED <<heavy, ctxDone, hvCancelled, handed, pc, window, tokens, softTriggered,
                   state, entropies, drafted, drains>>

DrafterError ==
    /\ pc = "select"
    /\ D!Receive /\ Head(drafter.ch) = Err
    /\ pc' = "drafterErr"
    /\ StopHeavy
    /\ UNCHANGED <<heavy, ctxDone, handed, window, tokens, softTriggered, state,
                   entropies, drafted>>

\* A chunk without logprobs has no token, and the select is entered again.
ReceiveChunk ==
    /\ pc = "select"
    /\ D!Receive /\ Head(drafter.ch) # Err
    /\ tokens' = Head(drafter.ch)
    /\ pc' = IF tokens' = <<>> THEN "select" ELSE "tokens"
    /\ drafted' = drafted + 1
    /\ UNCHANGED <<heavy, ctxDone, hvCancelled, handed, window, softTriggered, state,
                   entropies, drains>>

-----------------------------------------------------------------------------
\* The head of the loop over a chunk's tokens: score the next one.
Score ==
    /\ pc = "tokens"
    /\ window' = AddToWindow(window, Head(tokens))
    /\ tokens' = Tail(tokens)
    /\ entropies' = Append(entropies, Head(tokens))
    /\ UNCHANGED <<drafter, heavy, ctxDone, hvCancelled, drafted>>

Crossed == Escalates(window', Head(tokens))
SoftCrossed == ~softTriggered /\ Head(tokens) > SoftThreshold

AfterToken == IF tokens' = <<>> THEN "select" ELSE "tokens"

\* Mutant of EscalateDraft: the draft is abandoned with nobody reading it.
EscalateWithoutDrain ==
    /\ Score /\ Crossed
    /\ pc' = "result"
    /\ state' = "escalated"
    /\ handed' = (softTriggered /\ H!Started)
    /\ UNCHANGED <<softTriggered, drains>>

\* Mutant of EscalateDraft: a running speculative call is not handed over.
EscalateWithoutHandover ==
    /\ Score /\ Crossed
    /\ pc' = "result"
    /\ state' = "escalated"
    /\ drains' = drains \cup {"drafter"}
    /\ UNCHANGED <<handed, softTriggered>>

\* Mutant of EscalateDraft: the handed channel is drained like the drafter's.
EscalateDrainingBoth ==
    /\ Score /\ Crossed
    /\ pc' = "result"
    /\ state' = "escalated"
    /\ handed' = (softTriggered /\ H!Started)
    /\ drains' = drains \cup {"drafter", "heavy"}
    /\ UNCHANGED softTriggered

\* The rest of the draft is read and discarded by a goroutine; the drafter's
\* call itself is not cancelled.
EscalateDraft ==
    /\ Score /\ Crossed
    /\ pc' = "result"
    /\ state' = "escalated"
    /\ handed' = (softTriggered /\ H!Started)
    /\ drains' = drains \cup {"drafter"}
    /\ UNCHANGED softTriggered

TriggerSpeculation ==
    /\ Score /\ ~Crossed /\ SoftCrossed
    /\ softTriggered' = TRUE
    /\ pc' = "starting"
    /\ UNCHANGED <<handed, state, drains>>

KeepDrafting ==
    /\ Score /\ ~Crossed /\ ~SoftCrossed
    /\ pc' = AfterToken
    /\ UNCHANGED <<handed, softTriggered, state, drains>>

\* The call to heavyweight.Stream runs inside the token loop: it returns a
\* channel, or an error that lets a later token trigger again.
StartHeavy ==
    /\ pc = "starting"
    /\ H!Open
    /\ state' = "speculating"
    /\ pc' = IF tokens = <<>> THEN "select" ELSE "tokens"
    /\ UNCHANGED <<drafter, ctxDone, hvCancelled, handed, window, tokens, softTriggered,
                   entropies, drafted, drains>>

StartHeavyFails ==
    /\ pc = "starting"
    /\ softTriggered' = FALSE
    /\ pc' = IF tokens = <<>> THEN "select" ELSE "tokens"
    /\ UNCHANGED <<drafter, heavy, ctxDone, hvCancelled, handed, window, tokens, state,
                   entropies, drafted, drains>>

Execute ==
    \/ CtxReturn \/ AcceptDraft \/ DrafterError \/ ReceiveChunk
    \/ EscalateDraft \/ TriggerSpeculation \/ KeepDrafting
    \/ StartHeavy \/ StartHeavyFails

-----------------------------------------------------------------------------
others == <<hvCancelled, handed, pc, window, tokens, softTriggered, state, entropies,
            drafted, drains>>

DrafterGoroutine == D!Produce /\ UNCHANGED <<heavy, ctxDone, others>>
HeavyGoroutine == H!Produce /\ UNCHANGED <<drafter, ctxDone, others>>

DrainDrafter == "drafter" \in drains /\ D!Receive /\ UNCHANGED <<heavy, ctxDone, others>>
DrainHeavy == "heavy" \in drains /\ H!Receive /\ UNCHANGED <<drafter, ctxDone, others>>

\* The handler takes the next item of the channel it was handed: the loop that
\* assembles a reply, or the forwarder that streamSSE reads from.  It may stop at
\* any item: the loop returns at an error, and the forwarder stays in its send
\* when a write to the client has failed and streamSSE has left.
CallerReads == handed /\ H!Receive /\ UNCHANGED <<drafter, ctxDone, others>>

\* The client disconnects, or the handler has returned.
ContextDone ==
    /\ ~ctxDone
    /\ ctxDone' = TRUE
    /\ UNCHANGED <<drafter, heavy, others>>

Next ==
    \/ Execute
    \/ DrafterGoroutine \/ HeavyGoroutine
    \/ DrainDrafter \/ DrainHeavy \/ CallerReads
    \/ ContextDone

\* Goroutines are scheduled, bodies end or fail, and net/http cancels the
\* context of a handler that has returned; nothing makes a client disconnect,
\* and nothing makes the caller read a handed channel on.
Fairness ==
    /\ WF_vars(Execute)
    /\ WF_vars(DrafterGoroutine) /\ WF_vars(HeavyGoroutine)
    /\ WF_vars(DrainDrafter) /\ WF_vars(DrainHeavy)
    /\ WF_vars(Returned /\ ContextDone)

Spec == Init /\ [][Next]_vars /\ Fairness

=============================================================================
