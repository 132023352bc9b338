------------------------------- MODULE RouterProps -------------------------------
(***************************************************************************)
(* What Route promises to the serial handlers.                             *)
(***************************************************************************)
EXTENDS Router

TypeOK ==
    /\ drafter \in D!StreamState /\ Len(drafter.ch) <= Capacity
    /\ ctxDone \in BOOLEAN
    /\ pc \in {"select", "tokens", "result", "ctxErr", "drafterErr"}
    /\ tokens \in Seq(Nat)
    /\ decision \in {"continue", "accept", "escalate"}
    /\ entropies \in Seq(Nat)
    /\ drafted \in Nat
    /\ draining \in BOOLEAN

\* Route escalates exactly at the first token at which the documented rule
\* does, however the tokens are split into chunks, and never after an error.
DecisionIsRule ==
    /\ TypeOK
    /\ Rule!Crossings(entropies) = IF decision = "escalate" THEN {Len(entropies)} ELSE {}
    /\ decision # "continue" <=> pc = "result"

\* A client that disconnects is noticed, or the draft is decided: Route does
\* not need another chunk of a drafter that stalls to return.
DisconnectIsNoticed == ctxDone ~> Returned

\* A drafter's body ends, fails or gives another chunk within its client's timeout.
BodyEnds == WF_vars(DrafterGoroutine)

\* Route returns once the drafter's body ends, whatever the client does.
RouteReturns == BodyEnds => <>Returned

\* net/http cancels the context of a handler that has returned.
HandlerEnds == WF_vars(Returned /\ ContextDone)

\* The goroutine of the drafter's call ends; only a return on ctx.Done(), which
\* does not drain the channel, can leave it in the send of an error.
DrafterStuck == drafter.phase = "failing" /\ ~D!HasRoom /\ pc = "ctxErr"
DrafterGoroutineEnds ==
    BodyEnds /\ HandlerEnds /\ WF_vars(DrainDrafter) =>
        <>[](drafter.phase = "closed" \/ DrafterStuck)

-----------------------------------------------------------------------------
\* The inductive invariant behind DecisionIsRule: the window holds the
\* entropies Route has recorded, and a loop over tokens has one to score.
IInv == DecisionIsRule /\ Tracks(window, entropies) /\ (pc = "tokens" => tokens # <<>>)

=============================================================================
