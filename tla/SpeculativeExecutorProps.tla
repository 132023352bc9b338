------------------------ MODULE SpeculativeExecutorProps -----------------------
(***************************************************************************)
(* What Execute promises, and what the documents say of it.                *)
(***************************************************************************)
EXTENDS ExecutorAsRouter

TypeOK ==
    /\ drafter \in D!StreamState
    /\ heavy \in H!StreamState
    /\ ctxDone \in BOOLEAN /\ hvCancelled \in BOOLEAN /\ handed \in BOOLEAN
    /\ pc \in {"select", "tokens", "starting", "result", "ctxErr", "drafterErr"}
    /\ tokens \in Seq(Nat)
    /\ softTriggered \in BOOLEAN
    /\ state \in {"drafting", "speculating", "escalated", "accepted"}
    /\ entropies \in Seq(Nat)
    /\ drafted \in Nat
    /\ drains \subseteq {"drafter", "heavy"}

-----------------------------------------------------------------------------
\* The verdict and the speculative call as the handler sees them.
Verdict ==
    CASE pc = "result" -> state
      [] pc \in {"ctxErr", "drafterErr"} -> "failed"
      [] OTHER -> "drafting"

Call ==
    CASE ~H!Started -> "none"
      [] hvCancelled -> "cancelled"
      [] handed -> "handed"
      [] OTHER -> "running"

Contract == INSTANCE RoutingContract WITH verdict <- Verdict, call <- Call

\* Execute is an implementation of the routing contract: whatever the order
\* of tokens, errors, failed starts and a disconnecting client, it returns
\* with one verdict, and a started heavyweight call is handed over by an
\* escalation and cancelled by everything else.
KeepsContract == Contract!Spec

\* Its safety part: no verdict is revised, and no call is lost or doubled.
StepsOfContract == Contract!Init /\ [][Contract!Next]_(Contract!vars)

\* No return of Execute leaves a heavyweight call that is neither cancelled
\* nor handed over: nobody would ever stop paying for it.
CallIsOwned == Contract!Owned

\* A handed channel has one reader, and it is not cancelled under him.
HandedCallIsLive == handed => ~hvCancelled /\ "heavy" \notin drains

-----------------------------------------------------------------------------
\* An accepted draft was read to the end of a body that ended cleanly, every
\* chunk of it judged, as long as the client is still there.
AcceptedDraftIsJudged ==
    pc = "result" /\ state = "accepted" /\ ~ctxDone =>
        drafter.ending \in {"done", "eof"} /\ drafted = drafter.scanned

\* The drafter's goroutine is stuck in the send of an error.
DrafterStuck == drafter.phase = "failing" /\ ~D!HasRoom /\ pc = "ctxErr"

\* The heavyweight's goroutine is stuck in the send of an error, behind a full
\* channel that Execute handed over and whose reader has stopped.
HeavyStuck == heavy.phase = "failing" /\ ~H!HasRoom /\ handed

\* Both calls' goroutines end, whether or not the caller reads the channel it was
\* handed to its end, but for the send of an error, which no context interrupts.
\* Only a return on ctx.Done(), which does not drain the drafter, can leave the
\* drafter's goroutine in it, and only a handed channel the heavyweight's: a call
\* that Execute cancelled ends, errors included.
NoGoroutineLeft ==
    <>[](/\ drafter.phase = "closed" \/ DrafterStuck
         /\ heavy.phase \in {"idle", "closed"} \/ HeavyStuck)

-----------------------------------------------------------------------------
Undecided == pc \in {"select", "tokens", "starting"}
Unjudged == state \in {"drafting", "speculating"}

TokenInv == pc = "tokens" => tokens # <<>>

VerdictInv ==
    /\ Undecided => Unjudged /\ ~handed /\ ~hvCancelled /\ drains = {}
    /\ pc = "result" => state \in {"accepted", "escalated"}
    /\ pc \in {"ctxErr", "drafterErr"} => Unjudged

CallInv ==
    /\ H!Started => softTriggered
    /\ pc = "starting" => ~H!Started /\ softTriggered
    /\ handed => H!Started /\ pc = "result" /\ state = "escalated" /\ HandedCallIsLive
    /\ H!Started /\ Returned => (handed <=> ~hvCancelled)

\* The drafter's goroutine: a channel that is closed has a reason.
GoroutineInv ==
    /\ drafter.phase = "closed" <=> drafter.ending # "open"
    /\ Len(drafter.pending) = IF drafter.phase = "offering" THEN 1 ELSE 0
    /\ drafter.ending = "aborted" => ctxDone

\* While the draft is undecided each chunk read off the body is drafted, in
\* the channel or about to be, and an error waits at the channel's end.
DraftInv ==
    Undecided =>
        /\ drafter.ending \in {"open", "done", "eof"} =>
              /\ drafter.scanned = drafted + Len(drafter.ch) + Len(drafter.pending)
              /\ \A i \in 1 .. Len(drafter.ch) : drafter.ch[i] # Err
        /\ drafter.ending = "error" =>
              drafter.ch # <<>> /\ drafter.ch[Len(drafter.ch)] = Err

AcceptInv ==
    /\ AcceptedDraftIsJudged
    /\ state = "accepted" => drafter.phase = "closed"

\* Where the speculative call, the draft's chunks and the channel's error are
\* at each point of Execute: it implies CallIsOwned, HandedCallIsLive and
\* AcceptedDraftIsJudged, and is inductive (SpeculativeExecutorProofs).
IInv == /\ TypeOK /\ TokenInv
        /\ VerdictInv /\ CallInv
        /\ GoroutineInv /\ DraftInv /\ AcceptInv

\* Speculation never moves an escalation: Execute escalates exactly at the first
\* token at which the documented rule calls for the heavyweight, and nowhere
\* else.  Inductive: the window holds the entropies that Execute has recorded.
EscalationIsRule ==
    /\ Tracks(window, entropies)
    /\ Rule!Crossings(entropies) = IF state = "escalated" THEN {Len(entropies)} ELSE {}

-----------------------------------------------------------------------------
\* docs/STREAMING_DESIGN.md 1: the handler consumes the whole drafter stream,
\* running the window over every token, before it accepts a draft.
AcceptedDraftIsWhole ==
    pc = "result" /\ state = "accepted" => drafted = drafter.scanned

=============================================================================
