---------------------------- MODULE RoutingContract ----------------------------
(***************************************************************************)
(* What the gateway may rely on when it hands a draft to the executor:     *)
(* one verdict, and a speculative heavyweight call that has exactly one    *)
(* owner once the verdict is in.  A call is started at most once, only     *)
(* while the draft is undecided; an escalation hands it to the caller, and *)
(* every other verdict cancels it.                                         *)
(***************************************************************************)
VARIABLES
    verdict,   \* "drafting", or how the draft was decided
    call       \* the speculative heavyweight call

vars == <<verdict, call>>

Verdicts == {"drafting", "accepted", "escalated", "failed"}
Calls == {"none", "running", "cancelled", "handed"}

TypeOK == verdict \in Verdicts /\ call \in Calls

Init == verdict = "drafting" /\ call = "none"

Speculate ==
    /\ verdict = "drafting"
    /\ call = "none"
    /\ call' = "running"
    /\ UNCHANGED verdict

Stopped == IF call = "running" THEN "cancelled" ELSE call

Accept ==
    /\ verdict = "drafting"
    /\ verdict' = "accepted"
    /\ call' = Stopped

Fail ==
    /\ verdict = "drafting"
    /\ verdict' = "failed"
    /\ call' = Stopped

Escalate ==
    /\ verdict = "drafting"
    /\ verdict' = "escalated"
    /\ call' = IF call = "running" THEN "handed" ELSE call

Decide == Accept \/ Fail \/ Escalate

Next == Speculate \/ Decide

Spec == Init /\ [][Next]_vars /\ WF_vars(Decide)

\* Once there is a verdict nobody is left with a running call he does not own.
Owned == verdict # "drafting" => call # "running"

=============================================================================
