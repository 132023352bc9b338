---------------------------- MODULE ExecutorAsRouter ----------------------------
(***************************************************************************)
(* The speculative executor seen without its heavyweight call: what is     *)
(* left is the serial router.                                              *)
(***************************************************************************)
EXTENDS SpeculativeExecutor

\* The start of the heavyweight call is a pause in the loop over the tokens.
RouterPC ==
    IF pc # "starting" THEN pc ELSE IF tokens = <<>> THEN "select" ELSE "tokens"

RouterDecision ==
    CASE state = "escalated" -> "escalate"
      [] state = "accepted" -> "accept"
      [] OTHER -> "continue"

Serial == INSTANCE Router WITH
             pc <- RouterPC, decision <- RouterDecision, draining <- "drafter" \in drains

\* Speculation never changes a decision: every behaviour of Execute is, to a
\* reader of the drafter's channel and of the result's decision, one of Route.
\* What holds of Route's decisions holds of Execute's: they are the rule's.
DecidesAsRouter == Serial!Init /\ [][Serial!Next]_(Serial!vars)

=============================================================================
