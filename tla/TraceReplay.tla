------------------------------ MODULE TraceReplay ------------------------------
(***************************************************************************)
(* The offline replay of recorded traces in benchmarks/internal/sweep:     *)
(* Replay decides a trace at one threshold with the gateway's own window,  *)
(* EntropyScore reduces it to a number that is to decide it at every       *)
(* threshold.  Both read the trace token by token, side by side here.      *)
(* A score is kept as a sum over Size tokens, the code's average times     *)
(* Size, which needs no division.                                          *)
(***************************************************************************)
EXTENDS WindowMachine

VARIABLES
    escalatedAt,   \* Replay: the 1-based position it escalates at, 0 if none
    peak           \* EntropyScore, times Size

replayVars == <<ringVars, escalatedAt, peak>>

Larger(a, b) == IF a > b THEN a ELSE b

ReplayInit == RingInit /\ escalatedAt = 0 /\ peak = 0

\* Mutant of Replay: the last crossing wins.
ReplayLast == IF escalate' THEN Len(fed') ELSE escalatedAt

\* Replay returns at the first token Add escalates.
Replay == IF escalatedAt = 0 /\ escalate' THEN Len(fed') ELSE escalatedAt

\* Mutant of EntropyScore: one token too many counts as early exit.
EntropyScoreLate ==
    LET e     == fed'[Len(fed')]
        early == IF Len(fed) <= EarlyExitCount THEN Larger(peak, Size * e) ELSE peak
    IN  IF Len(fed') >= Size THEN Larger(early, ring'.sum) ELSE early

\* The peak so far: over the entropies of the early-exit prefix and over the
\* averages of full windows.
EntropyScore ==
    LET e     == fed'[Len(fed')]
        early == IF Len(fed) < EarlyExitCount THEN Larger(peak, Size * e) ELSE peak
    IN  IF Len(fed') >= Size THEN Larger(early, ring'.sum) ELSE early

ReadToken == Add /\ escalatedAt' = Replay /\ peak' = EntropyScore

\* The next record is replayed with a new window.
NextTrace == Reset /\ escalatedAt' = 0 /\ peak' = 0

ReplayNext == ReadToken \/ NextTrace

ReplaySpec == ReplayInit /\ [][ReplayNext]_replayVars

-----------------------------------------------------------------------------
\* replay.go and the gateway agree: a replayed trace is escalated at the first
\* token at which the documented rule calls for the heavyweight, and at no
\* other, which is where the router stops reading its draft.
ReplayIsRouter ==
    LET found == Rule!Crossings(fed)
    IN  IF found = {} THEN escalatedAt = 0
        ELSE escalatedAt \in found /\ \A n \in found : escalatedAt <= n

\* auroc.go:19: a record escalates at a threshold exactly when its score is
\* above it, although the score forgets where in the trace the peak was and
\* the replay stopped at the first crossing.
ScoreDecidesReplay == escalatedAt # 0 <=> peak > Size * Threshold

-----------------------------------------------------------------------------
\* The inductive invariant of a replay: its window holds the tokens read.
ReplayInv ==
    /\ Tracks(ring, fed) /\ AddDecidesByRule
    /\ escalatedAt \in Nat /\ peak \in Nat
    /\ ReplayIsRouter /\ ScoreDecidesReplay

=============================================================================
