--------------------------------- MODULE Sweep ---------------------------------
(***************************************************************************)
(* benchmarks/internal/sweep over the records of several traces: the       *)
(* counts of ComputeStatsWithPolicy, the threshold that matches a rate and *)
(* the AUROC.  Each trace is read by TraceReplay and becomes a record with *)
(* the score and the replayed decision that the policies would find.       *)
(*                                                                         *)
(* Ranks and scores are kept in whole numbers (twice the midrank, Size     *)
(* times the score); only counts are modelled of the statistics, no costs  *)
(* and latencies.                                                          *)
(***************************************************************************)
EXTENDS TraceReplay, SequencesExt, FiniteSetsExt

CONSTANTS
    MaxRecords,    \* bound on the records
    MaxTokens      \* bound on the tokens of all the records

ASSUME SweepAssumption == MaxRecords \in Nat /\ MaxTokens \in Nat

VARIABLE records

sweepVars == <<replayVars, records>>

(***************************************************************************)
(* acceptable    Judge.Acceptable, the drafter's answer is right           *)
(* heavyCorrect  the heavyweight's answer is: always without an answer key *)
(***************************************************************************)
Verdicts == [acceptable : BOOLEAN, heavyCorrect : BOOLEAN]

Record(verdict) ==
    [verdict |-> verdict, tokens |-> Len(fed), score |-> peak,
     wouldEscalate |-> escalatedAt # 0]

SweepInit == ReplayInit /\ records = <<>>

TokensRead == FoldSeq(LAMBDA r, n : r.tokens + n, Len(fed), records)

\* A record without an error, and one with: every statistic skips it.
NextRecord ==
    /\ Len(records) < MaxRecords /\ TokensRead <= MaxTokens
    /\ \E v \in Verdicts : records' = Append(records, Record(v))
    /\ NextTrace

SkipRecord == NextTrace /\ UNCHANGED records

ReadRecordToken ==
    /\ records # <<>> => TokensRead < MaxTokens
    /\ ReadToken /\ UNCHANGED records

SweepNext == ReadRecordToken \/ NextRecord \/ SkipRecord

SweepSpec == SweepInit /\ [][SweepNext]_sweepVars

-----------------------------------------------------------------------------
\* Two policies: the replay at the threshold, and a score above a threshold.
EntropyPolicy(r) == r.wouldEscalate
ScoreThresholdPolicy(threshold, r) == r.score > threshold

servedCorrect(r, escalated) ==
    IF escalated THEN r.verdict.heavyCorrect ELSE r.verdict.acceptable

\* ComputeStatsWithPolicy, for a policy given by the records it escalates.
Stats(escalated) ==
    LET unacceptable == {i \in DOMAIN records : ~records[i].verdict.acceptable}
        wrong == {i \in DOMAIN records : ~servedCorrect(records[i], i \in escalated)}
    IN  [TotalPrompts   |-> Len(records),
         EscalatedCount |-> Cardinality(escalated),
         TP |-> Cardinality(escalated \cap unacceptable),
         FP |-> Cardinality(escalated \ unacceptable),
         TN |-> Cardinality(DOMAIN records \ (escalated \cup unacceptable)),
         FN |-> Cardinality(unacceptable \ escalated),
         ServedWrong |-> Cardinality(wrong)]

-----------------------------------------------------------------------------
\* What the sorts of auroc.go may return, which need not be stable: the records
\* by score, the lowest first, and tied ones in any order.
Sorts ==
    LET D == DOMAIN records
        Ascending(order) ==
            \A i, j \in D : i < j => records[order[i]].score <= records[order[j]].score
    IN  {[i \in D |-> records[order[i]]] :
            order \in {o \in Bijection(D, D) : Ascending(o)}}

SortedScores == {[i \in DOMAIN s |-> s[i].score] : s \in Sorts}

\* math.Round(rate * n) for the rate num / den.
Rounded(num, den, n) == (2 * num * n + den) \div (2 * den)

\* Mutant of ThresholdForRate: the lowest score that is to be escalated.
LowestEscalated(vals, num, den) ==
    LET n == Len(vals)
        m == Rounded(num, den, n)
    IN  IF n = 0 THEN 0
        ELSE IF m <= 0 THEN vals[n]
        ELSE vals[n - m + 1]

\* The m highest scores are strictly above it.
ThresholdForRate(vals, num, den) ==
    LET n == Len(vals)
        m == Rounded(num, den, n)
    IN  IF n = 0 THEN 0
        ELSE IF m <= 0 THEN vals[n]
        ELSE IF m >= n THEN vals[1] - Size
        ELSE vals[n - m]

\* Mutant of TwiceMidrank: ties share the lowest of their ranks.
TwiceLowestRank(items, k) ==
    2 * Min({i \in DOMAIN items : items[i].score = items[k].score})

\* The rank of the k-th item, the mean over the run of equal scores it is in.
TwiceMidrank(items, k) ==
    LET run == {i \in DOMAIN items : items[i].score = items[k].score}
    IN  Min(run) + Max(run)

Positives(items) == {k \in DOMAIN items : ~items[k].verdict.acceptable}

\* AUROC is TwiceU over 2 * pos * neg, when there are both.
TwiceU(items) ==
    LET pos == Cardinality(Positives(items))
    IN  SumFunction([k \in Positives(items) |-> TwiceMidrank(items, k)]) - pos * (pos + 1)

-----------------------------------------------------------------------------
\* auroc.go:106: whatever order the sort leaves ties in, runs of which may mix
\* both classes, the rank sum counts, for each pair of an unacceptable and an
\* acceptable draft, whether the score orders them, ties as half.
Worth(r, q) == IF r.score > q.score THEN 2 ELSE IF r.score = q.score THEN 1 ELSE 0

Pairs == Positives(records) \X (DOMAIN records \ Positives(records))

AUROCIsPairwise ==
    LET wins == SumFunction([pair \in Pairs |-> Worth(records[pair[1]], records[pair[2]])])
    IN  \A items \in Sorts : TwiceU(items) = wins

\* auroc.go:78: the threshold for a rate has at most the wanted number of
\* scores above it, and exactly that number unless it is a tied score; at the
\* rate of the entropy router it is the router again, ties or not, count for
\* count, so that a rate-matched comparison compares the scores alone.
Escalated == {i \in DOMAIN records : EntropyPolicy(records[i])}
Above(t) == {i \in DOMAIN records : ScoreThresholdPolicy(t, records[i])}
Tied(t) == Cardinality({i \in DOMAIN records : records[i].score = t}) > 1

RateMatchedIsRouter ==
    \A vals \in SortedScores :
        LET router == Stats(Escalated)
            n == router.TotalPrompts
        IN  n > 0 =>
              /\ \A q \in 0 .. 4 :
                    LET t == ThresholdForRate(vals, q, 4)
                    IN  /\ Cardinality(Above(t)) <= Rounded(q, 4, n)
                        /\ ~Tied(t) => Cardinality(Above(t)) = Rounded(q, 4, n)
              /\ Stats(Above(ThresholdForRate(vals, router.EscalatedCount, n))) = router

-----------------------------------------------------------------------------
\* The inductive invariant of a sweep: what a record has kept of its trace
\* still decides it at the threshold it was replayed at.
RecordsInv ==
    /\ ReplayInv
    /\ records \in Seq([verdict : Verdicts, tokens : Nat, score : Nat, wouldEscalate : BOOLEAN])
    /\ \A i \in DOMAIN records :
          EntropyPolicy(records[i]) <=> ScoreThresholdPolicy(Size * Threshold, records[i])

\* The records can be sorted by their scores.
SortsExist == Sorts # {}

=============================================================================
