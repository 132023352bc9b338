---------------------------- MODULE EscalationRule -----------------------------
(***************************************************************************)
(* The routing rule docs/SYSTEM_DESIGN.md 3.1 describes, stated on the     *)
(* whole sequence of token entropies and with no ring buffer or running    *)
(* sum: the reference that the window, the router, the executor and every  *)
(* offline replay of a trace must agree with.                              *)
(***************************************************************************)
EXTENDS Integers, Sequences

CONSTANTS Size, Threshold, EarlyExitCount

Total(s) ==
    LET sum[n \in 0 .. Len(s)] == IF n = 0 THEN 0 ELSE sum[n - 1] + s[n]
    IN  sum[Len(s)]

\* The last Size entries of s, or all of them.
LastEntries(s) ==
    SubSeq(s, IF Len(s) > Size THEN Len(s) - Size + 1 ELSE 1, Len(s))

\* The last token of s calls for the heavyweight: it is one of the first
\* EarlyExitCount and above the threshold itself, or it completes a full
\* window whose mean is above the threshold.
Crosses(s) ==
    \/ Len(s) <= EarlyExitCount /\ s[Len(s)] > Threshold
    \/ Len(s) >= Size /\ Total(LastEntries(s)) > Threshold * Size

\* The positions of s at which the rule calls for the heavyweight.
Crossings(s) == {n \in 1 .. Len(s) : Crosses(SubSeq(s, 1, n))}

=============================================================================
