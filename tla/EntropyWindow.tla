----------------------------- MODULE EntropyWindow -----------------------------
(***************************************************************************)
(* The sliding entropy window of internal/entropy/window.go as operators   *)
(* on a window record.  Entropies are integers (a fixed-point scale), so   *)
(* the code's floating-point comparison Average() > Threshold is written   *)
(* without its division: sum > Threshold * n.                              *)
(***************************************************************************)
EXTENDS Integers, Sequences

CONSTANTS
    Size,            \* WindowConfig.Size
    Threshold,       \* WindowConfig.Threshold
    EarlyExitCount   \* WindowConfig.EarlyExitCount

\* config.validate rejects a window below 1 and a threshold that is not positive.
ASSUME WindowAssumption ==
    /\ Size \in Nat \ {0}
    /\ Threshold \in Nat \ {0}
    /\ EarlyExitCount \in Int

Slots == 0 .. Size - 1

NewWindow ==
    [buf |-> [i \in Slots |-> 0], pos |-> 0, count |-> 0, sum |-> 0, filled |-> FALSE]

\* Mutant of AddToWindow: the overwritten entry stays in the running sum.
AddKeepingOldest(w, e) ==
    [buf    |-> [w.buf EXCEPT ![w.pos] = e],
     pos    |-> (w.pos + 1) % Size,
     count  |-> w.count + 1,
     sum    |-> w.sum + e,
     filled |-> w.filled \/ w.count + 1 >= Size]

\* The ring-buffer update of Add: a full ring first gives up its oldest entry.
AddToWindow(w, e) ==
    [buf    |-> [w.buf EXCEPT ![w.pos] = e],
     pos    |-> (w.pos + 1) % Size,
     count  |-> w.count + 1,
     sum    |-> w.sum - (IF w.filled THEN w.buf[w.pos] ELSE 0) + e,
     filled |-> w.filled \/ w.count + 1 >= Size]

AverageExceeds(w) ==
    w.sum > Threshold * (IF w.count > Size THEN Size ELSE w.count)

\* Mutant of Escalates: the last early-exit token is treated as a late one.
EscalatesOneTokenLate(w, e) ==
    \/ w.count < EarlyExitCount /\ e > Threshold
    \/ w.filled /\ AverageExceeds(w)

\* The decision of Add, on the window w it has just added e to.
Escalates(w, e) ==
    \/ w.count <= EarlyExitCount /\ e > Threshold
    \/ w.filled /\ AverageExceeds(w)

-----------------------------------------------------------------------------
Rule == INSTANCE EscalationRule

\* The window w after the entropies s were added to it: the j-th newest of
\* them lies j slots behind the cursor, the oldest ones are overwritten, and
\* the running sum is the total of those that are left.
Tracks(w, s) ==
    /\ w \in [buf : [Slots -> Nat], pos : Slots, count : Nat, sum : Int, filled : BOOLEAN]
    /\ w.count = Len(s)
    /\ w.filled <=> Len(s) >= Size
    /\ w.sum = Rule!Total(Rule!LastEntries(s))
    /\ \A j \in 1 .. Size :
          j <= Len(s) =>
             w.buf[IF j <= w.pos THEN w.pos - j ELSE w.pos - j + Size] = s[Len(s) + 1 - j]

=============================================================================
