----------------------------- MODULE WindowMachine -----------------------------
(***************************************************************************)
(* One entropy.Window driven through every sequence of Add and Reset calls.*)
(***************************************************************************)
EXTENDS EntropyWindow

CONSTANTS
    Entropies,   \* the entropies a token can have
    MaxAdds      \* bound on the Adds between two Resets (count is unbounded in the code)

ASSUME MachineAssumption == Entropies \subseteq Nat /\ MaxAdds \in Nat

VARIABLES
    ring,      \* the Window
    fed,         \* the entropies added since the last Reset (Result.Entropies)
    escalate     \* the last decision Add returned was Escalate

ringVars == <<ring, fed, escalate>>

RingInit ==
    /\ ring = NewWindow
    /\ fed = <<>>
    /\ escalate = FALSE

Add ==
    /\ Len(fed) < MaxAdds
    /\ \E e \in Entropies :
          /\ ring' = AddToWindow(ring, e)
          /\ fed' = Append(fed, e)
          /\ escalate' = Escalates(ring', e)

Reset ==
    /\ ring' = NewWindow
    /\ fed' = <<>>
    /\ UNCHANGED escalate

-----------------------------------------------------------------------------
\* The ring's cursor, counter and fill flag stay in step with each other and
\* with the number of tokens added, whatever the size.
RingTypeOK ==
    /\ ring \in [buf : [Slots -> Entropies \cup {0}], pos : Slots, count : Nat,
                   sum : Int, filled : BOOLEAN]
    /\ fed \in Seq(Entropies)
    /\ escalate \in BOOLEAN

\* The decision Add returned for the newest token is the documented rule's:
\* the ring buffer, the running sum with its subtraction of the entry it
\* overwrites, and the early-exit count never disagree with it, on short
\* windows, across wrap-around and after a Reset.
AddDecidesByRule == RingTypeOK /\ (fed # <<>> => (escalate <=> Rule!Crosses(fed)))

=============================================================================
