---------------------------- MODULE MCSemanticCache ----------------------------
EXTENDS SemanticCache, TLC

CONSTANTS p, close, far

\* close is a near-duplicate of p above the threshold; far is not similar to either.
MCPrompts == {p, close, far}
MCScore == [q \in MCPrompts |-> [r \in MCPrompts |->
    IF q = r THEN 100 ELSE IF {q, r} = {p, close} THEN 96 ELSE 40]]

MCSymmetry == Permutations(Ops) \cup Permutations(Ids)

=============================================================================
