------------------------- MODULE MCSpeculativeExecutor -------------------------
EXTENDS SpeculativeExecutorProps

\* Quiet, soft, hard and mixed chunks, and one without logprobs.
\* The smaller set serves the counterexamples.
MCDraftChunks == {<<>>, <<0>>, <<2>>, <<3>>, <<2, 0>>}
MCFewDraftChunks == {<<0>>, <<2>>, <<3>>}

=============================================================================
