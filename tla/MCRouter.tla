-------------------------------- MODULE MCRouter --------------------------------
EXTENDS RouterProps

\* Quiet, hard and mixed chunks, and one without logprobs.
MCDraftChunks == {<<>>, <<0>>, <<2>>, <<3>>, <<2, 3>>}

=============================================================================
