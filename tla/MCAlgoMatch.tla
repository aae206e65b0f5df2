---------------------------- MODULE MCAlgoMatch -----------------------------
EXTENDS AlgoMatch
=============================================================================
