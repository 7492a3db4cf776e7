----------------------------- MODULE MCPromptRfq -----------------------------
EXTENDS PromptRfq, TLC
Names == Permutations(Theirs) \cup Permutations(Quotes)
=============================================================================
