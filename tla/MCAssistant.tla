----------------------------- MODULE MCAssistant -----------------------------
EXTENDS Assistant, TLC

Symmetric == Permutations(Request) \cup Permutations(Topic) \cup Permutations(Conversation)

=============================================================================
