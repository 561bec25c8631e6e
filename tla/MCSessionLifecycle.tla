------------------------- MODULE MCSessionLifecycle -------------------------
EXTENDS SessionLifecycle, TLC

\* Requests of one kind, processes and keys are interchangeable.
Symmetric == Permutations(StartRequests) \cup Permutations(EndRequests)
             \cup Permutations(Instances) \cup Permutations(Keys)
=============================================================================
