--------------------------- MODULE MCOrchestrator ---------------------------
EXTENDS Orchestrator, TLC

\* Callers are interchangeable, and so are product owners: no action or property tells them apart.
Symmetry == Permutations(Caller) \cup Permutations(HumanPO)
=============================================================================
