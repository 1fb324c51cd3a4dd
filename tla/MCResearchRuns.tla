---------------------------- MODULE MCResearchRuns ----------------------------
EXTENDS ResearchRuns, TLC
CONSTANT t1
MCTargetOf == [j \in Jobs |-> t1]
MCTargetsFor == [r \in Runs |-> Targets]
Symmetry == Permutations(Runs) \cup Permutations(Callers) \cup Permutations(Jobs)
=============================================================================
