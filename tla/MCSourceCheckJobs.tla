-------------------------- MODULE MCSourceCheckJobs --------------------------
EXTENDS SourceCheckJobs, TLC
CONSTANTS Slots
MCJobs == Targets \X Slots
MCTargetOf == [j \in MCJobs |-> j[1]]
Symmetry == Permutations(Workers)
=============================================================================
