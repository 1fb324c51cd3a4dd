------------------------ MODULE MCSourceCheckJobsLive ------------------------
EXTENDS SourceCheckJobsLive
CONSTANTS Slots
MCJobs == Targets \X Slots
MCTargetOf == [j \in MCJobs |-> j[1]]
=============================================================================
