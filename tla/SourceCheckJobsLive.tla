------------------------- MODULE SourceCheckJobsLive -------------------------
(***************************************************************************)
(* What the queue of source checks must eventually do once the disturbances *)
(* stop: from some moment on no worker crashes and nobody reconfigures a    *)
(* target, and whatever state the disturbances left behind is the state     *)
(* the remaining workers have to clean up.                                  *)
(***************************************************************************)
EXTENDS SourceCheckJobs

VARIABLE calm  \* TRUE once the disturbances are over

liveVars == <<vars, calm>>

LiveInit == Init /\ calm = FALSE

CalmsDown == ~calm /\ calm' = TRUE /\ UNCHANGED vars

\* Claims, inserts and the steps of a running batch, without Crash.
SomeCycle == \E w \in Workers, E \in SUBSET Targets, C \in SUBSET Jobs : StartCycle(w, E, C)

WorksOff(w) == \/ \E j \in Jobs : BeginJob(w, j)
               \/ CheckSucceeds(w)
               \/ CheckFails(w)
               \/ MarkSucceeded(w)
               \/ MarkFailed(w)

CalmNext == \/ SomeCycle
            \/ \E w \in Workers : WorksOff(w) \/ RecordObservation(w)
            \/ Tick

LiveNext == \/ CalmsDown
            \/ UNCHANGED calm /\ (CalmNext \/ (~calm /\ Next))

\* A worker that has not crashed goes on with its batch: every fetch has a
\* timeout and every transaction ends.
WorkersGoOn == \A w \in Workers : WF_liveVars(WorksOff(w) /\ UNCHANGED calm)

Claims(j) == \E w \in Workers, E \in SUBSET Targets, C \in SUBSET Jobs :
                 j \in C /\ StartCycle(w, E, C)

Enqueues(t) == \E w \in Workers, E \in SUBSET Targets, C \in SUBSET Jobs :
                   t \in E /\ StartCycle(w, E, C)

\* Somebody keeps starting cycles: the worker loop polls, and a loop that ended
\* with an exception is started again.  SKIP LOCKED leaves out a row only while
\* another transaction holds its lock, and LIMIT is at least the number of
\* targets: a row that can be taken again and again is not left out for ever.
NothingIsSkippedForEver ==
    /\ \A j \in Jobs : SF_liveVars(Claims(j) /\ UNCHANGED calm)
    /\ \A t \in Targets : SF_liveVars(Enqueues(t) /\ UNCHANGED calm)

LiveSpec == /\ LiveInit
            /\ [][LiveNext]_liveVars
            /\ WF_liveVars(CalmsDown)
            /\ WF_liveVars(Tick /\ UNCHANGED calm)
            /\ WorkersGoOn
            /\ NothingIsSkippedForEver

-----------------------------------------------------------------------------
\* Whatever crashes left behind, each active job of an enabled target is
\* finished: reclaimed after its lease, retried after its backoff, and in the
\* end succeeded or dead.
EveryJobFinishes ==
    \A j \in Jobs : (calm /\ Active(j) /\ enabled[TargetOf[j]]) ~> ~Active(j)

\* An enabled target is checked again and again: no dead job, no stuck row and
\* no stale mark keeps it from being enqueued.
EveryTargetIsChecked ==
    \A t \in Targets : (calm /\ enabled[t]) ~>
        \E w \in Workers : worker[w].pc = "checking" /\ TargetOf[worker[w].job] = t
=============================================================================
