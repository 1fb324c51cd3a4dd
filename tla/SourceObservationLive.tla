------------------------ MODULE SourceObservationLive ------------------------
(***************************************************************************)
(* What repeated checks of a source achieve once its documents stop        *)
(* changing, their servers stay up or stay down, and nothing else fails.   *)
(***************************************************************************)
EXTENDS SourceObservation

VARIABLE calm  \* TRUE once the disturbances are over

liveVars == <<vars, calm>>

LiveInit == Init /\ calm = FALSE

CalmsDown == ~calm /\ calm' = TRUE /\ UNCHANGED vars

GoesOn(p) == (StartCheck(p) \/ Proceeds(p)) /\ UNCHANGED calm

LiveNext ==
    \/ CalmsDown
    \/ \E i \in Items : Reextract(i) /\ UNCHANGED calm
    \/ \E p \in Procs : GoesOn(p)
    \/ /\ ~calm /\ UNCHANGED calm
       /\ (\E p \in Procs : Disturbs(p)) \/ \E i \in Items : WorldChanges(i)

\* The source is checked again and again (EveryTargetIsChecked of the module
\* SourceCheckJobsLive), and a check in progress goes on.
LiveSpec == /\ LiveInit
            /\ [][LiveNext]_liveVars
            /\ \A p \in Procs : WF_liveVars(GoesOn(p))

-----------------------------------------------------------------------------
Up(i) == world[i].up = "up"

\* A run gets as far as item i: no earlier task of the plan throws.
Reached(i) ==
    \E k \in 1..Len(Plan) :
        /\ Plan[k] = i
        /\ \A n \in 1..(k - 1) : Up(Plan[n]) \/ Partition[Plan[n]] \in snapshots

\* An observation that was fetched before the document changed may be recorded
\* after a newer one, and then stands as the latest; the checks correct it:
\* in the end the row of every document they reach shows what the source says.
ItemsCatchUp ==
    \A i \in Items : (calm /\ Up(i) /\ Reached(i)) ~> [](latest[i] = world[i].sha)

\* In the end the source counts as healthy when all of its documents can be
\* fetched, and never counts as healthy when none can, although the checks
\* still find the documents in the cache.
HealthSettles ==
    /\ (calm /\ \A i \in Items : Up(i)) ~> [](failures = 0)
    /\ (calm /\ \A i \in Items : ~Up(i)) ~> [](failures > 0)

\* A document whose facts were not promoted after its check gets them promoted
\* by later checks: the comment of promoteSourceCheckFacts.  Nobody has to run
\* Reextract.
RerunsMakeUp ==
    \A i \in Items :
        (calm /\ Up(i) /\ Reached(i)) ~> (latest[i] # NoSha /\ <<i, latest[i]>> \in promoted)
=============================================================================
