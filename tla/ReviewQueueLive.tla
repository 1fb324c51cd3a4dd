--------------------------- MODULE ReviewQueueLive ---------------------------
(***************************************************************************)
(* What a batch of approved candidates must achieve once nothing disturbs  *)
(* it: from some moment on no process crashes and the database accepts the *)
(* mark that blocks a failed candidate.                                    *)
(***************************************************************************)
EXTENDS ReviewQueue

VARIABLE calm  \* TRUE once the disturbances are over

liveVars == <<vars, calm>>

LiveInit == Init /\ calm = FALSE

CalmsDown == ~calm /\ calm' = TRUE /\ UNCHANGED vars

LiveNext ==
    \/ CalmsDown
    \/ /\ UNCHANGED calm
       /\ Reviewers \/ \E p \in Procs : Starts(p) \/ Proceeds(p) \/ (~calm /\ Disturbs(p))

\* A running process goes on: its loop awaits each transaction, and each ends.
LiveSpec == /\ LiveInit
            /\ [][LiveNext]_liveVars
            /\ WF_liveVars(CalmsDown)
            /\ \A p \in Procs : WF_liveVars(Proceeds(p) /\ UNCHANGED calm)

-----------------------------------------------------------------------------
\* The candidates a batch has claimed and not finished.
Claimed(p) == IF proc[p].mode = "batch" THEN (proc[p].todo \cup {proc[p].item}) \ {NoCand} ELSE {}

\* A candidate claimed by a batch does not stay in in_review: it is applied or
\* blocked, even when its strategy throws, or a reviewer decides it again.
ClaimedIsSettled ==
    \A p \in Procs, c \in Cands :
        (calm /\ c \in Claimed(p)) ~> cand[c].status # "in_review"

\* Whoever lets go of a claimed candidate has settled it: in calm no step leaves
\* one in in_review that a batch had claimed and none has any more.
LetsGoOnlyOfSettled ==
    [][calm => \A c \in Cands :
           (\E p \in Procs : c \in Claimed(p)) /\ cand'[c].status = "in_review"
               => \E p \in Procs : c \in Claimed(p)']_liveVars
=============================================================================
