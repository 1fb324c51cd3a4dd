------------------------------ MODULE JobLedger ------------------------------
(***************************************************************************)
(* What the rest of the program may rely on of source_check_jobs: the      *)
(* statuses of its rows, without workers, leases, attempts and time.       *)
(***************************************************************************)
CONSTANTS Targets, Jobs, TargetOf

VARIABLE status

Waiting  == {"pending", "failed"}
Unsettled == Waiting \cup {"in_progress"}
Marks    == {"succeeded", "failed", "dead"}

LedgerInit == status = [j \in Jobs |-> "absent"]

Others(j) == {i \in Jobs \ {j} : TargetOf[i] = TargetOf[j] /\ status[i] \in Unsettled}

\* One transaction inserts the rows N, for targets without an unsettled job,
\* and takes the rows C in progress: new ones and ones that waited.  A row of
\* N may have been settled before: its identity stands for a new row then.
Start(N, C) ==
    /\ \A j \in N : /\ status[j] \notin Unsettled
                    /\ Others(j) = {}
                    /\ \A i \in N : TargetOf[i] = TargetOf[j] => i = j
    /\ \A j \in C : j \in N \/ status[j] \in Waiting
    /\ status' = [j \in Jobs |-> IF j \in C THEN "in_progress"
                                 ELSE IF j \in N THEN "pending" ELSE status[j]]

\* A row that was once taken in progress is marked, by its worker or by one
\* that lost it long ago; it is never marked failed beside another job.
Mark(j, mark) ==
    /\ status[j] \notin {"absent", "pending"}
    /\ mark = "failed" => Others(j) = {}
    /\ status' = [status EXCEPT ![j] = mark]

LedgerNext == \/ \E N, C \in SUBSET Jobs : Start(N, C)
              \/ \E j \in Jobs, mark \in Marks : Mark(j, mark)

LedgerSpec == LedgerInit /\ [][LedgerNext]_status

-----------------------------------------------------------------------------
\* What the ledger is kept for: a target never has two unsettled jobs.
OneUnsettled ==
    \A i, j \in Jobs :
        status[i] \in Unsettled /\ status[j] \in Unsettled /\ TargetOf[i] = TargetOf[j] => i = j
=============================================================================
