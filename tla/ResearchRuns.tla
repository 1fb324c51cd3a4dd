----------------------------- MODULE ResearchRuns -----------------------------
(***************************************************************************)
(* Company research runs: a run makes the source check targets of its      *)
(* company due, and its status is derived, whenever somebody asks, from    *)
(* the jobs of those targets.  Runs come from a read-through report, which *)
(* uses a fresh run of the company again when there is one, or from a      *)
(* pending write of the MCP tools that somebody confirms.                  *)
(*                                                                         *)
(* Of the queue of source checks this module uses the ledger only, which   *)
(* SourceCheckJobs implements.  All runs are of one company and depth, and *)
(* all reports ask for the same age.  The rows that a creation writes about*)
(* the company itself, before its last transaction, are left out.          *)
(***************************************************************************)
EXTENDS Naturals, FiniteSets

CONSTANTS
    Targets, Jobs, TargetOf,  \* as in the ledger; bound: no row is used twice
    Runs,        \* run ids; bound: no more runs are created
    TargetsFor,  \* the targets routed for a run: runs of one namespace share them
    Writes,      \* pending write ids of start_research_session
    Callers      \* requests the process works on at the same time

ASSUME ResearchAssumption == /\ TargetsFor \in [Runs -> SUBSET Targets]
                             /\ TargetOf \in [Jobs -> Targets]
                             /\ IsFiniteSet(Callers) /\ IsFiniteSet(Runs)

VARIABLES
    status,   \* source_check_jobs: the ledger
    run,      \* research_runs
    write,    \* the pending write store, in memory
    call,     \* what each request is about to do
    checked,  \* history: the targets checked with success since the run was created
    executed  \* history: how often each pending write was executed

vars == <<status, run, write, call, checked, executed>>

Queue == INSTANCE JobLedger

-----------------------------------------------------------------------------
\* Variant for TypeOK: the column does not admit the third outcome of a creation.
StoredStatusesShort == {"absent", "blocked", "queued_source_checks"}
StoredStatuses == {"absent", "blocked", "cannot_conclude", "queued_source_checks"}

\* fresh: created_at is within max_age_minutes; auto: created by a report that
\* found no fresh run; enqueued: created with enqueue_source_checks.
RunRow == [stored : StoredStatuses, fresh : BOOLEAN, auto : BOOLEAN, enqueued : BOOLEAN]

NoRun == [stored |-> "absent", fresh |-> FALSE, auto |-> FALSE, enqueued |-> FALSE]

\* An open record may have expired, which shows when somebody uses it; "gone"
\* covers records deleted after use or expiry, and lost with the process.
WriteStates == {"none", "open", "gone"}

CallState == [pc : {"idle", "creating"}, auto : BOOLEAN, enqueues : BOOLEAN]

IdleCall == [pc |-> "idle", auto |-> FALSE, enqueues |-> FALSE]

Init == /\ Queue!LedgerInit
        /\ run = [r \in Runs |-> NoRun]
        /\ write = [w \in Writes |-> "none"]
        /\ call = [c \in Callers |-> IdleCall]
        /\ checked = [r \in Runs |-> {}]
        /\ executed = [w \in Writes |-> 0]

-----------------------------------------------------------------------------
Exists(r) == run[r].stored # "absent"

\* The jobs listSourceCheckRunStatus reads for a run: every row of its targets,
\* also of earlier runs of the namespace.  Its LIMIT leaves out only rows that
\* do not change the status derived below.
JobsOf(r, s) == {j \in Jobs : TargetOf[j] \in TargetsFor[r] /\ status[j] = s}

\* deriveResearchRunStatus.
Reported(r) ==
    CASE run[r].stored # "queued_source_checks" -> run[r].stored
      [] JobsOf(r, "in_progress") # {} -> "in_progress"
      [] JobsOf(r, "failed") \cup JobsOf(r, "dead") # {} -> "failed"
      [] OTHER -> IF JobsOf(r, "pending") = {} /\ JobsOf(r, "succeeded") # {}
                  THEN "succeeded" ELSE "queued_source_checks"

-----------------------------------------------------------------------------
\* A first tool call keeps the request and hands out a confirmation token.
CreateWrite(w) ==
    /\ write[w] = "none"
    /\ write' = [write EXCEPT ![w] = "open"]
    /\ UNCHANGED <<status, run, call, checked, executed>>

\* Variant for ConfirmedOnce: the record is deleted when the action is done.
ConsumedLater(w) == write

\* The record is deleted before its action is executed.
Consumed(w) == [write EXCEPT ![w] = "gone"]

\* executePendingWriteTool with the right token, for a record that is usable.
Confirm(c, w, enqueues) ==
    /\ call[c].pc = "idle"
    /\ write[w] = "open"
    /\ write' = Consumed(w)
    /\ executed' = [executed EXCEPT ![w] = @ + 1]
    /\ call' = [call EXCEPT ![c] = [pc |-> "creating", auto |-> FALSE,
                                    enqueues |-> enqueues]]
    /\ UNCHANGED <<status, run, checked>>

\* consume finds the record expired; any other refusal changes nothing.
Refuse(w) ==
    /\ write[w] = "open"
    /\ write' = [write EXCEPT ![w] = "gone"]
    /\ UNCHANGED <<status, run, call, checked, executed>>

-----------------------------------------------------------------------------
\* Variant for OverlapBoundsRuns: a run that needs no more checks is not used again.
ReusableActive == {r \in Runs : run[r].fresh /\ Reported(r) \in {"queued_source_checks", "in_progress"}}

\* loadReusableResearchRun: any fresh run of the company, whatever became of it.
Reusable == {r \in Runs : run[r].fresh}

\* ensureCompanyResearchRun: the look for a reusable run and the creation are
\* not one transaction.  refresh_mode force does not look.
Ensure(c, force) ==
    /\ call[c].pc = "idle"
    /\ force \/ Reusable = {}
    /\ call' = [call EXCEPT ![c] = [pc |-> "creating", auto |-> ~force, enqueues |-> TRUE]]
    /\ UNCHANGED <<status, run, write, checked, executed>>

Inserts(c, r, stored) ==
    /\ call[c].pc = "creating"
    /\ ~Exists(r)
    /\ run' = [run EXCEPT ![r] = [stored |-> stored, fresh |-> TRUE, auto |-> call[c].auto,
                                  enqueued |-> call[c].enqueues]]
    /\ call' = [call EXCEPT ![c] = IdleCall]

\* The company could not be resolved to one entity.
Block(c, r) ==
    /\ Inserts(c, r, "blocked")
    /\ UNCHANGED <<status, write, checked, executed>>

\* The targets a run enqueues, and the variant for SucceededIsChecked: only
\* those that were never checked before.
Unqueued(t) == \A j \in Jobs : TargetOf[j] = t => status[j] \notin Queue!Unsettled
Unchecked(t) == \A j \in Jobs : TargetOf[j] = t => status[j] = "absent"
EnqueuedUnchecked(T) == {t \in T : Unchecked(t)}
Enqueued(T) == {t \in T : Unqueued(t)}

\* An unused row for each target of T.
RowsFor(T) ==
    {N \in SUBSET {j \in Jobs : status[j] = "absent" /\ TargetOf[j] \in T} :
        \A t \in T : \E j \in N : N \cap {i \in Jobs : TargetOf[i] = t} = {j}}

\* One transaction syncs the targets and makes them due, enqueues those
\* without an unsettled job, and inserts the run.
Create(c, r) ==
  \E T \in {TargetsFor[r], {}} :  \* {}: no official directory can be routed to
    /\ Inserts(c, r, IF T = {} THEN "cannot_conclude" ELSE "queued_source_checks")
    /\ \/ /\ call[c].enqueues
          /\ \E N \in RowsFor(Enqueued(T)) : Queue!Start(N, {})
       \/ /\ ~call[c].enqueues
          /\ UNCHANGED status
    /\ UNCHANGED <<write, checked, executed>>

\* The lookup of the company, or the transaction, fails.
CreateFails(c) ==
    /\ call[c].pc = "creating"
    /\ call' = [call EXCEPT ![c] = IdleCall]
    /\ UNCHANGED <<status, run, write, checked, executed>>

\* The process ends: its requests and its pending writes are lost.
Crash ==
    /\ call' = [c \in Callers |-> IdleCall]
    /\ write' = [w \in Writes |-> IF write[w] = "none" THEN "none" ELSE "gone"]
    /\ UNCHANGED <<status, run, checked, executed>>

-----------------------------------------------------------------------------
\* A worker enqueues targets and takes rows in progress.  Which targets are
\* due is left open: any may be, those a new run made due among them.
Work(T, C) ==
    /\ \E N \in RowsFor(T) : Queue!Start(N, C)
    /\ UNCHANGED <<run, write, call, checked, executed>>

\* A worker marks a row.
Settle(j, mark) ==
    /\ Queue!Mark(j, mark)
    /\ checked' = [r \in Runs |-> IF mark = "succeeded" /\ Exists(r)
                                  THEN checked[r] \cup ({TargetOf[j]} \cap TargetsFor[r])
                                  ELSE checked[r]]
    /\ UNCHANGED <<run, write, call, executed>>

Ages(r) ==
    /\ run[r].fresh
    /\ run' = [run EXCEPT ![r].fresh = FALSE]
    /\ UNCHANGED <<status, write, call, checked, executed>>

Creates(c) == \E r \in Runs : Create(c, r) \/ Block(c, r)

Queues == \/ \E T \in SUBSET Targets, C \in SUBSET Jobs : Work(T, C)
          \/ \E j \in Jobs, mark \in Queue!Marks : Settle(j, mark)

Asks(c) == \/ \E w \in Writes, e \in BOOLEAN : Confirm(c, w, e)
           \/ \E force \in BOOLEAN : Ensure(c, force)

Next == \/ \E c \in Callers : Asks(c) \/ Creates(c) \/ CreateFails(c)
        \/ \E w \in Writes : CreateWrite(w) \/ Refuse(w)
        \/ \E r \in Runs : Ages(r)
        \/ Queues
        \/ Crash

Spec == Init /\ [][Next]_vars

-----------------------------------------------------------------------------
\* Every variable has the type its columns, or its objects in memory, allow.
TypeOK == /\ status \in [Jobs -> {"absent", "pending", "in_progress"} \cup Queue!Marks]
          /\ run \in [Runs -> RunRow]
          /\ write \in [Writes -> WriteStates]
          /\ call \in [Callers -> CallState]
          /\ checked \in [Runs -> SUBSET Targets]
          /\ executed \in [Writes -> Nat]

\* A run that enqueued its checks and is reported as succeeded has had each of
\* its targets checked after it was created, although its status counts the
\* jobs of other runs of the namespace as well.
SucceededIsChecked ==
    \A r \in Runs : run[r].enqueued /\ Reported(r) = "succeeded" => TargetsFor[r] \subseteq checked[r]

\* A confirmed write is executed at most once, however often the confirmation
\* is repeated, and whether or not the first execution failed.
ConfirmedOnce == \A w \in Writes : executed[w] <= 1

\* Reports that overlap may each find no fresh run and create one, but there
\* are never more fresh ones than requests at a time.
OverlapBoundsRuns == Cardinality({r \in Runs : run[r].fresh /\ run[r].auto}) <= Cardinality(Callers)
=============================================================================
