--------------------------- MODULE SourceCheckJobs ---------------------------
(***************************************************************************)
(* The durable queue of source checks: targets that fall due, the rows of  *)
(* source_check_jobs, and the workers (worker loop, CLI run-due, inline    *)
(* API checks) that enqueue, claim, run and mark them.                     *)
(*                                                                         *)
(* Every database transaction is one atomic step; a worker keeps between   *)
(* its transactions only what the claim returned.  Time is relative: a     *)
(* column holding a timestamp is modelled by the minutes still missing     *)
(* until it is reached (0 = reached), and Tick lets one minute pass.  No   *)
(* counter of the model grows for ever, so nothing has to be capped.       *)
(***************************************************************************)
EXTENDS Naturals, FiniteSets

CONSTANTS
    Targets,      \* source_check_targets.check_target_id
    Workers,      \* processes that call runDueSourceChecks
    Jobs,         \* row identities of source_check_jobs
    TargetOf,     \* the check_target_id of a row identity
    NoJob,        \* "this worker runs no job"
    NoLease,      \* lease_expires_at IS NULL
    Limit,        \* LIMIT of the enqueue and of the claim
    MaxAttempts,  \* max_attempts snapshot of a job
    Lease,        \* lease_minutes of a claim
    Cadence,      \* check_cadence_minutes plus the deterministic jitter
    BackoffBase,  \* backoff_base_minutes
    BackoffMax    \* backoff_max_minutes

ASSUME JobsAssumption == /\ TargetOf \in [Jobs -> Targets]
                         /\ NoJob \notin Jobs
\* However many processes run checks, they are finitely many: the number of
\* stale marks is bounded by the number of workers.
ASSUME WorkersAssumption == IsFiniteSet(Workers)
ASSUME TimingAssumption == /\ MaxAttempts \in Nat \ {0}
                           /\ Lease \in Nat \ {0}
                           /\ Cadence \in Nat \ {0}
                           /\ BackoffBase \in Nat \ {0}
                           /\ BackoffMax \in Nat \ {0}
                           /\ Limit \in Nat \ {0}
                           /\ NoLease \notin Nat

VARIABLES
    enabled,    \* target and policy are both enabled
    nextCheck,  \* minutes until COALESCE(t.next_check_at, p.next_check_at)
    job,        \* the rows of source_check_jobs
    worker      \* what each worker remembers of the batch it claimed

vars == <<enabled, nextCheck, job, worker>>

-----------------------------------------------------------------------------
\* The statuses covered by idx_source_check_jobs_active_target.
ActiveStatuses == {"pending", "in_progress", "failed"}
TerminalStatuses == {"succeeded", "dead"}
Statuses == ActiveStatuses \cup TerminalStatuses \cup {"absent"}

JobRow == [status   : Statuses,
           attempts : Nat,
           wait     : Nat,                \* minutes until next_attempt_at
           lease    : Nat \cup {NoLease}] \* minutes until lease_expires_at

\* pc "idle" with rest # {} is the point between two jobs of the batch.
WorkerState == [pc   : {"idle", "checking", "succeeding", "failing"},
                job  : Jobs \cup {NoJob},
                rest : SUBSET Jobs,  \* claimed jobs not started yet
                age  : 0..Cadence]   \* minutes since input.now was sampled

AbsentRow == [status |-> "absent", attempts |-> 0, wait |-> 0, lease |-> NoLease]
NewRow    == [AbsentRow EXCEPT !.status = "pending"]
IdleWorker == [pc |-> "idle", job |-> NoJob, rest |-> {}, age |-> 0]

Init == /\ enabled \in [Targets -> BOOLEAN]
        /\ nextCheck = [t \in Targets |-> 0]
        /\ job = [j \in Jobs |-> AbsentRow]
        /\ worker = [w \in Workers |-> IdleWorker]

-----------------------------------------------------------------------------
Active(j) == job[j].status \in ActiveStatuses

\* Variant for EveryTargetIsChecked: dead jobs block their target as well.
UnsucceededJobs(t) == {j \in Jobs : TargetOf[j] = t /\ job[j].status \notin {"absent", "succeeded"}}

ActiveJobs(t) == {j \in Jobs : TargetOf[j] = t /\ Active(j)}

\* The jobs a worker will still write to.
HeldIn(state) == (state.rest \cup {state.job}) \ {NoJob}

Held(w) == HeldIn(worker[w])

Holders(j) == {w \in Workers : j \in Held(w)}

\* A terminal row nobody will write to again can never change: its identity
\* stands for the next row of the same target.  Each worker holds at most one
\* row of a target, so |Workers| + 1 identities per target are always enough.
Free(t) == {j \in Jobs : TargetOf[j] = t /\ ~Active(j) /\ Holders(j) = {}}

FreshJob(t) == CHOOSE j \in Free(t) : TRUE

\* The targets claimDueSourceCheckTargets may return.
DueTargets == {t \in Targets : /\ enabled[t]
                               /\ nextCheck[t] = 0
                               /\ ActiveJobs(t) = {}
                               /\ Free(t) # {}}

\* The rows after a pending row was inserted for every target of E.
InsertJobs(E) ==
    [j \in Jobs |-> IF TargetOf[j] \in E /\ j = FreshJob(TargetOf[j])
                    THEN NewRow ELSE job[j]]

\* Variants of Claimable.  For LeaseIsExclusive: a lease is not waited for; for
\* AttemptsOvershoot, AttemptsWithinBudget, DeadStaysDead and ImplementsLedger: dead
\* jobs are retried; for EveryJobFinishes: jobs in progress are never reclaimed.
ClaimableUnderLease(row) == row.status \in ActiveStatuses /\ row.wait = 0
ClaimableDead(row) ==
    \/ row.status \in {"pending", "failed", "dead"} /\ row.wait = 0
    \/ row.status = "in_progress" /\ row.lease = 0
ClaimableOnce(row) == row.status \in {"pending", "failed"} /\ row.wait = 0

\* The due rows of the claim: waiting rows whose time has come, and rows in
\* progress whose lease ran out.
Claimable(row) ==
    \/ row.status \in {"pending", "failed"} /\ row.wait = 0
    \/ row.status = "in_progress" /\ row.lease = 0

ClaimRow(row) == [row EXCEPT !.status = "in_progress", !.lease = Lease]

ClaimableJobs(rows) == {j \in Jobs : Claimable(rows[j]) /\ enabled[TargetOf[j]]}

ClaimJobs(rows, C) == [j \in Jobs |-> IF j \in C THEN ClaimRow(rows[j]) ELSE rows[j]]

\* runDueSourceChecks: one transaction enqueues the due targets E and claims
\* the jobs C; SKIP LOCKED and the LIMIT may leave out any of them.
StartCycle(w, E, C) ==
    /\ worker[w].pc = "idle"
    /\ worker[w].rest = {}
    /\ E \subseteq DueTargets
    /\ Cardinality(E) <= Limit
    /\ C \subseteq ClaimableJobs(InsertJobs(E))
    /\ Cardinality(C) <= Limit
    /\ job' = ClaimJobs(InsertJobs(E), C)
    /\ worker' = [worker EXCEPT ![w].rest = C]
    /\ UNCHANGED <<enabled, nextCheck>>

-----------------------------------------------------------------------------
\* The jobs of a batch run one after the other.
BeginJob(w, j) ==
    /\ worker[w].pc = "idle"
    /\ j \in worker[w].rest
    /\ worker' = [worker EXCEPT ![w].pc = "checking", ![w].job = j,
                                ![w].rest = @ \ {j}]
    /\ UNCHANGED <<enabled, nextCheck, job>>

\* Variant for TypeOK: the age of the batch is added instead of subtracted.
ScheduleNextCheckLate(w) ==
    nextCheck' = [nextCheck EXCEPT ![TargetOf[worker[w].job]] = Cadence + worker[w].age]

\* calculateNextCheckAt: the base time is the moment the batch started.
ScheduleNextCheck(w) ==
    nextCheck' = [nextCheck EXCEPT ![TargetOf[worker[w].job]] = Cadence - worker[w].age]

\* recordDocumentObservation or recordSourceDegraded, once per fetched task.
RecordObservation(w) ==
    /\ worker[w].pc = "checking"
    /\ ScheduleNextCheck(w)
    /\ UNCHANGED <<enabled, job, worker>>

CheckSucceeds(w) ==
    /\ worker[w].pc = "checking"
    /\ worker' = [worker EXCEPT ![w].pc = "succeeding"]
    /\ UNCHANGED <<enabled, nextCheck, job>>

\* The check throws: recordSourceFailure schedules the next check, unless the
\* error arose outside the adapter check or recording it failed as well.
CheckFails(w) ==
    /\ worker[w].pc = "checking"
    /\ worker' = [worker EXCEPT ![w].pc = "failing"]
    /\ ScheduleNextCheck(w) \/ UNCHANGED nextCheck
    /\ UNCHANGED <<enabled, job>>

\* The worker is done with its job and turns to the rest of the batch.
FinishJob(w) ==
    worker' = [worker EXCEPT ![w].pc = "idle", ![w].job = NoJob,
                             ![w].age = IF worker[w].rest = {} THEN 0 ELSE @]

LoseBatch(w) == worker' = [worker EXCEPT ![w] = IdleWorker]

\* markSourceCheckJobSucceeded tests neither the status nor the lease.
SucceededRow(row) == [row EXCEPT !.status = "succeeded", !.lease = NoLease]

\* The mark commits; or it commits and its acknowledgement is lost; or it is
\* rolled back.  The last two are caught and the job is marked failed.
MarkSucceeded(w) ==
    LET j == worker[w].job IN
    /\ worker[w].pc = "succeeding"
    /\ \/ /\ job' = [job EXCEPT ![j] = SucceededRow(@)]
          /\ FinishJob(w) \/ worker' = [worker EXCEPT ![w].pc = "failing"]
       \/ /\ worker' = [worker EXCEPT ![w].pc = "failing"]
          /\ UNCHANGED job
    /\ UNCHANGED <<enabled, nextCheck>>

AtMost(m, n) == IF m <= n THEN m ELSE n

Backoff(n) == AtMost(BackoffBase * n * n, BackoffMax)

\* Variant for StatusAgrees: the job dies one attempt too late.
FailedRowLate(row) ==
    LET n == row.attempts + 1 IN
    IF n > MaxAttempts
    THEN [row EXCEPT !.status = "dead", !.attempts = n, !.lease = NoLease]
    ELSE [row EXCEPT !.status = "failed", !.attempts = n, !.wait = Backoff(n),
                     !.lease = NoLease]

\* markSourceCheckJobFailed: one attempt is spent, the job waits or is dead.
FailedRow(row) ==
    LET n == row.attempts + 1 IN
    IF n >= MaxAttempts
    THEN [row EXCEPT !.status = "dead", !.attempts = n, !.lease = NoLease]
    ELSE [row EXCEPT !.status = "failed", !.attempts = n, !.wait = Backoff(n),
                     !.lease = NoLease]

\* Variant for OneActiveJob: the index forgets that a failed job is active.
IndexWithoutFailed(j, row) ==
    row.status \in ActiveStatuses \ {"failed"} => ActiveJobs(TargetOf[j]) \ {j} = {}

\* What the unique index on active rows allows.
IndexAllows(j, row) == row.status \in ActiveStatuses => ActiveJobs(TargetOf[j]) \ {j} = {}

\* The mark commits, or the index rejects it; when this transaction throws,
\* or its acknowledgement is lost, the error ends the whole batch.
MarkFailed(w) ==
    LET j == worker[w].job IN
    /\ worker[w].pc = "failing"
    /\ \/ /\ IndexAllows(j, FailedRow(job[j]))
          /\ job' = [job EXCEPT ![j] = FailedRow(@)]
          /\ FinishJob(w) \/ LoseBatch(w)
       \/ /\ ~IndexAllows(j, FailedRow(job[j]))
          /\ LoseBatch(w)
          /\ UNCHANGED job
    /\ UNCHANGED <<enabled, nextCheck>>

\* The process is killed, or loses the database, and forgets its batch.
Crash(w) ==
    /\ Held(w) # {}
    /\ LoseBatch(w)
    /\ UNCHANGED <<enabled, nextCheck, job>>

-----------------------------------------------------------------------------
\* syncSourcePolicyConfig, enableSourceCheckTargets: an operator switches a
\* target or its policy, and may set another time for the next check.
ConfigureTarget(t, on, next) ==
    /\ enabled' = [enabled EXCEPT ![t] = on]
    /\ nextCheck' = [nextCheck EXCEPT ![t] = next]
    /\ UNCHANGED <<job, worker>>

\* runManualSourceCheck of a registered target: no job, but its observations
\* move the next check; base is the minutes since the check began.
ManualCheck(t, base) ==
    /\ nextCheck' = [nextCheck EXCEPT ![t] = Cadence - base]
    /\ UNCHANGED <<enabled, job, worker>>

\* createResearchRun makes its targets due and enqueues them at once.
ResearchRun(T) ==
    LET E == {t \in T : ActiveJobs(t) = {} /\ Free(t) # {}} IN
    /\ enabled' = [t \in Targets |-> enabled[t] \/ t \in T]
    /\ nextCheck' = [t \in Targets |-> IF t \in T THEN 0 ELSE nextCheck[t]]
    /\ job' = InsertJobs(E)
    /\ UNCHANGED worker

Earlier(n) == IF n = 0 THEN 0 ELSE n - 1

Tick ==
    /\ nextCheck' = [t \in Targets |-> Earlier(nextCheck[t])]
    /\ job' = [j \in Jobs |->
                 [job[j] EXCEPT !.wait = Earlier(@),
                                !.lease = IF @ = NoLease THEN NoLease ELSE Earlier(@)]]
    /\ worker' = [w \in Workers |->
                    [worker[w] EXCEPT !.age = IF Held(w) = {} THEN 0 ELSE AtMost(@ + 1, Cadence)]]
    /\ UNCHANGED enabled

-----------------------------------------------------------------------------
WorkerStep(w) ==
    \/ \E E \in SUBSET Targets, C \in SUBSET Jobs : StartCycle(w, E, C)
    \/ \E j \in Jobs : BeginJob(w, j)
    \/ RecordObservation(w)
    \/ CheckSucceeds(w)
    \/ CheckFails(w)
    \/ MarkSucceeded(w)
    \/ MarkFailed(w)
    \/ Crash(w)

Outside ==
    \/ \E t \in Targets, on \in BOOLEAN, next \in 0..Cadence : ConfigureTarget(t, on, next)
    \/ \E t \in Targets, base \in 0..Cadence : ManualCheck(t, base)
    \/ \E T \in SUBSET Targets : ResearchRun(T)

Next == (\E w \in Workers : WorkerStep(w)) \/ Outside \/ Tick

Spec == Init /\ [][Next]_vars

-----------------------------------------------------------------------------
\* Every variable has the type its columns and fields allow.
TypeOK == /\ enabled \in [Targets -> BOOLEAN]
          /\ nextCheck \in [Targets -> 0..Cadence]
          /\ job \in [Jobs -> JobRow]
          /\ worker \in [Workers -> WorkerState]

\* A target never has two active jobs, whatever the workers, stale ones
\* included, write: what the partial unique index and the ON CONFLICT of
\* enqueueDueSourceCheckJobs are for.
OneActiveJob ==
    \A i, j \in Jobs : Active(i) /\ Active(j) /\ TargetOf[i] = TargetOf[j] => i = j

\* The status of a row agrees with its counter and its lease: an active job
\* has attempts left, a dead one has none, and exactly the jobs in progress
\* have a lease - without one a job would stay in progress for ever and keep
\* its target from being enqueued again.
StatusAgrees ==
    \A j \in Jobs : /\ Active(j) => job[j].attempts < MaxAttempts
                    /\ job[j].status = "pending" => job[j].attempts = 0
                    /\ job[j].status = "dead" => job[j].attempts >= MaxAttempts
                    /\ job[j].status = "in_progress" <=> job[j].lease # NoLease

\* Marks of workers that outlived their lease push attempts beyond
\* max_attempts, but never further than one for each other worker.
AttemptsOvershoot ==
    \A j \in Jobs :
        job[j].attempts + Cardinality(Holders(j)) < MaxAttempts + Cardinality(Workers)

\* Without such workers (TimelySpec) a job is never tried more often than
\* max_attempts allows.
AttemptsWithinBudget == \A j \in Jobs : job[j].attempts <= MaxAttempts

\* A job whose lease is still running has at most one worker that will mark
\* it: the lease of claimDueSourceCheckJobs is exclusive.
LeaseIsExclusive ==
    \A j \in Jobs : job[j].status = "in_progress" /\ job[j].lease # 0
                        => \A v, w \in Holders(j) : v = w

\* A dead job stays dead: its row changes only when its identity, which no
\* worker holds any more, is given to a new job.
DeadStaysDead ==
    [][\A j \in Jobs : job[j].status = "dead" =>
          \/ job'[j].status = "dead"
          \/ Holders(j) = {} /\ job'[j].attempts = 0]_vars

\* What the queue promises to whoever reads the statuses of its jobs: they
\* move as in the ledger, however many workers hold a row and however late they
\* mark it.
Ledger == INSTANCE JobLedger WITH status <- [j \in Jobs |-> job[j].status]

ImplementsLedger == Ledger!LedgerSpec

-----------------------------------------------------------------------------
\* The assumption the lease is chosen for: no worker is still busy with a
\* batch when the lease of one of its jobs runs out.
NoLeaseRunsOut ==
    \A w \in Workers : \A j \in Held(w) : job[j].lease \in Nat => job[j].lease > 1

TimelySpec == Init /\ [][Next /\ (Tick => NoLeaseRunsOut)]_vars

=============================================================================
