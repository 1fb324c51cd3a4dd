----------------------- MODULE SourceCheckJobs_proofs -----------------------
(***************************************************************************)
(* Theorems about SourceCheckJobs, for any number of targets and workers   *)
(* and any lease, cadence, backoff and number of attempts.                 *)
(***************************************************************************)
EXTENDS SourceCheckJobs, FiniteSetTheorems, TLAPS

\* What StatusAgrees says of one row.
RowAgrees(row) ==
    /\ row.status \in ActiveStatuses => row.attempts < MaxAttempts
    /\ row.status = "pending" => row.attempts = 0
    /\ row.status = "dead" => row.attempts >= MaxAttempts
    /\ row.status = "in_progress" <=> row.lease # NoLease

\* The table is well typed, its rows agree with themselves, and the unique
\* index holds.
GoodTable(rows) ==
    /\ rows \in [Jobs -> JobRow]
    /\ \A j \in Jobs : RowAgrees(rows[j])
    /\ \A i, j \in Jobs : /\ rows[i].status \in ActiveStatuses
                          /\ rows[j].status \in ActiveStatuses
                          /\ TargetOf[i] = TargetOf[j]
                          => i = j

\* A worker names a job exactly while it runs one.
WorkerRuns == \A w \in Workers : worker[w].pc = "idle" <=> worker[w].job = NoJob

IInv == /\ TypeOK
        /\ WorkerRuns
        /\ GoodTable(job)

-----------------------------------------------------------------------------
\* The row operators keep a row well formed.
LEMMA RowOperators ==
    ASSUME NEW row \in JobRow, RowAgrees(row)
    PROVE  /\ NewRow \in JobRow /\ RowAgrees(NewRow)
           /\ Claimable(row) => /\ row.status \in ActiveStatuses
                                /\ ClaimRow(row) \in JobRow /\ RowAgrees(ClaimRow(row))
           /\ SucceededRow(row) \in JobRow /\ RowAgrees(SucceededRow(row))
           /\ FailedRow(row) \in JobRow /\ RowAgrees(FailedRow(row))
<1>1. NewRow \in JobRow /\ RowAgrees(NewRow)
  BY TimingAssumption DEF NewRow, AbsentRow, JobRow, RowAgrees, Statuses, ActiveStatuses, TerminalStatuses
<1>2. Claimable(row) => /\ row.status \in ActiveStatuses
                        /\ ClaimRow(row) \in JobRow /\ RowAgrees(ClaimRow(row))
  BY TimingAssumption DEF Claimable, ClaimRow, JobRow, RowAgrees, Statuses, ActiveStatuses, TerminalStatuses
<1>3. SucceededRow(row) \in JobRow /\ RowAgrees(SucceededRow(row))
  BY DEF SucceededRow, JobRow, RowAgrees, Statuses, ActiveStatuses, TerminalStatuses
<1>4. \A n \in Nat : Backoff(n) \in Nat
  BY TimingAssumption DEF Backoff, AtMost
<1>5. FailedRow(row) \in JobRow /\ RowAgrees(FailedRow(row))
  <2>1. row.attempts + 1 \in Nat /\ Backoff(row.attempts + 1) \in Nat
    BY <1>4 DEF JobRow
  <2> DEFINE n == row.attempts + 1
  <2>2. CASE n >= MaxAttempts
    <3>1. FailedRow(row) = [row EXCEPT !.status = "dead", !.attempts = n, !.lease = NoLease]
      BY <2>2 DEF FailedRow
    <3>2. QED
      BY <2>1, <2>2, <3>1, TimingAssumption
         DEF JobRow, RowAgrees, Statuses, ActiveStatuses, TerminalStatuses
  <2>3. CASE ~(n >= MaxAttempts)
    <3>1. FailedRow(row) = [status |-> "failed", attempts |-> n, wait |-> Backoff(n), lease |-> NoLease]
      BY <2>3 DEF FailedRow, JobRow
    <3>2. FailedRow(row) \in JobRow
      BY <2>1, <3>1 DEF JobRow, Statuses, ActiveStatuses
    <3>3. n < MaxAttempts
      BY <2>1, <2>3, TimingAssumption
    <3>4. RowAgrees(FailedRow(row))
      BY <3>1, <3>3 DEF RowAgrees, ActiveStatuses
    <3>5. QED
      BY <3>2, <3>4
  <2>4. QED
    BY <2>2, <2>3
<1>6. QED
  BY <1>1, <1>2, <1>3, <1>5

\* Inserting a pending row for targets without an active job keeps the table.
LEMMA InsertKeepsTable ==
    ASSUME GoodTable(job), NEW E \in SUBSET Targets,
           \A t \in E : ActiveJobs(t) = {}
    PROVE  GoodTable(InsertJobs(E))
<1> DEFINE new == InsertJobs(E)
           Fresh(j) == TargetOf[j] \in E /\ j = FreshJob(TargetOf[j])
<1>1. \A j \in Jobs : new[j] = IF Fresh(j) THEN NewRow ELSE job[j]
  BY DEF InsertJobs
<1>2. \A j \in Jobs : job[j] \in JobRow /\ RowAgrees(job[j])
  BY DEF GoodTable
<1>3. \A j \in Jobs : new[j] \in JobRow /\ RowAgrees(new[j])
  BY <1>1, <1>2, RowOperators
<1>4. new \in [Jobs -> JobRow]
  BY <1>3 DEF InsertJobs
<1>5. ASSUME NEW i \in Jobs, NEW j \in Jobs, TargetOf[i] = TargetOf[j],
             new[i].status \in ActiveStatuses, new[j].status \in ActiveStatuses
      PROVE  i = j
  <2>1. CASE TargetOf[i] \in E
    <3>1. \A k \in Jobs : TargetOf[k] = TargetOf[i] => job[k].status \notin ActiveStatuses
      BY <2>1 DEF ActiveJobs, Active
    <3>2. Fresh(i) /\ Fresh(j)
      BY <1>1, <1>5, <2>1, <3>1
    <3>3. QED
      BY <1>5, <3>2
  <2>2. CASE TargetOf[i] \notin E
    BY <1>1, <1>5, <2>2 DEF GoodTable
  <2>3. QED
    BY <2>1, <2>2
<1>6. QED
  BY <1>3, <1>4, <1>5 DEF GoodTable

\* Claiming claimable rows keeps the table: the claim makes no row active
\* that was not.
LEMMA ClaimKeepsTable ==
    ASSUME NEW rows, GoodTable(rows), NEW C \in SUBSET ClaimableJobs(rows)
    PROVE  GoodTable(ClaimJobs(rows, C))
<1> DEFINE new == ClaimJobs(rows, C)
<1>1. \A j \in Jobs : new[j] = IF j \in C THEN ClaimRow(rows[j]) ELSE rows[j]
  BY DEF ClaimJobs
<1>2. \A j \in Jobs : rows[j] \in JobRow /\ RowAgrees(rows[j])
  BY DEF GoodTable
<1>3. \A j \in C : j \in Jobs /\ Claimable(rows[j])
  BY DEF ClaimableJobs
<1>4. \A j \in Jobs : new[j] \in JobRow /\ RowAgrees(new[j])
  BY <1>1, <1>2, <1>3, RowOperators
<1>5. new \in [Jobs -> JobRow]
  BY <1>4 DEF ClaimJobs
<1>6. \A j \in Jobs : new[j].status \in ActiveStatuses => rows[j].status \in ActiveStatuses
  BY <1>1, <1>2, <1>3, RowOperators
<1>7. QED
  BY <1>4, <1>5, <1>6 DEF GoodTable

\* Overwriting one row by a row that agrees with itself keeps the table if the
\* unique index allows it.
LEMMA MarkKeepsTable ==
    ASSUME GoodTable(job), NEW j \in Jobs, NEW row \in JobRow, RowAgrees(row),
           IndexAllows(j, row)
    PROVE  GoodTable([job EXCEPT ![j] = row])
<1> DEFINE new == [job EXCEPT ![j] = row]
<1>1. new \in [Jobs -> JobRow] /\ \A i \in Jobs : new[i] = IF i = j THEN row ELSE job[i]
  BY DEF GoodTable
<1>2. ASSUME NEW h \in Jobs, NEW i \in Jobs, TargetOf[h] = TargetOf[i],
             new[h].status \in ActiveStatuses, new[i].status \in ActiveStatuses
      PROVE  h = i
  BY <1>1, <1>2 DEF GoodTable, IndexAllows, ActiveJobs, Active
<1>3. QED
  BY <1>1, <1>2 DEF GoodTable

\* The passing of time leaves every status and attempt alone.
LEMMA TickKeepsTable ==
    ASSUME GoodTable(job), Tick
    PROVE  GoodTable(job')
<1>1. \A n \in Nat : Earlier(n) \in Nat
  BY DEF Earlier
<1>2. ASSUME NEW j \in Jobs
      PROVE  /\ job'[j] \in JobRow /\ RowAgrees(job'[j])
             /\ job'[j].status = job[j].status
  <2> DEFINE l == IF job[j].lease = NoLease THEN NoLease ELSE Earlier(job[j].lease)
  <2>1. job[j] \in JobRow /\ RowAgrees(job[j])
    BY DEF GoodTable
  <2>2. job'[j] = [job[j] EXCEPT !.wait = Earlier(job[j].wait), !.lease = l]
    BY DEF Tick
  <2>3. l \in Nat \cup {NoLease} /\ (l = NoLease <=> job[j].lease = NoLease)
    BY <1>1, <2>1, TimingAssumption DEF JobRow
  <2>4. Earlier(job[j].wait) \in Nat
    BY <1>1, <2>1 DEF JobRow
  <2> HIDE DEF l
  <2>5. QED
    BY <2>1, <2>2, <2>3, <2>4 DEF JobRow, RowAgrees
<1>3. job' \in [Jobs -> JobRow]
  BY <1>2 DEF Tick
<1>4. QED
  BY <1>2, <1>3 DEF GoodTable

\* The worker updates of a step keep the worker states well formed.
LEMMA WorkerUpdates ==
    ASSUME TypeOK, WorkerRuns, NEW w \in Workers
    PROVE  /\ IdleWorker \in WorkerState
           /\ FinishJob(w) \/ LoseBatch(w) =>
                 worker' \in [Workers -> WorkerState] /\ WorkerRuns'
           /\ \A p \in {"succeeding", "failing"} :
                 worker[w].pc # "idle" /\ worker' = [worker EXCEPT ![w].pc = p] =>
                 worker' \in [Workers -> WorkerState] /\ WorkerRuns'
<1>1. IdleWorker \in WorkerState
  BY TimingAssumption DEF IdleWorker, WorkerState
<1>2. FinishJob(w) => worker' \in [Workers -> WorkerState] /\ WorkerRuns'
  <2> SUFFICES ASSUME FinishJob(w) PROVE worker' \in [Workers -> WorkerState] /\ WorkerRuns'
    OBVIOUS
  <2> DEFINE a == IF worker[w].rest = {} THEN 0 ELSE worker[w].age
             done == [worker[w] EXCEPT !.pc = "idle", !.job = NoJob, !.age = a]
  <2>1. worker[w] \in WorkerState
    BY DEF TypeOK
  <2>2. a \in 0..Cadence
    BY <2>1, TimingAssumption DEF WorkerState
  <2>3. done \in WorkerState /\ done.pc = "idle" /\ done.job = NoJob
    BY <2>1, <2>2 DEF WorkerState
  <2>4. worker' = [worker EXCEPT ![w] = done]
    BY DEF FinishJob, TypeOK
  <2> HIDE DEF done
  <2>5. worker' \in [Workers -> WorkerState]
    BY <2>3, <2>4 DEF TypeOK
  <2>6. \A v \in Workers : worker'[v] = IF v = w THEN done ELSE worker[v]
    BY <2>4 DEF TypeOK
  <2>7. WorkerRuns'
    BY <2>3, <2>6 DEF WorkerRuns
  <2>8. QED
    BY <2>5, <2>7
<1>3. LoseBatch(w) => worker' \in [Workers -> WorkerState] /\ WorkerRuns'
  BY <1>1 DEF TypeOK, WorkerRuns, LoseBatch, IdleWorker
<1>4. ASSUME NEW p \in {"succeeding", "failing"}, worker[w].pc # "idle",
             worker' = [worker EXCEPT ![w].pc = p]
      PROVE  worker' \in [Workers -> WorkerState] /\ WorkerRuns'
  BY <1>4 DEF TypeOK, WorkerRuns, WorkerState
<1>5. QED
  BY <1>1, <1>2, <1>3, <1>4

\* calculateNextCheckAt stays within one cadence.
LEMMA NextCheckInRange ==
    ASSUME TypeOK, NEW w \in Workers, ScheduleNextCheck(w)
    PROVE  nextCheck' \in [Targets -> 0..Cadence]
<1>1. worker[w].age \in 0..Cadence
  BY DEF TypeOK, WorkerState
<1>2. Cadence - worker[w].age \in 0..Cadence
  BY <1>1, TimingAssumption
<1>3. QED
  BY <1>2 DEF TypeOK, ScheduleNextCheck

LEMMA StartCycleStep ==
    ASSUME IInv, NEW w \in Workers, NEW E \in SUBSET Targets, NEW C \in SUBSET Jobs,
           StartCycle(w, E, C)
    PROVE  IInv'
<1>1. GoodTable(InsertJobs(E))
  BY InsertKeepsTable DEF IInv, StartCycle, DueTargets
<1>2. GoodTable(job')
  BY <1>1, ClaimKeepsTable DEF StartCycle
<1>3. worker' \in [Workers -> WorkerState] /\ WorkerRuns'
  BY DEF IInv, TypeOK, WorkerRuns, WorkerState, StartCycle
<1>4. QED
  BY <1>2, <1>3 DEF IInv, TypeOK, GoodTable, StartCycle, RowAgrees

LEMMA BatchSteps ==
    ASSUME IInv, NEW w \in Workers,
           \/ \E j \in Jobs : BeginJob(w, j)
           \/ RecordObservation(w) \/ CheckSucceeds(w) \/ CheckFails(w) \/ Crash(w)
    PROVE  IInv'
<1>1. ASSUME NEW j \in Jobs, BeginJob(w, j) PROVE IInv'
  <2> DEFINE began == [worker[w] EXCEPT !.pc = "checking", !.job = j, !.rest = @ \ {j}]
  <2>1. worker' \in [Workers -> WorkerState] /\ WorkerRuns'
    <3>1. worker[w] \in WorkerState
      BY DEF IInv, TypeOK
    <3>2. began \in WorkerState /\ began.pc = "checking" /\ began.job = j
      BY <3>1 DEF WorkerState
    <3>3. worker' = [worker EXCEPT ![w] = began]
      BY <1>1 DEF BeginJob, IInv, TypeOK
    <3> HIDE DEF began
    <3>4. \A v \in Workers : worker'[v] = IF v = w THEN began ELSE worker[v]
      BY <3>3 DEF IInv, TypeOK
    <3>5. worker' \in [Workers -> WorkerState]
      BY <3>2, <3>3 DEF IInv, TypeOK
    <3>6. WorkerRuns'
      BY <3>2, <3>4, JobsAssumption DEF IInv, WorkerRuns
    <3>7. QED
      BY <3>5, <3>6
  <2>2. QED
    BY <1>1, <2>1 DEF IInv, TypeOK, BeginJob, GoodTable, RowAgrees
<1>2. CASE RecordObservation(w)
  BY <1>2, NextCheckInRange DEF IInv, TypeOK, WorkerRuns, RecordObservation, GoodTable, RowAgrees
<1>3. CASE CheckSucceeds(w)
  <2>1. worker' \in [Workers -> WorkerState] /\ WorkerRuns'
    BY <1>3, WorkerUpdates DEF IInv, CheckSucceeds
  <2>2. QED
    BY <1>3, <2>1 DEF IInv, TypeOK, CheckSucceeds, GoodTable, RowAgrees
<1>4. CASE CheckFails(w)
  <2>1. worker' \in [Workers -> WorkerState] /\ WorkerRuns'
    BY <1>4, WorkerUpdates DEF IInv, CheckFails
  <2>2. nextCheck' \in [Targets -> 0..Cadence]
    BY <1>4, NextCheckInRange DEF IInv, TypeOK, CheckFails
  <2>3. QED
    BY <1>4, <2>1, <2>2 DEF IInv, TypeOK, CheckFails, GoodTable, RowAgrees
<1>5. CASE Crash(w)
  <2>1. worker' \in [Workers -> WorkerState] /\ WorkerRuns'
    BY <1>5, WorkerUpdates DEF IInv, Crash
  <2>2. QED
    BY <1>5, <2>1 DEF IInv, TypeOK, Crash, GoodTable, RowAgrees
<1>6. QED
  BY <1>1, <1>2, <1>3, <1>4, <1>5

LEMMA MarkSteps ==
    ASSUME IInv, NEW w \in Workers, MarkSucceeded(w) \/ MarkFailed(w)
    PROVE  IInv'
<1> DEFINE j == worker[w].job
<1>1. j \in Jobs /\ worker[w].pc # "idle"
  BY DEF IInv, TypeOK, WorkerRuns, WorkerState, MarkSucceeded, MarkFailed
<1>2. job[j] \in JobRow /\ RowAgrees(job[j])
  BY <1>1 DEF IInv, GoodTable
<1>3. worker' \in [Workers -> WorkerState] /\ WorkerRuns'
  BY <1>1, WorkerUpdates DEF IInv, MarkSucceeded, MarkFailed
<1>4. GoodTable(job')
  <2>1. CASE UNCHANGED job
    BY <2>1 DEF IInv, GoodTable, RowAgrees
  <2>2. CASE MarkSucceeded(w) /\ job' = [job EXCEPT ![j] = SucceededRow(job[j])]
    <3>1. SucceededRow(job[j]) \in JobRow /\ RowAgrees(SucceededRow(job[j]))
      BY <1>2, RowOperators
    <3>2. IndexAllows(j, SucceededRow(job[j]))
      BY <1>2 DEF IndexAllows, SucceededRow, JobRow, ActiveStatuses
    <3>3. QED
      BY <1>1, <2>2, <3>1, <3>2, MarkKeepsTable DEF IInv
  <2>3. CASE IndexAllows(j, FailedRow(job[j])) /\ job' = [job EXCEPT ![j] = FailedRow(job[j])]
    <3>1. FailedRow(job[j]) \in JobRow /\ RowAgrees(FailedRow(job[j]))
      BY <1>2, RowOperators
    <3>2. QED
      BY <1>1, <2>3, <3>1, MarkKeepsTable DEF IInv
  <2>4. QED
    BY <2>1, <2>2, <2>3 DEF MarkSucceeded, MarkFailed
<1>5. QED
  BY <1>3, <1>4 DEF IInv, TypeOK, GoodTable, MarkSucceeded, MarkFailed

LEMMA OutsideSteps ==
    ASSUME IInv, Outside
    PROVE  IInv'
<1>1. ASSUME NEW t \in Targets, NEW on \in BOOLEAN, NEW next \in 0..Cadence,
             ConfigureTarget(t, on, next)
      PROVE  IInv'
  BY <1>1 DEF IInv, TypeOK, WorkerRuns, GoodTable, RowAgrees, ConfigureTarget
<1>2. ASSUME NEW t \in Targets, NEW base \in 0..Cadence, ManualCheck(t, base)
      PROVE  IInv'
  <2>1. Cadence - base \in 0..Cadence
    BY TimingAssumption
  <2>2. QED
    BY <1>2, <2>1 DEF IInv, TypeOK, WorkerRuns, GoodTable, RowAgrees, ManualCheck
<1>3. ASSUME NEW T \in SUBSET Targets, ResearchRun(T)
      PROVE  IInv'
  <2> DEFINE E == {t \in T : ActiveJobs(t) = {} /\ Free(t) # {}}
  <2>1. GoodTable(InsertJobs(E))
    BY InsertKeepsTable DEF IInv
  <2>2. GoodTable(job')
    BY <1>3, <2>1 DEF ResearchRun
  <2>3. enabled' \in [Targets -> BOOLEAN] /\ nextCheck' \in [Targets -> 0..Cadence]
    BY <1>3, TimingAssumption DEF IInv, TypeOK, ResearchRun
  <2>4. QED
    BY <1>3, <2>2, <2>3 DEF IInv, TypeOK, WorkerRuns, GoodTable, RowAgrees, ResearchRun
<1>4. QED
  BY <1>1, <1>2, <1>3 DEF Outside

LEMMA TickStep ==
    ASSUME IInv, Tick
    PROVE  IInv'
<1>1. GoodTable(job')
  BY TickKeepsTable DEF IInv
<1>2. nextCheck' \in [Targets -> 0..Cadence]
  <2>1. \A n \in 0..Cadence : Earlier(n) \in 0..Cadence
    BY TimingAssumption DEF Earlier
  <2>2. \A t \in Targets : nextCheck[t] \in 0..Cadence
    BY DEF IInv, TypeOK
  <2>3. QED
    BY <2>1, <2>2 DEF Tick
<1>3. ASSUME NEW w \in Workers
      PROVE  worker'[w] \in WorkerState /\ worker'[w].pc = worker[w].pc /\ worker'[w].job = worker[w].job
  <2> DEFINE a == IF Held(w) = {} THEN 0 ELSE AtMost(worker[w].age + 1, Cadence)
  <2>1. worker[w] \in WorkerState
    BY DEF IInv, TypeOK
  <2>2. a \in 0..Cadence
    BY <2>1, TimingAssumption DEF WorkerState, AtMost
  <2>3. worker'[w] = [worker[w] EXCEPT !.age = a]
    BY DEF Tick
  <2> HIDE DEF a
  <2>4. QED
    BY <2>1, <2>2, <2>3 DEF WorkerState
<1>4. worker' \in [Workers -> WorkerState] /\ WorkerRuns'
  BY <1>3 DEF Tick, IInv, WorkerRuns
<1>5. QED
  BY <1>1, <1>2, <1>4 DEF IInv, TypeOK, GoodTable, Tick

-----------------------------------------------------------------------------
LEMMA InitGood == Init => IInv
<1> SUFFICES ASSUME Init PROVE IInv
  OBVIOUS
<1>1. AbsentRow \in JobRow /\ RowAgrees(AbsentRow) /\ AbsentRow.status \notin ActiveStatuses
  BY DEF AbsentRow, JobRow, RowAgrees, Statuses, ActiveStatuses
<1>2. GoodTable(job)
  BY <1>1 DEF Init, GoodTable
<1>3. IdleWorker \in WorkerState /\ IdleWorker.pc = "idle" /\ IdleWorker.job = NoJob
  BY TimingAssumption DEF IdleWorker, WorkerState
<1>4. worker \in [Workers -> WorkerState] /\ WorkerRuns
  BY <1>3 DEF Init, WorkerRuns
<1>5. QED
  BY <1>2, <1>4, TimingAssumption DEF Init, IInv, TypeOK, GoodTable

LEMMA StepGood == IInv /\ [Next]_vars => IInv'
<1> SUFFICES ASSUME IInv, [Next]_vars PROVE IInv'
  OBVIOUS
<1>1. ASSUME NEW w \in Workers, WorkerStep(w) PROVE IInv'
  BY <1>1, StartCycleStep, BatchSteps, MarkSteps DEF WorkerStep
<1>2. CASE Outside
  BY <1>2, OutsideSteps
<1>3. CASE Tick
  BY <1>3, TickStep
<1>4. CASE UNCHANGED vars
  BY <1>4 DEF vars, IInv, TypeOK, WorkerRuns, GoodTable, RowAgrees
<1>5. QED
  BY <1>1, <1>2, <1>3, <1>4 DEF Next

\* The inductive invariant holds in every reachable state.
THEOREM Invariance == Spec => []IInv
BY InitGood, StepGood, PTL DEF Spec

\* Every variable keeps its type, for any number of workers and targets.
THEOREM TypeCorrect == Spec => []TypeOK
<1>1. IInv => TypeOK
  BY DEF IInv
<1>2. QED
  BY <1>1, Invariance, PTL

\* No sequence of enqueues, claims, retries, crashes and stale marks gives a
\* target two active jobs.
THEOREM OneActiveJobHolds == Spec => []OneActiveJob
<1>1. IInv => OneActiveJob
  BY DEF IInv, GoodTable, OneActiveJob, Active
<1>2. QED
  BY <1>1, Invariance, PTL

\* An active job always has attempts left, a dead one none, and a lease marks
\* exactly the jobs in progress.
THEOREM StatusAgreesHolds == Spec => []StatusAgrees
<1>1. IInv => StatusAgrees
  BY DEF IInv, GoodTable, StatusAgrees, RowAgrees, Active
<1>2. QED
  BY <1>1, Invariance, PTL

-----------------------------------------------------------------------------
\* The refinement of the ledger.  Besides the table it needs that a worker
\* will only ever mark rows that were taken in progress: a row it holds is
\* never given to a new job.
HeldTaken == \A v \in Workers : \A j \in Held(v) : job[j].status \notin {"absent", "pending"}

LInv == IInv /\ HeldTaken

LEMMA HeldRowsStay ==
    ASSUME NEW E \in SUBSET Targets, \A t \in E : Free(t) # {},
           NEW v \in Workers, NEW j \in Jobs, j \in Held(v)
    PROVE  InsertJobs(E)[j] = job[j]
<1>1. \A t \in E : FreshJob(t) \in Free(t)
  BY DEF FreshJob
<1>2. \A t \in E : FreshJob(t) # j
  BY <1>1 DEF Free, Holders
<1>3. QED
  BY <1>2 DEF InsertJobs

LEMMA HeldAreJobs ==
    ASSUME TypeOK, NEW v \in Workers
    PROVE  Held(v) \in SUBSET Jobs
BY DEF TypeOK, WorkerState, Held, HeldIn

\* A worker that goes on with its batch, or gives it up, holds no other rows.
LEMMA HeldShrinks ==
    ASSUME IInv, NEW w \in Workers,
           \/ \E j \in Jobs : BeginJob(w, j)
           \/ FinishJob(w) \/ LoseBatch(w)
           \/ \E p \in {"succeeding", "failing"} : worker' = [worker EXCEPT ![w].pc = p]
    PROVE  \A v \in Workers : Held(v)' \subseteq Held(v)
<1>1. worker[w] \in WorkerState
  BY DEF IInv, TypeOK
<1>2. \A v \in Workers : v # w => worker'[v] = worker[v]
  BY DEF IInv, TypeOK, BeginJob, FinishJob, LoseBatch
<1>3. HeldIn(worker'[w]) \subseteq HeldIn(worker[w])
  <2>1. ASSUME NEW j \in Jobs, BeginJob(w, j)
        PROVE  HeldIn(worker'[w]) \subseteq HeldIn(worker[w])
    <3>1. worker'[w].job = j /\ worker'[w].rest = worker[w].rest \ {j} /\ j \in worker[w].rest
      BY <1>1, <2>1 DEF IInv, TypeOK, WorkerState, BeginJob
    <3>2. QED
      BY <3>1 DEF HeldIn
  <2>2. CASE FinishJob(w)
    BY <1>1, <2>2 DEF IInv, TypeOK, WorkerState, FinishJob, HeldIn
  <2>3. CASE LoseBatch(w)
    BY <2>3 DEF IInv, TypeOK, LoseBatch, IdleWorker, HeldIn
  <2>4. ASSUME NEW p \in {"succeeding", "failing"}, worker' = [worker EXCEPT ![w].pc = p]
        PROVE  HeldIn(worker'[w]) \subseteq HeldIn(worker[w])
    BY <1>1, <2>4 DEF IInv, TypeOK, WorkerState, HeldIn
  <2>5. QED
    BY <2>1, <2>2, <2>3, <2>4
<1>4. QED
  BY <1>2, <1>3 DEF Held

\* One transaction that inserts rows and claims some is one step of the ledger.
LEMMA EnqueueStarts ==
    ASSUME GoodTable(job), NEW E \in SUBSET Targets,
           \A t \in E : ActiveJobs(t) = {} /\ Free(t) # {},
           NEW C \in SUBSET ClaimableJobs(InsertJobs(E)),
           job' = ClaimJobs(InsertJobs(E), C)
    PROVE  \E N, D \in SUBSET Jobs : Ledger!Start(N, D)
<1>0. PICK N \in SUBSET Jobs : N = {j \in Jobs : TargetOf[j] \in E /\ j = FreshJob(TargetOf[j])}
  OBVIOUS
<1>1. \A j \in Jobs : InsertJobs(E)[j] = IF j \in N THEN NewRow ELSE job[j]
  BY <1>0 DEF InsertJobs
<1>2. \A j \in N : /\ job[j].status \notin ActiveStatuses
                   /\ \A i \in Jobs : TargetOf[i] = TargetOf[j] => job[i].status \notin ActiveStatuses
                   /\ \A h \in N : TargetOf[h] = TargetOf[j] => h = j
  BY <1>0 DEF ActiveJobs, Active
<1>3. C \in SUBSET Jobs /\ \A j \in C : Claimable(InsertJobs(E)[j])
  BY DEF ClaimableJobs
<1>4. \A j \in Jobs : job[j] \in JobRow /\ RowAgrees(job[j])
  BY DEF GoodTable
<1>5. \A j \in C : j \in N \/ job[j].status \in ActiveStatuses
  BY <1>1, <1>3, <1>4, RowOperators
<1>6. NewRow.status = "pending" /\ \A row \in JobRow : ClaimRow(row).status = "in_progress"
  BY DEF NewRow, AbsentRow, ClaimRow, JobRow
<1>7. \A j \in Jobs : InsertJobs(E)[j] \in JobRow
  BY InsertKeepsTable DEF GoodTable
<1>8. \A j \in Jobs : job'[j].status = IF j \in C THEN "in_progress"
                                       ELSE IF j \in N THEN "pending" ELSE job[j].status
  BY <1>1, <1>6, <1>7 DEF ClaimJobs
<1>D. PICK D \in SUBSET Jobs : D = {j \in C : j \in N \/ job[j].status \in {"pending", "failed"}}
  BY <1>3
<1>9. \A j \in C : j \in D \/ job[j].status = "in_progress"
  BY <1>5, <1>D DEF ActiveStatuses
<1>10. \A j \in Jobs : job'[j].status = IF j \in D THEN "in_progress"
                                        ELSE IF j \in N THEN "pending" ELSE job[j].status
  BY <1>8, <1>9, <1>D
<1>11. \A j \in D : j \in N \/ job[j].status \in {"pending", "failed"}
  BY <1>D
<1>12. Ledger!Start(N, D)
  <2>1. \A j \in N : /\ job[j].status \notin {"pending", "failed", "in_progress"}
                     /\ \A i \in Jobs : TargetOf[i] = TargetOf[j] =>
                           job[i].status \notin {"pending", "failed", "in_progress"}
                     /\ \A h \in N : TargetOf[h] = TargetOf[j] => h = j
    BY <1>2 DEF ActiveStatuses
  <2>2. \A j \in N : Ledger!Others(j) = {}
    BY <2>1 DEF Ledger!Others, Ledger!Unsettled, Ledger!Waiting
  <2>3. QED
    BY <1>10, <1>11, <2>1, <2>2 DEF Ledger!Start, Ledger!Unsettled, Ledger!Waiting
<1>13. QED
  BY <1>12

\* Overwriting the row of a job that was taken is a mark, if the index allows
\* the new status.
LEMMA MarkIsAMark ==
    ASSUME IInv, NEW j \in Jobs, NEW row \in JobRow, IndexAllows(j, row),
           row.status \in {"succeeded", "failed", "dead"},
           job[j].status \notin {"absent", "pending"},
           job' = [job EXCEPT ![j] = row]
    PROVE  Ledger!Mark(j, row.status)
<1>1. \A i \in Jobs : job'[i] = IF i = j THEN row ELSE job[i]
  BY DEF IInv, TypeOK
<1>2. row.status = "failed" => Ledger!Others(j) = {}
  BY DEF IndexAllows, ActiveJobs, Active, ActiveStatuses,
         Ledger!Others, Ledger!Unsettled, Ledger!Waiting
<1>3. [i \in Jobs |-> job'[i].status] = [[i \in Jobs |-> job[i].status] EXCEPT ![j] = row.status]
  <2>1. \A i \in Jobs : job'[i].status = IF i = j THEN row.status ELSE job[i].status
    BY <1>1
  <2>2. QED
    BY <2>1
<1>4. QED
  BY <1>2, <1>3 DEF Ledger!Mark

LEMMA TickKeepsStatuses ==
    ASSUME TypeOK, Tick
    PROVE  /\ \A j \in Jobs : job'[j].status = job[j].status
           /\ \A v \in Workers : Held(v)' = Held(v)
<1>1. \A j \in Jobs : job'[j].status = job[j].status
  BY DEF TypeOK, JobRow, Tick
<1>2. \A v \in Workers : worker'[v].job = worker[v].job /\ worker'[v].rest = worker[v].rest
  BY DEF TypeOK, WorkerState, Tick
<1>3. QED
  BY <1>1, <1>2 DEF Held, HeldIn

-----------------------------------------------------------------------------
\* Every step keeps HeldTaken and is a step of the ledger or changes no status.
LedgerStep == (\E N, D \in SUBSET Jobs : Ledger!Start(N, D))
                  \/ (\E j \in Jobs, mark \in Ledger!Marks : Ledger!Mark(j, mark))
                  \/ \A j \in Jobs : job'[j].status = job[j].status

LEMMA StartCycleRefines ==
    ASSUME LInv, NEW w \in Workers, NEW E \in SUBSET Targets, NEW C \in SUBSET Jobs,
           StartCycle(w, E, C)
    PROVE  LedgerStep /\ HeldTaken'
<1>1. GoodTable(job) /\ \A t \in E : ActiveJobs(t) = {} /\ Free(t) # {}
  BY DEF LInv, IInv, StartCycle, DueTargets
<1>2. C \in SUBSET ClaimableJobs(InsertJobs(E)) /\ job' = ClaimJobs(InsertJobs(E), C)
  BY DEF StartCycle
<1>3. LedgerStep
  BY <1>1, <1>2, EnqueueStarts DEF LedgerStep
<1>4. \A j \in Jobs : job'[j] = IF j \in C THEN ClaimRow(InsertJobs(E)[j]) ELSE InsertJobs(E)[j]
  BY <1>2 DEF ClaimJobs
<1>5. \A j \in Jobs : InsertJobs(E)[j] \in JobRow
  BY <1>1, InsertKeepsTable DEF GoodTable
<1>6. \A j \in C : job'[j].status = "in_progress"
  BY <1>4, <1>5 DEF ClaimRow, JobRow
<1>7. Held(w)' = C
  <2>1. worker[w] \in WorkerState /\ worker[w].job = NoJob
    BY DEF StartCycle, LInv, IInv, TypeOK, WorkerRuns
  <2>2. worker'[w].job = NoJob /\ worker'[w].rest = C
    BY <2>1 DEF StartCycle, LInv, IInv, TypeOK, WorkerState
  <2>3. QED
    BY <2>2, JobsAssumption DEF Held, HeldIn
<1>8. \A v \in Workers : v # w => Held(v)' = Held(v)
  BY DEF StartCycle, LInv, IInv, TypeOK, Held, HeldIn
<1>9. ASSUME NEW v \in Workers, NEW j \in Held(v)'
      PROVE  job'[j].status \notin {"absent", "pending"}
  <2>1. CASE j \in C
    BY <1>6, <2>1
  <2>2. CASE j \notin C
    <3>1. j \in Held(v) /\ j \in Jobs
      BY <1>7, <1>8, <1>9, <2>2, HeldAreJobs DEF LInv, IInv
    <3>2. job'[j] = job[j]
      BY <1>1, <1>4, <2>2, <3>1, HeldRowsStay
    <3>3. QED
      BY <3>1, <3>2 DEF LInv, HeldTaken
  <2>3. QED
    BY <2>1, <2>2
<1>10. QED
  BY <1>3, <1>9 DEF HeldTaken

LEMMA BatchStepsRefine ==
    ASSUME LInv, NEW w \in Workers,
           \/ \E j \in Jobs : BeginJob(w, j)
           \/ RecordObservation(w) \/ CheckSucceeds(w) \/ CheckFails(w) \/ Crash(w)
    PROVE  LedgerStep /\ HeldTaken'
<1>1. UNCHANGED job
  BY DEF BeginJob, RecordObservation, CheckSucceeds, CheckFails, Crash
<1>2. \A v \in Workers : Held(v)' \subseteq Held(v)
  <2>1. CASE RecordObservation(w)
    BY <2>1 DEF RecordObservation, Held
  <2>2. CASE ~RecordObservation(w)
    BY <2>2, HeldShrinks DEF LInv, CheckSucceeds, CheckFails, Crash
  <2>3. QED
    BY <2>1, <2>2
<1>3. QED
  BY <1>1, <1>2 DEF LInv, HeldTaken, LedgerStep

LEMMA MarkStepsRefine ==
    ASSUME LInv, NEW w \in Workers, MarkSucceeded(w) \/ MarkFailed(w)
    PROVE  LedgerStep /\ HeldTaken'
<1> DEFINE j == worker[w].job
<1>1. j \in Jobs /\ j \in Held(w)
  BY JobsAssumption DEF LInv, IInv, TypeOK, WorkerRuns, WorkerState, MarkSucceeded, MarkFailed, Held, HeldIn
<1>2. job[j] \in JobRow /\ RowAgrees(job[j]) /\ job[j].status \notin {"absent", "pending"}
  BY <1>1 DEF LInv, IInv, GoodTable, HeldTaken
<1>3. \A v \in Workers : Held(v)' \subseteq Held(v)
  BY HeldShrinks DEF LInv, MarkSucceeded, MarkFailed
<1>4. CASE UNCHANGED job
  BY <1>3, <1>4 DEF LInv, HeldTaken, LedgerStep
<1>5. ASSUME NEW row \in JobRow, job' = [job EXCEPT ![j] = row], IndexAllows(j, row),
             row.status \in {"succeeded", "failed", "dead"}
      PROVE  LedgerStep /\ HeldTaken'
  <2>1. Ledger!Mark(j, row.status)
    BY <1>1, <1>2, <1>5, MarkIsAMark DEF LInv
  <2>2. \A i \in Jobs : job'[i] = IF i = j THEN row ELSE job[i]
    BY <1>5 DEF LInv, IInv, TypeOK
  <2>3. HeldTaken'
    BY <1>3, <1>5, <2>2, HeldAreJobs DEF LInv, IInv, HeldTaken
  <2>4. row.status \in Ledger!Marks
    BY <1>5 DEF Ledger!Marks
  <2>5. QED
    BY <1>1, <2>1, <2>3, <2>4 DEF LedgerStep
<1>6. CASE MarkSucceeded(w) /\ job' = [job EXCEPT ![j] = SucceededRow(job[j])]
  <2>1. SucceededRow(job[j]) \in JobRow
    BY <1>2, RowOperators
  <2>2. SucceededRow(job[j]).status = "succeeded"
    BY <1>2 DEF SucceededRow, JobRow
  <2>3. IndexAllows(j, SucceededRow(job[j]))
    BY <2>2 DEF IndexAllows, ActiveStatuses
  <2>4. QED
    BY <1>5, <1>6, <2>1, <2>2, <2>3
<1>7. CASE IndexAllows(j, FailedRow(job[j])) /\ job' = [job EXCEPT ![j] = FailedRow(job[j])]
  <2>1. FailedRow(job[j]) \in JobRow
    BY <1>2, RowOperators
  <2>2. FailedRow(job[j]).status \in {"failed", "dead"}
    BY <1>2 DEF FailedRow, JobRow
  <2>3. QED
    BY <1>5, <1>7, <2>1, <2>2
<1>8. QED
  BY <1>4, <1>6, <1>7 DEF MarkSucceeded, MarkFailed

LEMMA OutsideRefines ==
    ASSUME LInv, Outside
    PROVE  LedgerStep /\ HeldTaken'
<1>1. CASE UNCHANGED <<job, worker>>
  BY <1>1 DEF LInv, HeldTaken, Held, LedgerStep
<1>2. ASSUME NEW T \in SUBSET Targets, ResearchRun(T)
      PROVE  LedgerStep /\ HeldTaken'
  <2> DEFINE E == {t \in T : ActiveJobs(t) = {} /\ Free(t) # {}}
  <2>1. \A v \in Workers : Held(v)' = Held(v)
    BY <1>2 DEF ResearchRun, Held
  <2>2. E \in SUBSET Targets /\ \A t \in E : ActiveJobs(t) = {} /\ Free(t) # {}
    OBVIOUS
  <2>3. job' = InsertJobs(E)
    BY <1>2 DEF ResearchRun
  <2> HIDE DEF E
  <2>4. job' = ClaimJobs(InsertJobs(E), {})
    BY <2>3 DEF ClaimJobs, InsertJobs
  <2>5. {} \in SUBSET ClaimableJobs(InsertJobs(E))
    OBVIOUS
  <2>6. LedgerStep
    BY <2>2, <2>4, <2>5, EnqueueStarts DEF LInv, IInv, LedgerStep
  <2>7. HeldTaken'
    BY <2>1, <2>2, <2>3, HeldRowsStay, HeldAreJobs DEF LInv, IInv, HeldTaken
  <2>8. QED
    BY <2>6, <2>7
<1>3. QED
  BY <1>1, <1>2 DEF Outside, ConfigureTarget, ManualCheck

LEMMA StepRefines ==
    ASSUME LInv, [Next]_vars
    PROVE  LedgerStep /\ LInv'
<1>1. IInv'
  BY StepGood DEF LInv
<1>2. ASSUME NEW w \in Workers, WorkerStep(w) PROVE LedgerStep /\ HeldTaken'
  BY <1>2, StartCycleRefines, BatchStepsRefine, MarkStepsRefine DEF WorkerStep
<1>3. Outside => LedgerStep /\ HeldTaken'
  BY OutsideRefines
<1>4. Tick => LedgerStep /\ HeldTaken'
  BY TickKeepsStatuses, HeldAreJobs DEF LInv, IInv, HeldTaken, LedgerStep
<1>5. UNCHANGED vars => LedgerStep /\ HeldTaken'
  BY DEF vars, LInv, HeldTaken, Held, LedgerStep
<1>6. QED
  BY <1>1, <1>2, <1>3, <1>4, <1>5 DEF Next, LInv

\* The queue keeps the promise of the ledger, on which the research runs rely:
\* no enqueue, claim, crash or stale mark moves a status in another way.
THEOREM JobsImplementLedger == Spec => ImplementsLedger
<1>1. Init => LInv
  <2>1. Init => \A v \in Workers : Held(v) = {}
    BY DEF Init, IdleWorker, Held, HeldIn
  <2>2. QED
    BY <2>1, InitGood DEF LInv, HeldTaken
<1>2. LInv /\ [Next]_vars => LInv'
  BY StepRefines
<1>3. Init => Ledger!LedgerInit
  BY DEF Init, AbsentRow, Ledger!LedgerInit
<1>4. LInv /\ [Next]_vars => [Ledger!LedgerNext]_[j \in Jobs |-> job[j].status]
  <2> SUFFICES ASSUME LInv, [Next]_vars
               PROVE  Ledger!LedgerNext \/ UNCHANGED [j \in Jobs |-> job[j].status]
    OBVIOUS
  <2>1. LedgerStep
    BY StepRefines
  <2>2. CASE \A j \in Jobs : job'[j].status = job[j].status
    BY <2>2
  <2>3. QED
    BY <2>1, <2>2 DEF LedgerStep, Ledger!LedgerNext
<1>5. QED
  BY <1>1, <1>2, <1>3, <1>4, PTL DEF Spec, ImplementsLedger, Ledger!LedgerSpec

-----------------------------------------------------------------------------
\* How far stale marks can push the counter of a row.  What bounds it is that
\* every mark takes one worker off the row, so it needs that the job a worker
\* runs is no longer waiting in the rest of its batch.
StartedOnce == \A w \in Workers : worker[w].job \notin worker[w].rest

AInv == IInv /\ StartedOnce /\ AttemptsOvershoot

\* A row with attempts n and holders H can bear the marks still to come.
Room(n, H) == n + Cardinality(H) < MaxAttempts + Cardinality(Workers)

\* A row keeps its room when it has attempts left, when nothing is added, and
\* when an attempt is added but a holder lets go.
LEMMA RoomStays ==
    ASSUME NEW m \in Nat, NEW n \in Nat, NEW H \in SUBSET Workers, NEW G \in SUBSET Workers,
           Room(m, H),
           \/ n < MaxAttempts
           \/ n <= m /\ G \subseteq H
           \/ n <= m + 1 /\ \E w \in H : G \subseteq H \ {w}
    PROVE  Room(n, G)
<1>1. /\ IsFiniteSet(H) /\ Cardinality(H) \in Nat
      /\ Cardinality(G) \in Nat /\ Cardinality(G) <= Cardinality(Workers)
      /\ Cardinality(Workers) \in Nat
  BY WorkersAssumption, FS_Subset, FS_CardinalityType
<1>2. CASE n < MaxAttempts
  BY <1>1, <1>2, TimingAssumption DEF Room
<1>3. CASE n <= m /\ G \subseteq H
  <2>1. Cardinality(G) <= Cardinality(H)
    BY <1>1, <1>3, FS_Subset
  <2>2. QED
    BY <1>1, <1>3, <2>1, TimingAssumption DEF Room
<1>4. ASSUME n <= m + 1, NEW w \in H, G \subseteq H \ {w}
      PROVE  Room(n, G)
  <2>1. IsFiniteSet(H \ {w}) /\ Cardinality(H \ {w}) = Cardinality(H) - 1
    BY <1>1, FS_RemoveElement
  <2>2. Cardinality(G) <= Cardinality(H \ {w})
    BY <1>4, <2>1, FS_Subset
  <2>3. QED
    BY <1>1, <1>4, <2>1, <2>2, TimingAssumption DEF Room
<1>5. QED
  BY <1>2, <1>3, <1>4

\* So a step keeps the bound if each row changes in one of the three ways.
LEMMA OvershootStays ==
    ASSUME AInv, IInv',
           \A j \in Jobs :
              \/ job'[j].attempts < MaxAttempts
              \/ job'[j].attempts <= job[j].attempts /\ Holders(j)' \subseteq Holders(j)
              \/ /\ job'[j].attempts <= job[j].attempts + 1
                 /\ \E w \in Holders(j) : Holders(j)' \subseteq Holders(j) \ {w}
    PROVE  AttemptsOvershoot'
<1>1. ASSUME NEW j \in Jobs
      PROVE  Room(job'[j].attempts, Holders(j)')
  <2>1. job[j].attempts \in Nat /\ job'[j].attempts \in Nat
    BY DEF AInv, IInv, TypeOK, JobRow
  <2>2. Room(job[j].attempts, Holders(j))
    BY DEF AInv, AttemptsOvershoot, Room
  <2>3. Holders(j) \in SUBSET Workers /\ Holders(j)' \in SUBSET Workers
    BY DEF Holders
  <2>4. QED
    BY <2>1, <2>2, <2>3, RoomStays
<1>2. QED
  BY <1>1 DEF AttemptsOvershoot, Room

LEMMA OvershootStartCycle ==
    ASSUME AInv, NEW w \in Workers, NEW E \in SUBSET Targets, NEW C \in SUBSET Jobs,
           StartCycle(w, E, C)
    PROVE  AInv'
<1>0. IInv'
  BY StartCycleStep DEF AInv
<1>1. worker[w] \in WorkerState /\ worker[w].job = NoJob
  BY DEF StartCycle, AInv, IInv, TypeOK, WorkerRuns
<1>2. worker'[w].job = NoJob /\ worker'[w].rest = C
  BY <1>1 DEF StartCycle, AInv, IInv, TypeOK, WorkerState
<1>3. \A v \in Workers : v # w => worker'[v] = worker[v]
  BY DEF StartCycle, AInv, IInv, TypeOK
<1>4. StartedOnce'
  BY <1>2, <1>3, JobsAssumption DEF AInv, StartedOnce
<1>5. GoodTable(InsertJobs(E))
  BY InsertKeepsTable DEF AInv, IInv, StartCycle, DueTargets
<1>6. ASSUME NEW j \in Jobs
      PROVE  \/ job'[j].attempts < MaxAttempts
             \/ job'[j].attempts <= job[j].attempts /\ Holders(j)' \subseteq Holders(j)
  <2>1. CASE j \in C
    <3>1. InsertJobs(E)[j] \in JobRow /\ Claimable(InsertJobs(E)[j])
      BY <1>5, <2>1 DEF StartCycle, ClaimableJobs, GoodTable
    <3>2. job'[j].status = "in_progress"
      BY <2>1, <3>1 DEF StartCycle, ClaimJobs, ClaimRow, JobRow
    <3>3. QED
      BY <1>0, <3>2 DEF IInv, GoodTable, RowAgrees, ActiveStatuses
  <2>2. CASE j \notin C
    <3>1. job'[j] = NewRow \/ job'[j] = job[j]
      BY <2>2 DEF StartCycle, ClaimJobs, InsertJobs
    <3>2. CASE job'[j] = NewRow
      BY <3>2, TimingAssumption DEF NewRow, AbsentRow
    <3>3. CASE job'[j] = job[j]
      <4>1. j \notin Held(w)'
        BY <1>2, <2>2 DEF Held, HeldIn
      <4>2. Holders(j)' \subseteq Holders(j)
        BY <1>3, <4>1 DEF Holders, Held
      <4>3. job[j].attempts \in Nat
        BY DEF AInv, IInv, TypeOK, JobRow
      <4>4. QED
        BY <3>3, <4>2, <4>3
    <3>4. QED
      BY <3>1, <3>2, <3>3
  <2>3. QED
    BY <2>1, <2>2
<1>7. QED
  BY <1>0, <1>4, <1>6, OvershootStays DEF AInv

\* Steps of a worker, or of time, that write no mark.
LEMMA OvershootUnmarked ==
    ASSUME AInv, IInv',
           \A v \in Workers : Held(v)' \subseteq Held(v),
           \A j \in Jobs : job'[j].attempts <= job[j].attempts
    PROVE  AttemptsOvershoot'
<1>1. \A j \in Jobs : Holders(j)' \subseteq Holders(j)
  BY DEF Holders
<1>2. QED
  BY <1>1, OvershootStays

LEMMA OvershootBatchSteps ==
    ASSUME AInv, NEW w \in Workers,
           \/ \E j \in Jobs : BeginJob(w, j)
           \/ RecordObservation(w) \/ CheckSucceeds(w) \/ CheckFails(w) \/ Crash(w)
    PROVE  AInv'
<1>1. IInv'
  BY BatchSteps DEF AInv
<1>2. UNCHANGED job
  BY DEF BeginJob, RecordObservation, CheckSucceeds, CheckFails, Crash
<1>3. \A v \in Workers : Held(v)' \subseteq Held(v)
  <2>1. CASE RecordObservation(w)
    BY <2>1 DEF RecordObservation, Held
  <2>2. CASE ~RecordObservation(w)
    BY <2>2, HeldShrinks DEF AInv, CheckSucceeds, CheckFails, Crash
  <2>3. QED
    BY <2>1, <2>2
<1>4. \A j \in Jobs : job'[j].attempts <= job[j].attempts
  BY <1>2 DEF AInv, IInv, TypeOK, JobRow
<1>5. StartedOnce'
  <2>1. ASSUME NEW j \in Jobs, BeginJob(w, j) PROVE StartedOnce'
    BY <2>1 DEF AInv, IInv, TypeOK, WorkerState, StartedOnce, BeginJob
  <2>2. CASE RecordObservation(w)
    BY <2>2 DEF AInv, StartedOnce, RecordObservation
  <2>3. CASE CheckSucceeds(w) \/ CheckFails(w)
    BY <2>3 DEF AInv, IInv, TypeOK, WorkerState, StartedOnce, CheckSucceeds, CheckFails
  <2>4. CASE Crash(w)
    BY <2>4 DEF AInv, IInv, TypeOK, StartedOnce, Crash, LoseBatch, IdleWorker
  <2>5. QED
    BY <2>1, <2>2, <2>3, <2>4
<1>6. QED
  BY <1>1, <1>3, <1>4, <1>5, OvershootUnmarked DEF AInv

\* The worker that is done with its job, or loses its batch, lets go of it.
LEMMA MarkLetsGo ==
    ASSUME IInv, StartedOnce, NEW w \in Workers, NEW j \in Jobs, j = worker[w].job,
           FinishJob(w) \/ LoseBatch(w)
    PROVE  StartedOnce' /\ Holders(j)' \subseteq Holders(j) \ {w}
<1>1. worker[w] \in WorkerState
  BY DEF IInv, TypeOK
<1>2. \A v \in Workers : v # w => worker'[v] = worker[v]
  BY DEF IInv, TypeOK, FinishJob, LoseBatch
<1>3. worker'[w].job = NoJob /\ worker'[w].rest \subseteq worker[w].rest
  <2>1. CASE FinishJob(w)
    BY <1>1, <2>1 DEF IInv, TypeOK, WorkerState, FinishJob
  <2>2. CASE LoseBatch(w)
    BY <2>2 DEF IInv, TypeOK, LoseBatch, IdleWorker
  <2>3. QED
    BY <2>1, <2>2
<1>4. j \notin Held(w)'
  BY <1>3, JobsAssumption DEF StartedOnce, Held, HeldIn
<1>5. Holders(j)' \subseteq Holders(j) \ {w}
  BY <1>2, <1>4 DEF Holders, Held
<1>6. StartedOnce'
  BY <1>1, <1>2, <1>3, JobsAssumption DEF StartedOnce, WorkerState
<1>7. QED
  BY <1>5, <1>6

LEMMA OvershootMarks ==
    ASSUME AInv, NEW w \in Workers, MarkSucceeded(w) \/ MarkFailed(w)
    PROVE  AInv'
<1>1. PICK j \in Jobs : j = worker[w].job
  BY DEF AInv, IInv, TypeOK, WorkerRuns, WorkerState, MarkSucceeded, MarkFailed
<1>2. IInv'
  BY MarkSteps DEF AInv
<1>3. w \in Holders(j)
  BY <1>1, JobsAssumption DEF Holders, Held, HeldIn
<1>4. \A v \in Workers : Held(v)' \subseteq Held(v)
  BY HeldShrinks DEF AInv, MarkSucceeded, MarkFailed
<1>5. StartedOnce'
  <2>1. CASE worker' = [worker EXCEPT ![w].pc = "failing"]
    BY <2>1 DEF AInv, IInv, TypeOK, WorkerState, StartedOnce
  <2>2. CASE FinishJob(w) \/ LoseBatch(w)
    BY <1>1, <2>2, MarkLetsGo DEF AInv
  <2>3. QED
    BY <2>1, <2>2 DEF MarkSucceeded, MarkFailed
<1>6. job[j] \in JobRow /\ \A i \in Jobs : job[i].attempts \in Nat
  BY DEF AInv, IInv, TypeOK, JobRow
<1>7. CASE \A i \in Jobs : job'[i].attempts <= job[i].attempts
  BY <1>2, <1>4, <1>5, <1>7, OvershootUnmarked DEF AInv
<1>8. CASE job' = [job EXCEPT ![j] = SucceededRow(job[j])]
  <2>1. SucceededRow(job[j]).attempts = job[j].attempts
    BY <1>6 DEF SucceededRow, JobRow
  <2>2. \A i \in Jobs : job'[i].attempts <= job[i].attempts
    BY <1>6, <1>8, <2>1 DEF AInv, IInv, TypeOK
  <2>3. QED
    BY <1>7, <2>2
<1>9. CASE MarkFailed(w) /\ job' = [job EXCEPT ![j] = FailedRow(job[j])]
  <2>1. FailedRow(job[j]).attempts = job[j].attempts + 1
    BY <1>6 DEF FailedRow, JobRow
  <2>2. \A i \in Jobs : job'[i] = IF i = j THEN FailedRow(job[j]) ELSE job[i]
    BY <1>9 DEF AInv, IInv, TypeOK
  <2>3. CASE FinishJob(w) \/ LoseBatch(w)
    <3>1. Holders(j)' \subseteq Holders(j) \ {w}
      BY <1>1, <2>3, MarkLetsGo DEF AInv
    <3>2. ASSUME NEW i \in Jobs
          PROVE  \/ job'[i].attempts <= job[i].attempts /\ Holders(i)' \subseteq Holders(i)
                 \/ /\ job'[i].attempts <= job[i].attempts + 1
                    /\ \E v \in Holders(i) : Holders(i)' \subseteq Holders(i) \ {v}
      <4>1. CASE i = j
        BY <1>3, <1>6, <2>1, <2>2, <3>1, <4>1
      <4>2. CASE i # j
        BY <1>4, <1>6, <2>2, <4>2 DEF Holders
      <4>3. QED
        BY <4>1, <4>2
    <3>3. QED
      BY <1>2, <1>5, <3>2, OvershootStays DEF AInv
  <2>4. CASE UNCHANGED job
    BY <1>6, <1>7, <2>4
  <2>5. QED
    BY <1>9, <2>3, <2>4 DEF MarkFailed
<1>10. QED
  BY <1>1, <1>6, <1>7, <1>8, <1>9 DEF MarkSucceeded, MarkFailed

LEMMA OvershootOutside ==
    ASSUME AInv, Outside
    PROVE  AInv'
<1>1. IInv' /\ UNCHANGED worker
  BY OutsideSteps DEF AInv, Outside, ConfigureTarget, ManualCheck, ResearchRun
<1>2. StartedOnce'
  BY <1>1 DEF AInv, StartedOnce
<1>3. \A j \in Jobs : Holders(j)' = Holders(j)
  BY <1>1 DEF Holders, Held
<1>4. \A j \in Jobs : job'[j] = NewRow \/ job'[j] = job[j]
  BY DEF Outside, ConfigureTarget, ManualCheck, ResearchRun, InsertJobs
<1>5. NewRow.attempts < MaxAttempts
  BY TimingAssumption DEF NewRow, AbsentRow
<1>6. \A j \in Jobs : job[j].attempts \in Nat
  BY DEF AInv, IInv, TypeOK, JobRow
<1>7. \A j \in Jobs : \/ job'[j].attempts < MaxAttempts
                      \/ job'[j].attempts <= job[j].attempts /\ Holders(j)' \subseteq Holders(j)
  BY <1>3, <1>4, <1>5, <1>6
<1>8. QED
  BY <1>1, <1>2, <1>7, OvershootStays DEF AInv

LEMMA OvershootTick ==
    ASSUME AInv, Tick
    PROVE  AInv'
<1>1. IInv' /\ \A v \in Workers : Held(v)' = Held(v)
  BY TickStep, TickKeepsStatuses DEF AInv, IInv
<1>2. \A j \in Jobs : job'[j].attempts = job[j].attempts /\ job[j].attempts \in Nat
  BY DEF AInv, IInv, TypeOK, JobRow, Tick
<1>3. \A v \in Workers : worker'[v].job = worker[v].job /\ worker'[v].rest = worker[v].rest
  BY DEF AInv, IInv, TypeOK, WorkerState, Tick
<1>4. StartedOnce'
  BY <1>3 DEF AInv, StartedOnce
<1>5. \A j \in Jobs : job'[j].attempts <= job[j].attempts
  BY <1>2
<1>6. QED
  BY <1>1, <1>4, <1>5, OvershootUnmarked DEF AInv

LEMMA OvershootStep == AInv /\ [Next]_vars => AInv'
<1> SUFFICES ASSUME AInv, [Next]_vars PROVE AInv'
  OBVIOUS
<1>1. ASSUME NEW w \in Workers, WorkerStep(w) PROVE AInv'
  BY <1>1, OvershootStartCycle, OvershootBatchSteps, OvershootMarks DEF WorkerStep
<1>2. Outside \/ Tick => AInv'
  BY OvershootOutside, OvershootTick
<1>3. CASE UNCHANGED vars
  <2>1. IInv' /\ UNCHANGED <<job, worker>>
    BY <1>3, StepGood DEF AInv, vars
  <2>2. QED
    BY <2>1 DEF AInv, StartedOnce, AttemptsOvershoot, Holders, Held
<1>4. QED
  BY <1>1, <1>2, <1>3 DEF Next

LEMMA OvershootInit == Init => AInv
<1> SUFFICES ASSUME Init PROVE AInv
  OBVIOUS
<1>1. IInv
  BY InitGood
<1>2. StartedOnce
  BY DEF Init, IdleWorker, StartedOnce
<1>3. ASSUME NEW j \in Jobs
      PROVE  job[j].attempts = 0 /\ Holders(j) = {}
  BY DEF Init, AbsentRow, IdleWorker, Holders, Held, HeldIn
<1>4. Cardinality({}) = 0 /\ Cardinality(Workers) \in Nat
  BY WorkersAssumption, FS_EmptySet, FS_CardinalityType
<1>5. AttemptsOvershoot
  <2>1. \A j \in Jobs : job[j].attempts = 0 /\ Cardinality(Holders(j)) = 0
    BY <1>3, <1>4
  <2>2. 0 < MaxAttempts + Cardinality(Workers)
    BY <1>4, TimingAssumption
  <2>3. QED
    BY <2>1, <2>2 DEF AttemptsOvershoot
<1>6. QED
  BY <1>1, <1>2, <1>5 DEF AInv

\* However many workers outlive their leases and however late they mark a job,
\* its attempts exceed max_attempts by less than the number of workers.
THEOREM AttemptsOvershootHolds == Spec => []AttemptsOvershoot
<1>1. AInv => AttemptsOvershoot
  BY DEF AInv
<1>2. QED
  BY <1>1, OvershootInit, OvershootStep, PTL DEF Spec
=============================================================================
