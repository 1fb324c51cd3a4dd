-------------------- MODULE SourceCheckJobsTimely_proofs --------------------
(***************************************************************************)
(* What the lease is worth: as long as no worker is still busy with a batch *)
(* when a lease of it runs out (TimelySpec), leases are exclusive and dead  *)
(* jobs stay dead.                                                         *)
(***************************************************************************)
EXTENDS SourceCheckJobs_proofs, SourceCheckJobsLive

\* Nobody else holds a job that a worker holds, and its row is in progress
\* under a running lease - or already succeeded, when the acknowledgement of
\* that mark was lost and the worker is about to mark it failed.
Owns(w, j) ==
    /\ \A v \in Workers : j \in Held(v) => v = w
    /\ \/ job[j].status = "in_progress" /\ job[j].lease # 0
       \/ job[j].status = "succeeded" /\ worker[w].pc = "failing" /\ worker[w].job = j

\* A job is started only once: the one that runs is not in the rest.
OwnInv == \A w \in Workers : /\ \A j \in Held(w) : Owns(w, j)
                             /\ worker[w].job \notin worker[w].rest

TInv == IInv /\ OwnInv
TimelyNext == Next /\ (Tick => NoLeaseRunsOut)

-----------------------------------------------------------------------------
\* A held job is neither claimable nor a free identity.
LEMMA HeldIsTaken ==
    ASSUME TInv, NEW E \in SUBSET DueTargets, NEW v \in Workers, NEW j \in Jobs, j \in Held(v)
    PROVE  InsertJobs(E)[j] = job[j] /\ j \notin ClaimableJobs(InsertJobs(E))
<1>1. Owns(v, j)
  BY DEF TInv, OwnInv
<1>2. \A t \in E : FreshJob(t) \in Free(t)
  BY DEF DueTargets, FreshJob
<1>3. \A t \in E : FreshJob(t) # j
  BY <1>2 DEF Free, Holders
<1>4. InsertJobs(E)[j] = job[j]
  BY <1>3 DEF InsertJobs
<1>5. ~Claimable(job[j])
  BY <1>1 DEF Owns, Claimable
<1>6. QED
  BY <1>4, <1>5 DEF ClaimableJobs

LEMMA StartCycleOwn ==
    ASSUME TInv, NEW w \in Workers, NEW E \in SUBSET Targets, NEW C \in SUBSET Jobs,
           StartCycle(w, E, C)
    PROVE  OwnInv'
<1>1. \A v \in Workers : v # w => worker'[v] = worker[v]
  BY DEF StartCycle, TInv, IInv, TypeOK
<1>2. worker'[w].pc = "idle" /\ worker'[w].job = NoJob /\ worker'[w].rest = C
  <2>1. worker[w] \in WorkerState /\ worker[w].job = NoJob
    BY DEF StartCycle, TInv, IInv, TypeOK, WorkerRuns
  <2>2. QED
    BY <2>1 DEF StartCycle, TInv, IInv, TypeOK, WorkerState
<1>3. \A v \in Workers : v # w => Held(v)' = Held(v)
  BY <1>1 DEF Held, HeldIn
<1>4. Held(w)' = C
  BY <1>2, JobsAssumption DEF Held, HeldIn
<1>5. \A j \in C : j \in ClaimableJobs(InsertJobs(E))
  BY DEF StartCycle
<1>6. \A v \in Workers : Held(v) \subseteq Jobs
  BY DEF Held, HeldIn, TInv, IInv, TypeOK, WorkerState
<1>7. \A v \in Workers, j \in C : j \notin Held(v)
  BY <1>5, HeldIsTaken DEF StartCycle
<1>8. \A j \in C : job'[j].status = "in_progress" /\ job'[j].lease # 0
  <2>1. GoodTable(InsertJobs(E))
    BY InsertKeepsTable DEF TInv, IInv, StartCycle, DueTargets
  <2>2. \A j \in C : job'[j] = ClaimRow(InsertJobs(E)[j]) /\ InsertJobs(E)[j] \in JobRow
    BY <2>1 DEF StartCycle, ClaimJobs, GoodTable
  <2>3. QED
    BY <2>2, TimingAssumption DEF ClaimRow, JobRow
<1>9. ASSUME NEW v \in Workers, v # w, NEW j \in Held(v)
      PROVE  job'[j] = job[j]
  <2>1. j \in Jobs /\ j \notin C
    BY <1>6, <1>7, <1>9
  <2>2. InsertJobs(E)[j] = job[j]
    BY <1>9, <2>1, HeldIsTaken DEF StartCycle
  <2>3. QED
    BY <2>1, <2>2 DEF StartCycle, ClaimJobs
<1>10. ASSUME NEW v \in Workers, NEW j \in Held(v)' PROVE Owns(v, j)'
  <2>1. CASE v = w
    BY <1>3, <1>4, <1>7, <1>8, <1>10, <2>1 DEF Owns
  <2>2. CASE v # w
    <3>1. j \in Held(v) /\ Owns(v, j)
      BY <1>3, <1>10, <2>2 DEF TInv, OwnInv
    <3>2. job'[j] = job[j] /\ worker'[v] = worker[v] /\ j \notin Held(w)'
      BY <1>1, <1>4, <1>7, <1>9, <2>2, <3>1
    <3>3. QED
      BY <1>3, <2>2, <3>1, <3>2 DEF Owns
  <2>3. QED
    BY <2>1, <2>2
<1>11. \A v \in Workers : worker'[v].job \notin worker'[v].rest
  BY <1>1, <1>2, JobsAssumption DEF TInv, OwnInv
<1>12. QED
  BY <1>10, <1>11 DEF OwnInv

\* A step of worker w that gives up some of its jobs, and changes no row that
\* it does not give up or that others hold.
LEMMA GiveUp ==
    ASSUME TInv, NEW w \in Workers, NEW mine, mine = HeldIn(worker'[w]),
           \A v \in Workers : v # w => worker'[v] = worker[v],
           mine \subseteq Held(w),
           worker'[w].job \notin worker'[w].rest,
           \A v \in Workers : \A j \in Held(v) : v # w => job'[j] = job[j],
           \A j \in mine : \/ job'[j].status = "in_progress" /\ job'[j].lease # 0
                           \/ job'[j].status = "succeeded" /\ worker'[w].pc = "failing" /\ worker'[w].job = j
    PROVE  OwnInv'
<1>0. Held(w)' = mine
  BY DEF Held
<1>1. \A v \in Workers : v # w => Held(v)' = Held(v)
  BY DEF Held
<1>2. ASSUME NEW v \in Workers, NEW j \in Held(v)' PROVE Owns(v, j)'
  <2>1. j \in Held(v) /\ Owns(v, j)
    BY <1>0, <1>1, <1>2 DEF TInv, OwnInv
  <2>2. \A u \in Workers : j \in Held(u)' => u = v
    BY <1>0, <1>1, <2>1 DEF Owns
  <2>3. QED
    BY <1>0, <1>1, <1>2, <2>1, <2>2 DEF Owns
<1>3. QED
  BY <1>2 DEF TInv, OwnInv

\* The jobs a worker holds, spelled out.
LEMMA HeldBy ==
    ASSUME TInv, NEW w \in Workers
    PROVE  /\ worker[w].pc = "idle" => Held(w) = worker[w].rest
           /\ worker[w].pc # "idle" => /\ Held(w) = worker[w].rest \cup {worker[w].job}
                                       /\ worker[w].job \in Jobs
           /\ worker[w].rest \subseteq Jobs
BY JobsAssumption DEF Held, HeldIn, TInv, IInv, TypeOK, WorkerRuns, WorkerState

LEMMA BatchStepsOwn ==
    ASSUME TInv, NEW w \in Workers,
           \/ \E j \in Jobs : BeginJob(w, j)
           \/ RecordObservation(w) \/ CheckSucceeds(w) \/ CheckFails(w) \/ Crash(w)
    PROVE  OwnInv'
<1>0. worker[w] \in WorkerState /\ worker \in [Workers -> WorkerState]
  BY DEF TInv, IInv, TypeOK
<1>1. ASSUME NEW j \in Jobs, BeginJob(w, j) PROVE OwnInv'
  <2>1. worker'[w].pc = "checking" /\ worker'[w].job = j /\ worker'[w].rest = worker[w].rest \ {j}
    BY <1>0, <1>1 DEF BeginJob, WorkerState
  <2>2. HeldIn(worker'[w]) = Held(w)
    BY <1>1, <2>1, HeldBy, JobsAssumption DEF BeginJob, Held, HeldIn
  <2>3. \A i \in Held(w) : Owns(w, i) /\ worker[w].pc = "idle"
    BY <1>1 DEF TInv, OwnInv, BeginJob
  <2>4. UNCHANGED job /\ \A v \in Workers : v # w => worker'[v] = worker[v]
    BY <1>0, <1>1 DEF BeginJob
  <2>5. \A i \in HeldIn(worker'[w]) : \/ job'[i].status = "in_progress" /\ job'[i].lease # 0
                                      \/ job'[i].status = "succeeded" /\ worker'[w].pc = "failing" /\ worker'[w].job = i
    BY <2>2, <2>3, <2>4 DEF Owns
  <2>6. worker'[w].job \notin worker'[w].rest
    BY <2>1
  <2>7. QED
    BY <2>2, <2>4, <2>5, <2>6, GiveUp
<1>2. CASE RecordObservation(w)
  BY <1>2 DEF TInv, OwnInv, Owns, Held, RecordObservation
<1>3. ASSUME NEW p \in {"succeeding", "failing"}, worker[w].pc = "checking",
             worker' = [worker EXCEPT ![w].pc = p], UNCHANGED job
      PROVE  OwnInv'
  <2>1. worker'[w].pc = p /\ worker'[w].job = worker[w].job /\ worker'[w].rest = worker[w].rest
    BY <1>0, <1>3 DEF WorkerState
  <2>2. HeldIn(worker'[w]) = Held(w)
    BY <2>1 DEF Held, HeldIn
  <2>3. \A i \in Held(w) : Owns(w, i)
    BY DEF TInv, OwnInv
  <2>4. \A v \in Workers : v # w => worker'[v] = worker[v]
    BY <1>0, <1>3
  <2>5. \A i \in HeldIn(worker'[w]) : \/ job'[i].status = "in_progress" /\ job'[i].lease # 0
                                      \/ job'[i].status = "succeeded" /\ worker'[w].pc = "failing" /\ worker'[w].job = i
    BY <1>3, <2>2, <2>3 DEF Owns
  <2>6. worker'[w].job \notin worker'[w].rest
    BY <2>1 DEF TInv, OwnInv
  <2>7. QED
    BY <1>3, <2>2, <2>4, <2>5, <2>6, GiveUp
<1>4. CASE Crash(w)
  <2>1. worker'[w] = IdleWorker /\ HeldIn(worker'[w]) = {}
    BY <1>0, <1>4 DEF Crash, LoseBatch, IdleWorker, Held, HeldIn
  <2>2. worker'[w].job \notin worker'[w].rest
    BY <2>1 DEF IdleWorker
  <2>3. QED
    BY <1>0, <1>4, <2>1, <2>2, GiveUp DEF Crash, LoseBatch
<1>5. QED
  BY <1>1, <1>2, <1>3, <1>4 DEF CheckSucceeds, CheckFails

LEMMA MarkStepsOwn ==
    ASSUME TInv, NEW w \in Workers, MarkSucceeded(w) \/ MarkFailed(w)
    PROVE  OwnInv'
<1> DEFINE j == worker[w].job
<1>1. worker[w] \in WorkerState /\ worker \in [Workers -> WorkerState]
  BY DEF TInv, IInv, TypeOK
<1>2. worker[w].pc # "idle" /\ j \in Jobs /\ j \in Held(w) /\ Held(w) = worker[w].rest \cup {j}
  BY HeldBy DEF MarkSucceeded, MarkFailed
<1>3. \A i \in Held(w) : Owns(w, i)
  BY DEF TInv, OwnInv
<1>4. job \in [Jobs -> JobRow] /\ j \notin worker[w].rest
  BY DEF TInv, OwnInv, IInv, TypeOK
<1>5. \A i \in Jobs : i # j => job'[i] = job[i]
  BY <1>4 DEF MarkSucceeded, MarkFailed
<1>6. \A v \in Workers : \A i \in Held(v) : v # w => job'[i] = job[i]
  <2> SUFFICES ASSUME NEW v \in Workers, NEW i \in Held(v), v # w PROVE job'[i] = job[i]
    OBVIOUS
  <2>1. Held(v) \subseteq Jobs
    BY HeldBy
  <2>2. i # j
    BY <1>2, <1>3 DEF Owns
  <2>3. QED
    BY <1>5, <2>1, <2>2
<1>7. \A v \in Workers : v # w => worker'[v] = worker[v]
  BY <1>1 DEF MarkSucceeded, MarkFailed, FinishJob, LoseBatch
<1>8. \A i \in worker[w].rest : /\ job'[i].status = "in_progress" /\ job'[i].lease # 0
  BY <1>2, <1>3, <1>4, <1>5, HeldBy DEF Owns
<1>9. CASE FinishJob(w)
  <2>1. worker'[w].job = NoJob /\ worker'[w].rest = worker[w].rest
    BY <1>1, <1>9 DEF FinishJob, WorkerState
  <2>2. HeldIn(worker'[w]) = worker[w].rest /\ worker'[w].job \notin worker'[w].rest
    BY <2>1, HeldBy, JobsAssumption DEF Held, HeldIn
  <2>3. \A i \in HeldIn(worker'[w]) : \/ job'[i].status = "in_progress" /\ job'[i].lease # 0
                                      \/ job'[i].status = "succeeded" /\ worker'[w].pc = "failing" /\ worker'[w].job = i
    BY <1>8, <2>2
  <2>4. HeldIn(worker'[w]) \subseteq Held(w)
    BY <1>2, <2>2
  <2>5. QED
    BY <1>6, <1>7, <2>2, <2>3, <2>4, GiveUp
<1>10. CASE LoseBatch(w)
  <2>1. worker'[w] = IdleWorker /\ HeldIn(worker'[w]) = {} /\ worker'[w].job \notin worker'[w].rest
    BY <1>1, <1>10 DEF LoseBatch, IdleWorker, Held, HeldIn
  <2>2. QED
    BY <1>6, <1>7, <2>1, GiveUp
<1>11. CASE MarkSucceeded(w) /\ worker' = [worker EXCEPT ![w].pc = "failing"]
  <2>1. worker'[w].pc = "failing" /\ worker'[w].job = j /\ worker'[w].rest = worker[w].rest
    BY <1>1, <1>11 DEF WorkerState
  <2>2. HeldIn(worker'[w]) = Held(w) /\ worker'[w].job \notin worker'[w].rest
    BY <1>4, <2>1 DEF Held, HeldIn
  <2>3. \/ job'[j].status = "in_progress" /\ job'[j].lease # 0
        \/ job'[j].status = "succeeded"
    <3>1. CASE UNCHANGED job
      BY <1>2, <1>3, <3>1 DEF Owns
    <3>2. CASE job' = [job EXCEPT ![j] = SucceededRow(job[j])]
      BY <1>2, <1>4, <3>2 DEF SucceededRow, JobRow
    <3>3. QED
      BY <1>11, <3>1, <3>2 DEF MarkSucceeded
  <2>4. \A i \in HeldIn(worker'[w]) : \/ job'[i].status = "in_progress" /\ job'[i].lease # 0
                                      \/ job'[i].status = "succeeded" /\ worker'[w].pc = "failing" /\ worker'[w].job = i
    BY <1>2, <1>8, <2>1, <2>2, <2>3
  <2>5. QED
    BY <1>6, <1>7, <2>2, <2>4, GiveUp
<1>12. QED
  BY <1>9, <1>10, <1>11 DEF MarkSucceeded, MarkFailed

LEMMA OtherStepsOwn ==
    ASSUME TInv, Outside \/ (Tick /\ NoLeaseRunsOut)
    PROVE  OwnInv'
<1>1. ASSUME NEW T \in SUBSET Targets, ResearchRun(T) PROVE OwnInv'
  <2> DEFINE E == {t \in T : ActiveJobs(t) = {} /\ Free(t) # {}}
  <2>1. ASSUME NEW v \in Workers, NEW j \in Held(v) PROVE job'[j] = job[j]
    <3>1. j \in Jobs
      BY <2>1, HeldBy
    <3>2. \A t \in E : FreshJob(t) \in Free(t)
      BY DEF FreshJob
    <3>3. \A t \in E : FreshJob(t) # j
      BY <2>1, <3>2 DEF Free, Holders
    <3>4. QED
      BY <1>1, <3>1, <3>3 DEF ResearchRun, InsertJobs
  <2>2. UNCHANGED worker
    BY <1>1 DEF ResearchRun
  <2>3. QED
    BY <2>1, <2>2 DEF TInv, OwnInv, Owns, Held, HeldIn
<1>2. ASSUME NEW t \in Targets, \/ \E on \in BOOLEAN, next \in 0..Cadence : ConfigureTarget(t, on, next)
                                \/ \E base \in 0..Cadence : ManualCheck(t, base)
      PROVE  OwnInv'
  <2>1. UNCHANGED <<job, worker>>
    BY <1>2 DEF ConfigureTarget, ManualCheck
  <2>2. QED
    BY <2>1 DEF TInv, OwnInv, Owns, Held, HeldIn
<1>3. CASE Tick /\ NoLeaseRunsOut
  <2>1. \A w \in Workers : /\ worker'[w].pc = worker[w].pc /\ worker'[w].job = worker[w].job
                           /\ worker'[w].rest = worker[w].rest
    <3>1. \A w \in Workers : worker[w] \in WorkerState
      BY DEF TInv, IInv, TypeOK
    <3>2. QED
      BY <1>3, <3>1 DEF Tick, WorkerState
  <2>2. ASSUME NEW w \in Workers, NEW j \in Held(w)
        PROVE  /\ job'[j].status = job[j].status
               /\ job[j].status = "in_progress" => job'[j].lease # 0
    <3>1. j \in Jobs
      BY <2>2, HeldBy
    <3>2. job[j] \in JobRow /\ RowAgrees(job[j])
      BY <3>1 DEF TInv, IInv, GoodTable
    <3>3. job'[j] = [job[j] EXCEPT !.wait = Earlier(@),
                                   !.lease = IF @ = NoLease THEN NoLease ELSE Earlier(@)]
      BY <1>3, <3>1 DEF Tick
    <3>4. job'[j].status = job[j].status
      BY <3>2, <3>3 DEF JobRow
    <3>5. job[j].status = "in_progress" => job'[j].lease # 0
      <4>1. job[j].status = "in_progress" => job[j].lease \in Nat /\ job[j].lease > 1
        BY <1>3, <3>2 DEF JobRow, RowAgrees, NoLeaseRunsOut
      <4>2. job[j].lease \in Nat => job'[j].lease = Earlier(job[j].lease)
        BY <3>2, <3>3, TimingAssumption DEF JobRow
      <4>3. QED
        BY <4>1, <4>2 DEF Earlier
    <3>6. QED
      BY <3>4, <3>5
  <2>3. \A w \in Workers : Held(w)' = Held(w)
    BY <2>1 DEF Held, HeldIn
  <2>4. ASSUME NEW w \in Workers, NEW j \in Held(w)' PROVE Owns(w, j)'
    <3>1. j \in Held(w) /\ Owns(w, j)
      BY <2>3, <2>4 DEF TInv, OwnInv
    <3>2. \A v \in Workers : j \in Held(v)' => v = w
      BY <2>3, <3>1 DEF Owns
    <3>3. QED
      BY <2>1, <2>2, <3>1, <3>2 DEF Owns
  <2>5. QED
    BY <2>1, <2>4 DEF TInv, OwnInv
<1>4. QED
  BY <1>1, <1>2, <1>3 DEF Outside

LEMMA TimelyInit == Init => TInv
<1>1. Init => IInv
  BY InitGood
<1>2. Init => \A w \in Workers : worker[w].job = NoJob /\ worker[w].rest = {} /\ Held(w) = {}
  BY DEF Init, IdleWorker, Held, HeldIn
<1>3. QED
  BY <1>1, <1>2 DEF TInv, OwnInv

LEMMA TimelyStep == TInv /\ [TimelyNext]_vars => TInv'
<1> SUFFICES ASSUME TInv, [TimelyNext]_vars PROVE TInv'
  OBVIOUS
<1>1. IInv'
  BY StepGood DEF TInv, TimelyNext
<1>2. ASSUME NEW w \in Workers, WorkerStep(w) PROVE OwnInv'
  BY <1>2, StartCycleOwn, BatchStepsOwn, MarkStepsOwn DEF WorkerStep
<1>3. ASSUME Outside \/ (Tick /\ NoLeaseRunsOut) PROVE OwnInv'
  BY <1>3, OtherStepsOwn
<1>4. ASSUME UNCHANGED vars PROVE OwnInv'
  BY <1>4 DEF vars, TInv, OwnInv, Owns, Held, HeldIn
<1>5. OwnInv'
  BY <1>2, <1>3, <1>4 DEF TimelyNext, Next
<1>6. QED
  BY <1>1, <1>5 DEF TInv

\* The ownership of held jobs is an invariant of the timely queue.
THEOREM Ownership == TimelySpec => []TInv
BY TimelyInit, TimelyStep, PTL DEF TimelySpec, TimelyNext

\* A running lease is exclusive as long as no worker outlives its own: no
\* second worker will mark the job.
THEOREM LeaseIsExclusiveHolds == TimelySpec => []LeaseIsExclusive
<1>1. TInv => LeaseIsExclusive
  BY DEF TInv, OwnInv, Owns, LeaseIsExclusive, Holders
<1>2. QED
  BY <1>1, Ownership, PTL

-----------------------------------------------------------------------------
\* What DeadStaysDead asks of one row in one step.
Rests(j) == job[j].status = "dead" =>
                \/ job'[j].status = "dead"
                \/ Holders(j) = {} /\ job'[j].attempts = 0

\* An insert leaves a dead row alone, or gives its free identity to a new job.
LEMMA InsertRests ==
    ASSUME NEW E \in SUBSET Targets, \A t \in E : Free(t) # {},
           NEW j \in Jobs, job[j].status = "dead"
    PROVE  \/ InsertJobs(E)[j] = job[j]
           \/ InsertJobs(E)[j] = NewRow /\ Holders(j) = {}
<1>1. \A t \in E : FreshJob(t) \in Free(t)
  BY DEF FreshJob
<1>2. CASE TargetOf[j] \in E /\ j = FreshJob(TargetOf[j])
  <2>1. Holders(j) = {}
    BY <1>1, <1>2 DEF Free
  <2>2. InsertJobs(E)[j] = NewRow
    BY <1>2 DEF InsertJobs
  <2>3. QED
    BY <2>1, <2>2
<1>3. CASE ~(TargetOf[j] \in E /\ j = FreshJob(TargetOf[j]))
  BY <1>3 DEF InsertJobs
<1>4. QED
  BY <1>2, <1>3

\* A dead job stays dead as long as no worker outlives its lease: only such a
\* worker could still mark it.
THEOREM DeadStaysDeadHolds == TimelySpec => DeadStaysDead
<1>1. ASSUME TInv, TimelyNext, NEW j \in Jobs PROVE Rests(j)
  <2> SUFFICES ASSUME job[j].status = "dead"
               PROVE  job'[j].status = "dead" \/ (Holders(j) = {} /\ job'[j].attempts = 0)
    BY DEF Rests
  <2>1. job \in [Jobs -> JobRow]
    BY <1>1 DEF TInv, IInv, TypeOK
  <2>2. ASSUME NEW w \in Workers, NEW E \in SUBSET Targets, NEW C \in SUBSET Jobs, StartCycle(w, E, C)
        PROVE  job'[j].status = "dead" \/ (Holders(j) = {} /\ job'[j].attempts = 0)
    <3>1. \/ InsertJobs(E)[j] = job[j]
          \/ InsertJobs(E)[j] = NewRow /\ Holders(j) = {}
      BY <2>2, InsertRests DEF StartCycle, DueTargets
    <3>2. job'[j] = IF j \in C THEN ClaimRow(InsertJobs(E)[j]) ELSE InsertJobs(E)[j]
      BY <2>2 DEF StartCycle, ClaimJobs
    <3>3. j \in C => Claimable(InsertJobs(E)[j])
      BY <2>2 DEF StartCycle, ClaimableJobs
    <3>4. CASE InsertJobs(E)[j] = job[j]
      BY <3>2, <3>3, <3>4 DEF Claimable
    <3>5. CASE InsertJobs(E)[j] = NewRow /\ Holders(j) = {}
      BY <3>2, <3>5 DEF ClaimRow, NewRow, AbsentRow
    <3>6. QED
      BY <3>1, <3>4, <3>5
  <2>3. ASSUME NEW w \in Workers, MarkSucceeded(w) \/ MarkFailed(w)
        PROVE  job'[j] = job[j]
    <3>1. worker[w].pc # "idle"
      BY <2>3 DEF MarkSucceeded, MarkFailed
    <3>2. Owns(w, worker[w].job)
      BY <1>1, <3>1, HeldBy DEF TInv, OwnInv
    <3>3. worker[w].job # j
      BY <3>2 DEF Owns
    <3>4. QED
      BY <2>1, <2>3, <3>3 DEF MarkSucceeded, MarkFailed
  <2>4. ASSUME NEW T \in SUBSET Targets, ResearchRun(T)
        PROVE  job'[j].status = "dead" \/ (Holders(j) = {} /\ job'[j].attempts = 0)
    <3> DEFINE E == {t \in T : ActiveJobs(t) = {} /\ Free(t) # {}}
    <3>1. \/ InsertJobs(E)[j] = job[j]
          \/ InsertJobs(E)[j] = NewRow /\ Holders(j) = {}
      BY InsertRests
    <3>2. QED
      BY <2>4, <3>1 DEF ResearchRun, NewRow, AbsentRow
  <2>5. CASE Tick
    BY <2>1, <2>5 DEF Tick, JobRow
  <2>6. CASE UNCHANGED job
    BY <2>6
  <2>7. QED
    BY <1>1, <2>2, <2>3, <2>4, <2>5, <2>6
       DEF TimelyNext, Next, WorkerStep, Outside, BeginJob, RecordObservation, CheckSucceeds,
           CheckFails, Crash, ConfigureTarget, ManualCheck
<1>2. TInv /\ [TimelyNext]_vars => [\A j \in Jobs : Rests(j)]_vars
  BY <1>1
<1>3. QED
  BY <1>2, Ownership, PTL DEF TimelySpec, TimelyNext, DeadStaysDead, Rests

-----------------------------------------------------------------------------
\* The attempts of a held row stay below max_attempts although its status may
\* be "succeeded" already, which StatusAgrees does not bound.
BInv == /\ TInv
        /\ AttemptsWithinBudget
        /\ \A w \in Workers : \A j \in Held(w) : job[j].attempts < MaxAttempts

\* What one step may do to the counter of a row, and what it may give a worker
\* to hold.
Counts(j) == \/ job'[j].attempts = job[j].attempts
             \/ job'[j].status \in ActiveStatuses
             \/ /\ job'[j].status = "dead" /\ job'[j].attempts = job[j].attempts + 1
                /\ \E w \in Workers : j \in Held(w)

Takes(w) == \A j \in Held(w)' : j \in Held(w) \/ job'[j].status = "in_progress"

LEMMA StartCycleCounts ==
    ASSUME IInv, NEW w \in Workers, NEW E \in SUBSET Targets, NEW C \in SUBSET Jobs,
           StartCycle(w, E, C)
    PROVE  (\A j \in Jobs : Counts(j)) /\ \A v \in Workers : Takes(v)
<1>1. GoodTable(InsertJobs(E))
  BY InsertKeepsTable DEF IInv, StartCycle, DueTargets
<1>2. \A j \in C : job'[j].status = "in_progress"
  BY <1>1 DEF StartCycle, ClaimJobs, ClaimRow, GoodTable, JobRow
<1>3. \A j \in Jobs : j \notin C => job'[j] = NewRow \/ job'[j] = job[j]
  BY DEF StartCycle, ClaimJobs, InsertJobs
<1>4. NewRow.status = "pending"
  BY DEF NewRow, AbsentRow
<1>5. \A j \in Jobs : Counts(j)
  BY <1>2, <1>3, <1>4 DEF Counts, ActiveStatuses
<1>6. worker[w] \in WorkerState /\ worker[w].job = NoJob
  BY DEF StartCycle, IInv, TypeOK, WorkerRuns
<1>7. \A v \in Workers : \A j \in Held(v)' : j \in Held(v) \/ j \in C
  BY <1>6 DEF StartCycle, IInv, TypeOK, WorkerState, Held, HeldIn
<1>8. QED
  BY <1>2, <1>5, <1>7 DEF Takes

LEMMA WorkerCounts ==
    ASSUME IInv, NEW w \in Workers, WorkerStep(w)
    PROVE  (\A j \in Jobs : Counts(j)) /\ \A v \in Workers : Takes(v)
<1>1. CASE \E E \in SUBSET Targets, C \in SUBSET Jobs : StartCycle(w, E, C)
  BY <1>1, StartCycleCounts
<1>2. CASE RecordObservation(w)
  BY <1>2 DEF RecordObservation, Counts, Takes, Held
<1>3. CASE (\E j \in Jobs : BeginJob(w, j)) \/ CheckSucceeds(w) \/ CheckFails(w) \/ Crash(w)
  <2>1. UNCHANGED job
    BY <1>3 DEF BeginJob, CheckSucceeds, CheckFails, Crash
  <2>2. \A v \in Workers : Held(v)' \subseteq Held(v)
    BY <1>3, HeldShrinks DEF CheckSucceeds, CheckFails, Crash
  <2>3. QED
    BY <2>1, <2>2 DEF Counts, Takes
<1>4. CASE MarkSucceeded(w) \/ MarkFailed(w)
  <2> DEFINE j == worker[w].job
  <2>1. j \in Jobs /\ j \in Held(w)
    BY <1>4, JobsAssumption DEF IInv, TypeOK, WorkerRuns, WorkerState, MarkSucceeded, MarkFailed, Held, HeldIn
  <2>2. \A v \in Workers : Held(v)' \subseteq Held(v)
    BY <1>4, HeldShrinks DEF MarkSucceeded, MarkFailed
  <2>3. job[j] \in JobRow /\ job \in [Jobs -> JobRow]
    BY <2>1 DEF IInv, TypeOK
  <2>4. SucceededRow(job[j]).attempts = job[j].attempts
    BY <2>3 DEF SucceededRow, JobRow
  <2>5. /\ FailedRow(job[j]).attempts = job[j].attempts + 1
        /\ FailedRow(job[j]).status \in {"dead", "failed"}
    BY <2>3 DEF FailedRow, JobRow
  <2>6. \/ UNCHANGED job
        \/ job' = [job EXCEPT ![j] = SucceededRow(job[j])]
        \/ job' = [job EXCEPT ![j] = FailedRow(job[j])]
    BY <1>4 DEF MarkSucceeded, MarkFailed
  <2>7. \A i \in Jobs : \/ job'[i] = job[i]
                        \/ i = j /\ job'[i] \in {SucceededRow(job[j]), FailedRow(job[j])}
    BY <2>3, <2>6
  <2>8. \A i \in Jobs : Counts(i)
    BY <2>1, <2>4, <2>5, <2>7 DEF Counts, ActiveStatuses
  <2>9. QED
    BY <2>2, <2>8 DEF Takes
<1>5. QED
  BY <1>1, <1>2, <1>3, <1>4 DEF WorkerStep

LEMMA StepCounts ==
    ASSUME IInv, [Next]_vars
    PROVE  (\A j \in Jobs : Counts(j)) /\ \A v \in Workers : Takes(v)
<1>1. ASSUME NEW w \in Workers, WorkerStep(w)
      PROVE  (\A j \in Jobs : Counts(j)) /\ \A v \in Workers : Takes(v)
  BY <1>1, WorkerCounts
<1>2. CASE Outside
  <2>1. UNCHANGED worker /\ \A j \in Jobs : job'[j] = NewRow \/ job'[j] = job[j]
    BY <1>2 DEF Outside, ConfigureTarget, ManualCheck, ResearchRun, InsertJobs
  <2>2. QED
    BY <2>1 DEF Counts, Takes, Held, NewRow, AbsentRow, ActiveStatuses
<1>3. CASE Tick
  <2>1. \A v \in Workers : Held(v)' = Held(v)
    BY <1>3, TickKeepsStatuses DEF IInv
  <2>2. \A j \in Jobs : job'[j].attempts = job[j].attempts
    BY <1>3 DEF IInv, TypeOK, JobRow, Tick
  <2>3. QED
    BY <2>1, <2>2 DEF Counts, Takes
<1>4. CASE UNCHANGED vars
  BY <1>4 DEF vars, Counts, Takes, Held
<1>5. QED
  BY <1>1, <1>2, <1>3, <1>4 DEF Next

\* As long as no worker outlives its lease, no job is tried more often than
\* max_attempts says: stale marks are the only way past it.
THEOREM AttemptsWithinBudgetHolds == TimelySpec => []AttemptsWithinBudget
<1>1. Init => BInv
  <2>1. Init => TInv
    BY TimelyInit
  <2>2. Init => \A j \in Jobs : job[j].attempts = 0
    BY DEF Init, AbsentRow
  <2>3. Init => \A w \in Workers : Held(w) = {}
    BY DEF Init, IdleWorker, Held, HeldIn
  <2>4. QED
    BY <2>1, <2>2, <2>3, TimingAssumption DEF BInv, AttemptsWithinBudget
<1>2. ASSUME BInv, [TimelyNext]_vars PROVE BInv'
  <2>1. TInv' /\ [Next]_vars
    BY <1>2, TimelyStep DEF BInv, TimelyNext
  <2>2. (\A j \in Jobs : Counts(j)) /\ \A v \in Workers : Takes(v)
    BY <1>2, <2>1, StepCounts DEF BInv, TInv
  <2>3. \A j \in Jobs : /\ job[j].attempts \in Nat /\ job'[j].attempts \in Nat
                        /\ job'[j].status \in ActiveStatuses => job'[j].attempts < MaxAttempts
    BY <1>2, <2>1 DEF BInv, TInv, IInv, GoodTable, RowAgrees, JobRow
  <2>4. AttemptsWithinBudget'
    BY <1>2, <2>2, <2>3, TimingAssumption DEF BInv, AttemptsWithinBudget, Counts
  <2>5. ASSUME NEW w \in Workers, NEW j \in Held(w)' PROVE job'[j].attempts < MaxAttempts
    <3>1. j \in Jobs
      BY <2>1, <2>5 DEF TInv, IInv, TypeOK, WorkerState, Held, HeldIn
    <3>2. job'[j].status \in {"in_progress", "succeeded"}
      BY <2>1, <2>5 DEF TInv, OwnInv, Owns
    <3>3. CASE job'[j].status \in ActiveStatuses
      BY <2>3, <3>1, <3>3
    <3>4. CASE job'[j].status \notin ActiveStatuses
      <4>1. j \in Held(w) /\ job'[j].attempts = job[j].attempts
        BY <2>2, <2>5, <3>1, <3>2, <3>4 DEF Takes, Counts, ActiveStatuses
      <4>2. QED
        BY <1>2, <4>1 DEF BInv
    <3>5. QED
      BY <3>3, <3>4
  <2>6. QED
    BY <2>1, <2>4, <2>5 DEF BInv
<1>3. BInv => AttemptsWithinBudget
  BY DEF BInv
<1>4. QED
  BY <1>1, <1>2, <1>3, PTL DEF TimelySpec, TimelyNext

-----------------------------------------------------------------------------
\* The queue whose disturbances end (SourceCheckJobsLive) takes no step that
\* Spec does not allow: its liveness is shown of behaviours that keep every
\* invariant proved of Spec, and none of them depends on the calm.
THEOREM LiveIsOrdinary == LiveSpec => Spec
<1>1. LiveInit => Init
  BY DEF LiveInit
<1>2. CalmNext => Next
  BY DEF CalmNext, SomeCycle, WorksOff, Next, WorkerStep
<1>3. [LiveNext]_liveVars => [Next]_vars
  BY <1>2 DEF LiveNext, liveVars, CalmsDown
<1>4. QED
  BY <1>1, <1>3, PTL DEF LiveSpec, Spec
=============================================================================
