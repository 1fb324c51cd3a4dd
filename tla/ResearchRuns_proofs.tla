-------------------------- MODULE ResearchRuns_proofs --------------------------
(***************************************************************************)
(* Safety of the company research runs for any number of runs, targets,    *)
(* requests and pending writes.                                            *)
(***************************************************************************)
EXTENDS ResearchRuns, TLAPS, FiniteSetTheorems

\* A target of a run that enqueued its checks is either checked since, or one
\* of its jobs keeps the run from being reported as succeeded.
Outstanding(t) == \E j \in Jobs : TargetOf[j] = t /\ status[j] \in Queue!Unsettled \cup {"dead"}

TargetsAreCovered ==
    \A r \in Runs : run[r].enqueued /\ run[r].stored = "queued_source_checks" =>
        \A t \in TargetsFor[r] : t \in checked[r] \/ Outstanding(t)

\* Only a record that is gone was executed.
ExecutedIsGone == \A w \in Writes : executed[w] = 0 \/ (executed[w] = 1 /\ write[w] = "gone")

\* A fresh run of a report takes the place of the request that created it.
FreshAuto == {r \in Runs : run[r].fresh /\ run[r].auto}
AutoCreating == {c \in Callers : call[c].pc = "creating" /\ call[c].auto}
PlacesAreTaken == Cardinality(FreshAuto) + Cardinality(AutoCreating) <= Cardinality(Callers)

IInv == TypeOK /\ TargetsAreCovered /\ ExecutedIsGone /\ PlacesAreTaken

-----------------------------------------------------------------------------
\* Both sets are finite, so that their sizes are numbers.
LEMMA SizesAreNumbers ==
    ASSUME NEW F \in SUBSET Runs, NEW A \in SUBSET Callers
    PROVE  /\ IsFiniteSet(F) /\ IsFiniteSet(A)
           /\ Cardinality(F) \in Nat /\ Cardinality(A) \in Nat
           /\ Cardinality(A) <= Cardinality(Callers)
           /\ Cardinality(Callers) \in Nat
<1>1. IsFiniteSet(F) /\ IsFiniteSet(A) /\ Cardinality(A) <= Cardinality(Callers)
  BY ResearchAssumption, FS_Subset
<1>2. QED
  BY <1>1, ResearchAssumption, FS_CardinalityType

\* A step that lets neither set grow keeps the bound.
LEMMA NoPlaceTaken ==
    ASSUME PlacesAreTaken, FreshAuto' \subseteq FreshAuto, AutoCreating' \subseteq AutoCreating
    PROVE  PlacesAreTaken'
<1>1. FreshAuto \in SUBSET Runs /\ AutoCreating \in SUBSET Callers
  BY DEF FreshAuto, AutoCreating
<1>2. IsFiniteSet(FreshAuto) /\ IsFiniteSet(AutoCreating)
  BY <1>1, SizesAreNumbers
<1>3. /\ Cardinality(FreshAuto') <= Cardinality(FreshAuto)
      /\ Cardinality(AutoCreating') <= Cardinality(AutoCreating)
  BY <1>2, FS_Subset
<1>4. FreshAuto' \in SUBSET Runs /\ AutoCreating' \in SUBSET Callers
  BY <1>1
<1>5. /\ Cardinality(FreshAuto) \in Nat /\ Cardinality(AutoCreating) \in Nat
      /\ Cardinality(FreshAuto') \in Nat /\ Cardinality(AutoCreating') \in Nat
      /\ Cardinality(Callers) \in Nat
  BY <1>1, <1>4, SizesAreNumbers
<1>6. QED
  BY <1>3, <1>5 DEF PlacesAreTaken

\* Jobs that stay outstanding keep every run covered, if no run is added.
LEMMA StillCovered ==
    ASSUME TargetsAreCovered,
           \A r \in Runs : /\ run'[r].enqueued = run[r].enqueued
                           /\ run'[r].stored = run[r].stored
                           /\ checked[r] \subseteq checked'[r],
           \A t \in Targets : Outstanding(t) => Outstanding(t)',
           TypeOK
    PROVE  TargetsAreCovered'
<1>1. \A r \in Runs : TargetsFor[r] \subseteq Targets
  BY ResearchAssumption
<1>2. QED
  BY <1>1 DEF TargetsAreCovered

-----------------------------------------------------------------------------
\* The ledger's steps keep the type of the statuses, and a new or taken row
\* leaves every outstanding target outstanding.
LEMMA StartKeeps ==
    ASSUME TypeOK, NEW N \in SUBSET Jobs, NEW C \in SUBSET Jobs, Queue!Start(N, C)
    PROVE  /\ status' \in [Jobs -> {"absent", "pending", "in_progress"} \cup Queue!Marks]
           /\ \A j \in Jobs : status[j] \in Queue!Unsettled \cup {"dead"} /\ j \notin N
                              => status'[j] \in Queue!Unsettled \cup {"dead"}
           /\ \A j \in N : status'[j] \in Queue!Unsettled
BY DEF TypeOK, Queue!Start, Queue!Unsettled, Queue!Waiting, Queue!Marks

LEMMA RowsForIsSubset ==
    ASSUME NEW T, NEW N \in RowsFor(T)
    PROVE  /\ N \in SUBSET Jobs
           /\ \A j \in N : status[j] = "absent"
           /\ \A t \in T : \E j \in N : TargetOf[j] = t
BY DEF RowsFor

LEMMA OutstandingStays ==
    ASSUME TypeOK, NEW T, NEW N \in RowsFor(T), NEW C \in SUBSET Jobs, Queue!Start(N, C)
    PROVE  /\ status' \in [Jobs -> {"absent", "pending", "in_progress"} \cup Queue!Marks]
           /\ \A t \in Targets : Outstanding(t) => Outstanding(t)'
           /\ \A t \in T : Outstanding(t)'
<1>1. /\ N \in SUBSET Jobs
      /\ \A j \in N : status[j] = "absent"
      /\ \A t \in T : \E j \in N : TargetOf[j] = t
  BY RowsForIsSubset
<1>2. /\ status' \in [Jobs -> {"absent", "pending", "in_progress"} \cup Queue!Marks]
      /\ \A j \in Jobs : status[j] \in Queue!Unsettled \cup {"dead"} /\ j \notin N
                         => status'[j] \in Queue!Unsettled \cup {"dead"}
      /\ \A j \in N : status'[j] \in Queue!Unsettled
  BY <1>1, StartKeeps
<1>3. "absent" \notin Queue!Unsettled \cup {"dead"}
  BY DEF Queue!Unsettled, Queue!Waiting
<1>4. \A j \in Jobs : status[j] \in Queue!Unsettled \cup {"dead"}
                      => status'[j] \in Queue!Unsettled \cup {"dead"}
  BY <1>1, <1>2, <1>3
<1>5. QED
  BY <1>1, <1>2, <1>4 DEF Outstanding

-----------------------------------------------------------------------------
LEMMA InitGood == Init => IInv
<1> SUFFICES ASSUME Init PROVE IInv
  OBVIOUS
<1>1. TypeOK
  BY DEF Init, TypeOK, Queue!LedgerInit, RunRow, NoRun, StoredStatuses, WriteStates,
         CallState, IdleCall
<1>2. TargetsAreCovered /\ ExecutedIsGone
  <2>1. \A r \in Runs : ~run[r].enqueued
    BY DEF Init, NoRun
  <2>2. \A w \in Writes : executed[w] = 0
    BY DEF Init
  <2>3. TargetsAreCovered
    BY <2>1 DEF TargetsAreCovered
  <2>4. ExecutedIsGone
    BY <2>2 DEF ExecutedIsGone
  <2>5. QED
    BY <2>3, <2>4
<1>3. FreshAuto = {} /\ AutoCreating = {}
  BY DEF Init, FreshAuto, AutoCreating, NoRun, IdleCall
<1>4. PlacesAreTaken
  BY <1>3, FS_EmptySet, SizesAreNumbers DEF PlacesAreTaken
<1>5. QED
  BY <1>1, <1>2, <1>4 DEF IInv

\* Pending writes: a record is executed only while it is open, and is gone
\* from then on.
LEMMA WritesKeep ==
    ASSUME IInv, NEW w \in Writes, CreateWrite(w) \/ Refuse(w)
    PROVE  IInv'
<1>1. TypeOK'
  BY DEF IInv, TypeOK, CreateWrite, Refuse, WriteStates
<1>2. UNCHANGED <<status, run, call, checked, executed>>
  BY DEF CreateWrite, Refuse
<1>3. TargetsAreCovered' /\ PlacesAreTaken'
  BY <1>2 DEF IInv, TargetsAreCovered, Outstanding, PlacesAreTaken, FreshAuto, AutoCreating
<1>4. ExecutedIsGone'
  BY <1>2 DEF IInv, TypeOK, ExecutedIsGone, CreateWrite, Refuse
<1>5. QED
  BY <1>1, <1>3, <1>4 DEF IInv

LEMMA ConfirmKeeps ==
    ASSUME IInv, NEW c \in Callers, NEW w \in Writes, NEW e \in BOOLEAN, Confirm(c, w, e)
    PROVE  IInv'
<1>1. TypeOK'
  BY DEF IInv, TypeOK, Confirm, Consumed, WriteStates, CallState
<1>2. ExecutedIsGone'
  BY DEF IInv, TypeOK, ExecutedIsGone, Confirm, Consumed
<1>3. TargetsAreCovered'
  BY DEF IInv, TargetsAreCovered, Outstanding, Confirm
<1>4. FreshAuto' \subseteq FreshAuto /\ AutoCreating' \subseteq AutoCreating
  BY DEF IInv, TypeOK, FreshAuto, AutoCreating, Confirm
<1>5. QED
  BY <1>1, <1>2, <1>3, <1>4, NoPlaceTaken DEF IInv

\* A report takes a place only when no fresh run holds one.
LEMMA EnsureKeeps ==
    ASSUME IInv, NEW c \in Callers, NEW force \in BOOLEAN, Ensure(c, force)
    PROVE  IInv'
<1>1. TypeOK'
  BY DEF IInv, TypeOK, Ensure, CallState
<1>2. ExecutedIsGone' /\ TargetsAreCovered'
  BY DEF IInv, ExecutedIsGone, TargetsAreCovered, Outstanding, Ensure
<1>3. PlacesAreTaken'
  <2>1. CASE force
    <3>1. FreshAuto' \subseteq FreshAuto /\ AutoCreating' \subseteq AutoCreating
      BY <2>1 DEF IInv, TypeOK, FreshAuto, AutoCreating, Ensure
    <3>2. QED
      BY <3>1, NoPlaceTaken DEF IInv
  <2>2. CASE ~force
    <3>1. FreshAuto' = {}
      BY <2>2 DEF Ensure, Reusable, FreshAuto
    <3>2. AutoCreating' \in SUBSET Callers
      BY DEF AutoCreating
    <3>3. Cardinality(FreshAuto') = 0
      BY <3>1, FS_EmptySet
    <3>4. /\ Cardinality(AutoCreating') \in Nat
          /\ Cardinality(AutoCreating') <= Cardinality(Callers)
      BY <3>2, SizesAreNumbers
    <3>5. QED
      BY <3>3, <3>4 DEF PlacesAreTaken
  <2>3. QED
    BY <2>1, <2>2
<1>4. QED
  BY <1>1, <1>2, <1>3 DEF IInv

\* The run inserted for a request takes over its place.
LEMMA InsertsKeepsPlaces ==
    ASSUME TypeOK, PlacesAreTaken, NEW c \in Callers, NEW r \in Runs,
           NEW stored \in StoredStatuses, Inserts(c, r, stored)
    PROVE  PlacesAreTaken'
<1>1. CASE ~call[c].auto
  <2>1. FreshAuto' \subseteq FreshAuto /\ AutoCreating' \subseteq AutoCreating
    BY <1>1 DEF TypeOK, FreshAuto, AutoCreating, Inserts, IdleCall
  <2>2. QED
    BY <2>1, NoPlaceTaken
<1>2. CASE call[c].auto
  <2>1. c \in AutoCreating /\ AutoCreating' = AutoCreating \ {c}
    BY <1>2 DEF TypeOK, AutoCreating, Inserts, IdleCall
  <2>2. FreshAuto' = FreshAuto \cup {r}
    BY <1>2 DEF TypeOK, FreshAuto, Inserts
  <2>3. /\ IsFiniteSet(FreshAuto) /\ IsFiniteSet(AutoCreating)
        /\ Cardinality(FreshAuto) \in Nat /\ Cardinality(AutoCreating) \in Nat
        /\ Cardinality(Callers) \in Nat
    BY SizesAreNumbers DEF FreshAuto, AutoCreating
  <2>4. Cardinality(AutoCreating') = Cardinality(AutoCreating) - 1
    BY <2>1, <2>3, FS_RemoveElement
  <2>5. \/ Cardinality(FreshAuto') = Cardinality(FreshAuto)
        \/ Cardinality(FreshAuto') = Cardinality(FreshAuto) + 1
    BY <2>2, <2>3, FS_AddElement
  <2>6. QED
    BY <2>3, <2>4, <2>5 DEF PlacesAreTaken
<1>3. QED
  BY <1>1, <1>2

LEMMA InsertsKeepsType ==
    ASSUME TypeOK, NEW c \in Callers, NEW r \in Runs, NEW stored \in StoredStatuses,
           Inserts(c, r, stored)
    PROVE  run' \in [Runs -> RunRow] /\ call' \in [Callers -> CallState]
<1>1. IdleCall \in CallState
  BY DEF IdleCall, CallState
<1>2. call[c].auto \in BOOLEAN /\ call[c].enqueues \in BOOLEAN
  BY DEF TypeOK, CallState
<1>3. [stored |-> stored, fresh |-> TRUE, auto |-> call[c].auto,
       enqueued |-> call[c].enqueues] \in RunRow
  BY <1>2 DEF RunRow
<1>4. QED
  BY <1>1, <1>3 DEF TypeOK, Inserts

LEMMA BlockKeeps ==
    ASSUME IInv, NEW c \in Callers, NEW r \in Runs, Block(c, r)
    PROVE  IInv'
<1>0. Inserts(c, r, "blocked") /\ "blocked" \in StoredStatuses
  BY DEF Block, StoredStatuses
<1>1. TypeOK'
  BY <1>0, InsertsKeepsType DEF IInv, TypeOK, Block
<1>2. PlacesAreTaken'
  BY <1>0, InsertsKeepsPlaces DEF IInv
<1>3. TargetsAreCovered'
  <2>1. \A q \in Runs : q = r \/ run'[q] = run[q]
    BY <1>0 DEF IInv, TypeOK, Inserts
  <2>2. run'[r].stored = "blocked"
    BY <1>0 DEF IInv, TypeOK, Inserts
  <2>3. QED
    BY <2>1, <2>2 DEF IInv, TargetsAreCovered, Outstanding, Block
<1>4. ExecutedIsGone'
  BY DEF IInv, ExecutedIsGone, Block
<1>5. QED
  BY <1>1, <1>2, <1>3, <1>4 DEF IInv

\* A run that enqueues finds an unsettled job of each of its targets or adds
\* one; a run that does not enqueue promises nothing.
LEMMA CreateKeeps ==
    ASSUME IInv, NEW c \in Callers, NEW r \in Runs, Create(c, r)
    PROVE  IInv'
<1>1. PICK T \in {TargetsFor[r], {}} :
        /\ Inserts(c, r, IF T = {} THEN "cannot_conclude" ELSE "queued_source_checks")
        /\ \/ /\ call[c].enqueues
              /\ \E N \in RowsFor(Enqueued(T)) : Queue!Start(N, {})
           \/ /\ ~call[c].enqueues
              /\ UNCHANGED status
        /\ UNCHANGED <<write, checked, executed>>
  BY DEF Create
<1> DEFINE stored == IF T = {} THEN "cannot_conclude" ELSE "queued_source_checks"
<1>2. stored \in StoredStatuses
  BY DEF StoredStatuses
<1>3. Inserts(c, r, stored)
  BY <1>1
<1>4. T \subseteq Targets /\ (stored = "queued_source_checks" => T = TargetsFor[r])
  BY <1>1, ResearchAssumption
<1>5. run'[r] = [stored |-> stored, fresh |-> TRUE, auto |-> call[c].auto,
                 enqueued |-> call[c].enqueues]
  BY <1>3 DEF IInv, TypeOK, Inserts
<1>6. \A q \in Runs : q = r \/ run'[q] = run[q]
  BY <1>3 DEF IInv, TypeOK, Inserts
<1> HIDE DEF stored
<1>7. /\ status' \in [Jobs -> {"absent", "pending", "in_progress"} \cup Queue!Marks]
      /\ \A t \in Targets : Outstanding(t) => Outstanding(t)'
      /\ call[c].enqueues => \A t \in T : Outstanding(t)'
  <2>1. CASE call[c].enqueues
    <3>1. PICK N \in RowsFor(Enqueued(T)) : Queue!Start(N, {})
      BY <1>1, <2>1
    <3>2. /\ status' \in [Jobs -> {"absent", "pending", "in_progress"} \cup Queue!Marks]
          /\ \A t \in Targets : Outstanding(t) => Outstanding(t)'
          /\ \A t \in Enqueued(T) : Outstanding(t)'
      BY <3>1, OutstandingStays DEF IInv
    <3>3. \A t \in T : t \in Enqueued(T) \/ Outstanding(t)
      BY DEF Enqueued, Unqueued, Outstanding
    <3>4. QED
      BY <1>4, <3>2, <3>3
  <2>2. CASE ~call[c].enqueues
    BY <1>1, <2>2 DEF IInv, TypeOK, Outstanding
  <2>3. QED
    BY <2>1, <2>2
<1>8. TypeOK'
  BY <1>1, <1>2, <1>3, <1>7, InsertsKeepsType DEF IInv, TypeOK
<1>9. TargetsAreCovered'
  <2>1. \A q \in Runs : TargetsFor[q] \subseteq Targets
    BY ResearchAssumption
  <2>2. SUFFICES ASSUME NEW q \in Runs, run'[q].enqueued,
                        run'[q].stored = "queued_source_checks", NEW t \in TargetsFor[q]
                 PROVE  t \in checked'[q] \/ Outstanding(t)'
    BY DEF TargetsAreCovered
  <2>3. CASE q = r
    BY <1>4, <1>5, <1>7, <2>2, <2>3
  <2>4. CASE q # r
    BY <1>1, <1>6, <1>7, <2>1, <2>2, <2>4 DEF IInv, TargetsAreCovered
  <2>5. QED
    BY <2>3, <2>4
<1>10. PlacesAreTaken'
  BY <1>2, <1>3, InsertsKeepsPlaces DEF IInv
<1>11. ExecutedIsGone'
  BY <1>1 DEF IInv, ExecutedIsGone
<1>12. QED
  BY <1>8, <1>9, <1>10, <1>11 DEF IInv

\* Requests that fail or are lost give their places back.
LEMMA FailuresKeep == IInv /\ (Crash \/ \E c \in Callers : CreateFails(c)) => IInv'
<1> SUFFICES ASSUME IInv, Crash \/ \E c \in Callers : CreateFails(c) PROVE IInv'
  OBVIOUS
<1>1. IdleCall \in CallState
  BY DEF IdleCall, CallState
<1>2. TypeOK'
  BY <1>1 DEF IInv, TypeOK, Crash, CreateFails, WriteStates
<1>3. TargetsAreCovered'
  BY DEF IInv, TargetsAreCovered, Outstanding, Crash, CreateFails
<1>4. ExecutedIsGone'
  BY DEF IInv, TypeOK, ExecutedIsGone, Crash, CreateFails
<1>5. FreshAuto' \subseteq FreshAuto /\ AutoCreating' \subseteq AutoCreating
  BY DEF IInv, TypeOK, FreshAuto, AutoCreating, Crash, CreateFails, IdleCall
<1>6. QED
  BY <1>2, <1>3, <1>4, <1>5, NoPlaceTaken DEF IInv

LEMMA AgesKeeps ==
    ASSUME IInv, NEW r \in Runs, Ages(r)
    PROVE  IInv'
<1>1. /\ run' \in [Runs -> RunRow]
      /\ \A q \in Runs : /\ run'[q].enqueued = run[q].enqueued
                         /\ run'[q].stored = run[q].stored
                         /\ run'[q].auto = run[q].auto
                         /\ run'[q].fresh => run[q].fresh
  BY DEF IInv, TypeOK, RunRow, Ages
<1>2. TypeOK'
  BY <1>1 DEF IInv, TypeOK, Ages
<1>3. TargetsAreCovered'
  BY <1>1 DEF IInv, TargetsAreCovered, Outstanding, Ages
<1>4. ExecutedIsGone'
  BY DEF IInv, ExecutedIsGone, Ages
<1>5. FreshAuto' \subseteq FreshAuto /\ AutoCreating' \subseteq AutoCreating
  BY <1>1 DEF FreshAuto, AutoCreating, Ages
<1>6. QED
  BY <1>2, <1>3, <1>4, <1>5, NoPlaceTaken DEF IInv

-----------------------------------------------------------------------------
LEMMA WorkKeeps ==
    ASSUME IInv, NEW T \in SUBSET Targets, NEW C \in SUBSET Jobs, Work(T, C)
    PROVE  IInv'
<1>1. PICK N \in RowsFor(T) : Queue!Start(N, C)
  BY DEF Work
<1>2. /\ status' \in [Jobs -> {"absent", "pending", "in_progress"} \cup Queue!Marks]
      /\ \A t \in Targets : Outstanding(t) => Outstanding(t)'
  BY <1>1, OutstandingStays DEF IInv
<1>3. TypeOK'
  BY <1>2 DEF IInv, TypeOK, Work
<1>4. TargetsAreCovered'
  BY <1>2, StillCovered DEF IInv, Work
<1>5. ExecutedIsGone' /\ PlacesAreTaken'
  BY DEF IInv, ExecutedIsGone, PlacesAreTaken, FreshAuto, AutoCreating, Work
<1>6. QED
  BY <1>3, <1>4, <1>5 DEF IInv

\* A job that is marked succeeded settles its target for every run there is.
LEMMA SettleKeeps ==
    ASSUME IInv, NEW j \in Jobs, NEW mark \in Queue!Marks, Settle(j, mark)
    PROVE  IInv'
<1>1. status' = [status EXCEPT ![j] = mark]
  BY DEF Settle, Queue!Mark
<1>2. ASSUME NEW r \in Runs
      PROVE  /\ \A t \in checked[r] : t \in checked'[r]
             /\ mark = "succeeded" /\ Exists(r) /\ TargetOf[j] \in TargetsFor[r]
                => TargetOf[j] \in checked'[r]
  BY DEF Settle
<1>3. TypeOK'
  <2>1. TargetOf[j] \in Targets
    BY ResearchAssumption
  <2>2. checked' \in [Runs -> SUBSET Targets]
    BY <2>1 DEF IInv, TypeOK, Settle
  <2>3. QED
    BY <1>1, <2>2 DEF IInv, TypeOK, Settle
<1>4. TargetsAreCovered'
  <2> SUFFICES ASSUME NEW r \in Runs, run'[r].enqueued,
                      run'[r].stored = "queued_source_checks", NEW t \in TargetsFor[r]
               PROVE  t \in checked'[r] \/ Outstanding(t)'
    BY DEF TargetsAreCovered
  <2>1. run' = run /\ Exists(r)
    BY DEF Settle, Exists
  <2>2. CASE t \in checked[r]
    BY <1>2, <2>2
  <2>3. CASE t \notin checked[r]
    <3>1. PICK i \in Jobs : TargetOf[i] = t /\ status[i] \in Queue!Unsettled \cup {"dead"}
      BY <2>1, <2>3 DEF IInv, TargetsAreCovered, Outstanding
    <3>2. CASE i = j /\ mark = "succeeded"
      BY <1>2, <2>1, <3>1, <3>2
    <3>3. CASE i # j \/ mark # "succeeded"
      <4>1. status'[i] \in Queue!Unsettled \cup {"dead"}
        BY <1>1, <3>1, <3>3 DEF IInv, TypeOK, Queue!Unsettled, Queue!Waiting, Queue!Marks
      <4>2. QED
        BY <3>1, <4>1 DEF Outstanding
    <3>4. QED
      BY <3>2, <3>3
  <2>4. QED
    BY <2>2, <2>3
<1>5. ExecutedIsGone' /\ PlacesAreTaken'
  BY DEF IInv, ExecutedIsGone, PlacesAreTaken, FreshAuto, AutoCreating, Settle
<1>6. QED
  BY <1>3, <1>4, <1>5 DEF IInv

-----------------------------------------------------------------------------
LEMMA StepGood == IInv /\ [Next]_vars => IInv'
<1> SUFFICES ASSUME IInv, [Next]_vars PROVE IInv'
  OBVIOUS
<1>1. CASE \E c \in Callers : Asks(c)
  BY <1>1, ConfirmKeeps, EnsureKeeps DEF Asks
<1>2. CASE \E c \in Callers : Creates(c)
  BY <1>2, CreateKeeps, BlockKeeps DEF Creates
<1>3. CASE Crash \/ \E c \in Callers : CreateFails(c)
  BY <1>3, FailuresKeep
<1>4. CASE \E w \in Writes : CreateWrite(w) \/ Refuse(w)
  BY <1>4, WritesKeep
<1>5. CASE \E r \in Runs : Ages(r)
  BY <1>5, AgesKeeps
<1>6. CASE Queues
  BY <1>6, WorkKeeps, SettleKeeps DEF Queues
<1>7. CASE UNCHANGED vars
  BY <1>7 DEF IInv, TypeOK, TargetsAreCovered, Outstanding, ExecutedIsGone, PlacesAreTaken,
              FreshAuto, AutoCreating, vars
<1>8. QED
  BY <1>1, <1>2, <1>3, <1>4, <1>5, <1>6, <1>7 DEF Next

\* What the invariant says of the status a run is reported with.
LEMMA CoveredRunsAreChecked == IInv => SucceededIsChecked
<1> SUFFICES ASSUME IInv, NEW r \in Runs, run[r].enqueued, Reported(r) = "succeeded",
                    NEW t \in TargetsFor[r]
             PROVE  t \in checked[r]
  BY DEF SucceededIsChecked
<1>1. run[r].stored \in StoredStatuses
  BY DEF IInv, TypeOK, RunRow
<1>2. run[r].stored = "queued_source_checks"
  BY <1>1 DEF Reported, StoredStatuses
<1>3. /\ JobsOf(r, "in_progress") = {} /\ JobsOf(r, "pending") = {}
      /\ JobsOf(r, "failed") = {} /\ JobsOf(r, "dead") = {}
  BY <1>2 DEF Reported
<1>4. ~Outstanding(t)
  BY <1>3 DEF Outstanding, JobsOf, Queue!Unsettled, Queue!Waiting
<1>5. QED
  BY <1>2, <1>4 DEF IInv, TargetsAreCovered

LEMMA PlacesBoundRuns == IInv => OverlapBoundsRuns
<1>1. /\ Cardinality(FreshAuto) \in Nat /\ Cardinality(AutoCreating) \in Nat
      /\ Cardinality(Callers) \in Nat
  BY SizesAreNumbers DEF FreshAuto, AutoCreating
<1>2. QED
  BY <1>1 DEF IInv, PlacesAreTaken, OverlapBoundsRuns, FreshAuto

-----------------------------------------------------------------------------
\* The rows, the pending writes and the requests keep their types.
THEOREM TypeCorrect == Spec => []TypeOK
<1>1. IInv => TypeOK
  BY DEF IInv
<1>2. QED
  BY InitGood, StepGood, <1>1, PTL DEF Spec

\* A run that enqueued its checks is never reported as succeeded before each
\* of its targets was checked after the run was created.
THEOREM SucceededRunsWereChecked == Spec => []SucceededIsChecked
BY InitGood, StepGood, CoveredRunsAreChecked, PTL DEF Spec

\* No repetition of a confirmation executes a pending write again.
THEOREM ConfirmationsExecuteOnce == Spec => []ConfirmedOnce
<1>1. IInv => ConfirmedOnce
  BY DEF IInv, TypeOK, ExecutedIsGone, ConfirmedOnce
<1>2. QED
  BY InitGood, StepGood, <1>1, PTL DEF Spec

\* Reports never keep more fresh runs than there are requests at a time.
THEOREM FreshRunsAreBounded == Spec => []OverlapBoundsRuns
BY InitGood, StepGood, PlacesBoundRuns, PTL DEF Spec

-----------------------------------------------------------------------------
\* The composition with the queue: whatever the runs, the reports and the
\* pending writes do to source_check_jobs, they do by steps of the ledger.
LEMMA StepsOfTheLedger ==
    ASSUME Next
    PROVE  Queue!LedgerNext \/ UNCHANGED status
<1>1. ASSUME NEW T, NEW N \in RowsFor(T), NEW C \in SUBSET Jobs, Queue!Start(N, C)
      PROVE  Queue!LedgerNext
  <2>1. N \in SUBSET Jobs
    BY <1>1, RowsForIsSubset
  <2>2. QED
    BY <1>1, <2>1 DEF Queue!LedgerNext
<1>2. ASSUME NEW c \in Callers, NEW r \in Runs, Create(c, r)
      PROVE  Queue!LedgerNext \/ UNCHANGED status
  BY <1>1, <1>2 DEF Create
<1>3. ASSUME NEW T \in SUBSET Targets, NEW C \in SUBSET Jobs, Work(T, C)
      PROVE  Queue!LedgerNext
  BY <1>1, <1>3 DEF Work
<1>4. ASSUME NEW j \in Jobs, NEW mark \in Queue!Marks, Settle(j, mark)
      PROVE  Queue!LedgerNext
  BY <1>4 DEF Settle, Queue!LedgerNext
<1>5. QED
  BY <1>2, <1>3, <1>4
     DEF Next, Asks, Creates, Queues, Block, CreateFails, CreateWrite, Refuse, Confirm, Ensure,
         Ages, Crash

\* Seen from the queue, the research runs are one more user of the ledger that
\* SourceCheckJobs implements (JobsImplementLedger).
THEOREM RunsUseLedger == Spec => Queue!LedgerSpec
<1>1. Init => Queue!LedgerInit
  BY DEF Init
<1>2. [Next]_vars => [Queue!LedgerNext]_status
  BY StepsOfTheLedger DEF vars
<1>3. QED
  BY <1>1, <1>2, PTL DEF Spec, Queue!LedgerSpec

\* What follows from the ledger alone: a start leaves at most one unsettled job
\* of a target, and a mark never makes one beside another.
LEMMA LedgerKeepsOne ==
    ASSUME status \in [Jobs -> {"absent", "pending", "in_progress"} \cup Queue!Marks],
           Queue!OneUnsettled, Queue!LedgerNext
    PROVE  Queue!OneUnsettled'
<1>1. ASSUME NEW N \in SUBSET Jobs, NEW C \in SUBSET Jobs, Queue!Start(N, C)
      PROVE  Queue!OneUnsettled'
  <2>1. \A j \in Jobs : status'[j] \in Queue!Unsettled => j \in N \/ status[j] \in Queue!Unsettled
    BY <1>1 DEF Queue!Start, Queue!Unsettled, Queue!Waiting
  <2>2. \A j \in N : /\ \A i \in Jobs : TargetOf[i] = TargetOf[j] => status[i] \notin Queue!Unsettled
                     /\ \A i \in N : TargetOf[i] = TargetOf[j] => i = j
    BY <1>1 DEF Queue!Start, Queue!Others
  <2>3. QED
    BY <2>1, <2>2 DEF Queue!OneUnsettled
<1>2. ASSUME NEW j \in Jobs, NEW mark \in Queue!Marks, Queue!Mark(j, mark)
      PROVE  Queue!OneUnsettled'
  <2>1. \A i \in Jobs : status'[i] = IF i = j THEN mark ELSE status[i]
    BY <1>2 DEF Queue!Mark
  <2>2. mark \in Queue!Unsettled => \A i \in Jobs \ {j} : TargetOf[i] = TargetOf[j] =>
                                                         status[i] \notin Queue!Unsettled
    BY <1>2 DEF Queue!Mark, Queue!Marks, Queue!Unsettled, Queue!Waiting, Queue!Others
  <2>3. QED
    BY <2>1, <2>2 DEF Queue!OneUnsettled
<1>3. QED
  BY <1>1, <1>2 DEF Queue!LedgerNext

\* No run, and no report that overlaps another, gives a target a second
\* unsettled job, although each of them enqueues without looking at the others.
THEOREM RunsShareJobs == Spec => []Queue!OneUnsettled
<1>1. Init => Queue!OneUnsettled
  BY DEF Init, Queue!LedgerInit, Queue!OneUnsettled, Queue!Unsettled, Queue!Waiting
<1>2. TypeOK /\ Queue!OneUnsettled /\ [Next]_vars => Queue!OneUnsettled'
  <2> SUFFICES ASSUME TypeOK, Queue!OneUnsettled, [Next]_vars PROVE Queue!OneUnsettled'
    OBVIOUS
  <2>1. CASE Queue!LedgerNext
    BY <2>1, LedgerKeepsOne DEF TypeOK
  <2>2. CASE UNCHANGED status
    BY <2>2 DEF Queue!OneUnsettled
  <2>3. QED
    BY <2>1, <2>2, StepsOfTheLedger DEF vars
<1>3. QED
  BY <1>1, <1>2, TypeCorrect, PTL DEF Spec
=============================================================================
