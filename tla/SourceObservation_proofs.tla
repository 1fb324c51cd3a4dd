----------------------- MODULE SourceObservation_proofs -----------------------
(***************************************************************************)
(* For any number of checks, documents and contents: the type invariant,   *)
(* and that the transactions implement the log.                            *)
(*                                                                         *)
(* Between the locks and the commit, a transaction relies on what it has   *)
(* read.  The invariant says that nobody can change it meanwhile, because  *)
(* whoever has read the health row holds it.                               *)
(***************************************************************************)
EXTENDS SourceObservationLive, TLAPS

\* A check that has fetched a document has its content.
Fetched == \A p \in Procs : proc[p].pc \in {"opening", "locked", "ready"} => proc[p].got \in Shas

\* A transaction that has read the health row holds it, and it is unchanged.
HealthHeld == \A p \in Procs : proc[p].pc \in {"locked", "ready"} =>
                  healthLock = p /\ proc[p].count = failures

\* What a transaction has read of its item is unchanged.
ItemRead == \A p \in Procs : proc[p].pc = "ready" => proc[p].prev = latest[Task(p)]

Inv == TypeOK /\ Fetched /\ HealthHeld /\ ItemRead

-----------------------------------------------------------------------------
LEMMA PlanHasTasks == /\ Len(Plan) \in Nat \ {0}
                      /\ \A k \in 1..Len(Plan) : Plan[k] \in Items
  BY ObservationAssumption

LEMMA IdleProcType == IdleProc \in ProcState
  BY PlanHasTasks DEF IdleProc, ProcState, Contents

\* A check that reached "fetching", "idle" or "promoting" holds no lock.
AtRest == {"idle", "fetching", "promoting"}

LEMMA FinishedType ==
  ASSUME NEW p, NEW changed \in SUBSET Documents
  PROVE  Finished(p, changed) \in ProcState /\ Finished(p, changed).pc \in AtRest
<1>1. CASE changed = {} \/ p \in Readers
  BY <1>1, IdleProcType DEF Finished, AtRest, IdleProc
<1>2. CASE ~(changed = {} \/ p \in Readers)
  <2>1. Finished(p, changed) = [IdleProc EXCEPT !.pc = "promoting", !.changed = changed]
    BY <1>2 DEF Finished
  <2>2. [IdleProc EXCEPT !.pc = "promoting", !.changed = changed] \in ProcState
    BY IdleProcType DEF ProcState
  <2> QED
    BY <2>1, <2>2 DEF AtRest, IdleProc
<1> QED
  BY <1>1, <1>2

LEMMA NextTaskType ==
  ASSUME NEW p \in Procs, proc[p] \in ProcState, NEW changed \in SUBSET Documents
  PROVE  NextTask(p, changed) \in ProcState /\ NextTask(p, changed).pc \in AtRest
<1>1. CASE proc[p].at = Len(Plan)
  BY <1>1, FinishedType DEF NextTask
<1>2. CASE proc[p].at # Len(Plan)
  <2> DEFINE next == proc[p].at + 1
  <2>1. next \in 1..Len(Plan)
    BY <1>2, PlanHasTasks DEF ProcState
  <2>2. NextTask(p, changed) = [IdleProc EXCEPT !.pc = "fetching", !.at = next, !.changed = changed]
    BY <1>2 DEF NextTask
  <2> HIDE DEF next
  <2>3. [IdleProc EXCEPT !.pc = "fetching", !.at = next, !.changed = changed] \in ProcState
    BY <2>1, IdleProcType DEF ProcState
  <2> QED
    BY <2>2, <2>3 DEF AtRest, IdleProc
<1> QED
  BY <1>1, <1>2

LEMMA TaskIsItem ==
  ASSUME NEW p \in Procs, proc[p] \in ProcState
  PROVE  Task(p) \in Items
  BY PlanHasTasks DEF Task, ProcState

-----------------------------------------------------------------------------
\* What a step of p does to the other processes, and to its own state: every
\* step leaves a process state, and one that claims to have read something
\* was reached by reading it.
StepOf(p) ==
    /\ proc' \in [Procs -> ProcState]
    /\ \A q \in Procs \ {p} : proc'[q] = proc[q]
    /\ proc'[p].pc \in {"opening", "locked", "ready"} => proc'[p].got \in Shas

ActionOf(p) == StartCheck(p) \/ Proceeds(p) \/ Disturbs(p)

LEMMA StepsKeepProcs ==
  ASSUME NEW p \in Procs, Inv, ActionOf(p)
  PROVE  StepOf(p)
<1> USE DEF Inv
<1>a. proc \in [Procs -> ProcState] /\ proc[p] \in ProcState
  BY DEF TypeOK
<1>b. ASSUME NEW r \in ProcState, proc' = [proc EXCEPT ![p] = r],
             r.pc \in {"opening", "locked", "ready"} => r.got \in Shas
      PROVE  StepOf(p)
  BY <1>a, <1>b DEF StepOf
<1>c. ASSUME NEW pc \in {"idle", "fetching", "degrading", "failing", "promoting"}, Goes(p, pc)
      PROVE  StepOf(p)
  <2>1. [proc[p] EXCEPT !.pc = pc] \in ProcState
    BY <1>a DEF ProcState
  <2>2. proc' = [proc EXCEPT ![p] = [proc[p] EXCEPT !.pc = pc]]
    BY <1>a, <1>c DEF Goes
  <2> QED
    BY <1>a, <1>c, <2>1, <2>2 DEF StepOf, ProcState
<1>1. CASE StartCheck(p)
  BY <1>1, <1>c DEF StartCheck
<1>2. CASE FetchLive(p)
  <2>1. world[Task(p)].sha \in Shas
    BY <1>a, TaskIsItem DEF TypeOK, WorldItem
  <2>2. [proc[p] EXCEPT !.pc = "opening", !.got = world[Task(p)].sha] \in ProcState
    BY <1>a, <2>1 DEF ProcState, Contents
  <2>3. proc' = [proc EXCEPT ![p] = [proc[p] EXCEPT !.pc = "opening", !.got = world[Task(p)].sha]]
    BY <1>2, <1>a DEF FetchLive
  <2> QED
    BY <1>a, <2>1, <2>2, <2>3 DEF StepOf, ProcState
<1>3. CASE FetchFallsBack(p)
  BY <1>3, <1>c DEF FetchFallsBack
<1>4. CASE FetchThrows(p)
  BY <1>4, <1>c DEF FetchThrows
<1>5. CASE OpenTransaction(p)
  <2>1. [proc[p] EXCEPT !.pc = "locked", !.count = failures] \in ProcState
    BY <1>a DEF ProcState, TypeOK
  <2>2. proc' = [proc EXCEPT ![p] = [proc[p] EXCEPT !.pc = "locked", !.count = failures]]
    BY <1>5, <1>a DEF OpenTransaction
  <2>3. proc[p].got \in Shas
    BY <1>5 DEF OpenTransaction, Fetched
  <2> QED
    BY <1>a, <2>1, <2>2, <2>3 DEF StepOf, ProcState
<1>6. CASE LockItem(p)
  <2>1. latest[Task(p)] \in Contents
    BY <1>a, TaskIsItem DEF TypeOK
  <2>2. [proc[p] EXCEPT !.pc = "ready", !.prev = latest[Task(p)]] \in ProcState
    BY <1>a, <2>1 DEF ProcState
  <2>3. proc' = [proc EXCEPT ![p] = [proc[p] EXCEPT !.pc = "ready", !.prev = latest[Task(p)]]]
    BY <1>6, <1>a DEF LockItem
  <2>4. proc[p].got \in Shas
    BY <1>6 DEF LockItem, Fetched
  <2> QED
    BY <1>a, <2>2, <2>3, <2>4 DEF StepOf, ProcState
<1>7. CASE CommitObservation(p)
  <2>1. proc[p].got \in Shas
    BY <1>7 DEF CommitObservation, Fetched
  <2>2. proc[p].changed \cup {<<Task(p), proc[p].got>>} \in SUBSET Documents
    BY <1>a, <2>1, TaskIsItem DEF Documents, ProcState
  <2>3. proc[p].changed \in SUBSET Documents
    BY <1>a DEF ProcState
  <2>4. PICK c \in SUBSET Documents : proc' = [proc EXCEPT ![p] = NextTask(p, c)]
    BY <1>7, <2>2, <2>3 DEF CommitObservation
  <2> QED
    BY <1>a, <1>b, <2>4, NextTaskType DEF AtRest
<1>8. CASE Degrade(p)
  <2>1. proc[p].changed \in SUBSET Documents
    BY <1>a DEF ProcState
  <2> QED
    BY <1>8, <1>a, <1>b, <2>1, NextTaskType DEF Degrade, AtRest
<1>9. CASE RecordFailure(p) \/ FailureIsLost(p) \/ Crash(p)
  BY <1>9, <1>b, IdleProcType DEF RecordFailure, FailureIsLost, Crash, IdleProc
<1>10. ASSUME NEW d \in Documents, PromotesNext(p, d)
       PROVE  StepOf(p)
  <2>1. proc[p].changed \ {d} \in SUBSET Documents
    BY <1>a DEF ProcState
  <2> QED
    BY <1>10, <1>b, <2>1, FinishedType DEF PromotesNext, AtRest
<1>11. CASE Throws(p)
  BY <1>11, <1>c DEF Throws
<1> QED
  BY <1>1, <1>2, <1>3, <1>4, <1>5, <1>6, <1>7, <1>8, <1>9, <1>10, <1>11
     DEF ActionOf, Proceeds, Disturbs, Promote, PromotionFails

-----------------------------------------------------------------------------
LEMMA OneMoreNat == ASSUME NEW n \in Nat PROVE Log!OneMore(n) \in Nat
  BY DEF Log!OneMore

LEMMA ClassifyKind ==
  ASSUME NEW a, NEW b
  PROVE  Log!Classify(a, b) \in {"DOCUMENT_NEW", "DOCUMENT_UNCHANGED", "DOCUMENT_CHANGED"}
  BY DEF Log!Classify

LEMMA UnlocksType ==
  ASSUME NEW p \in Procs, TypeOK, Unlocks(p)
  PROVE  healthLock' \in Procs \cup {NoProc} /\ itemLock' \in [Items -> Procs \cup {NoProc}]
  BY DEF Unlocks, TypeOK

\* The variables other than proc, as TypeOK types them.
RestOK == /\ world \in [Items -> WorldItem]
          /\ snapshots \in SUBSET Items
          /\ failures \in Nat
          /\ latest \in [Items -> Contents]
          /\ event \in Log!Event \cup {Log!NoEvent}
          /\ promoted \in SUBSET Documents
          /\ healthLock \in Procs \cup {NoProc}
          /\ itemLock \in [Items -> Procs \cup {NoProc}]

LEMMA RecordsFailureType ==
  ASSUME Inv, NEW kind \in {"SOURCE_DEGRADED", "SOURCE_FAILED"}, RecordsFailure(kind)
  PROVE  RestOK'
<1>1. failures' \in Nat
  BY OneMoreNat DEF RecordsFailure, Inv, TypeOK
<1>2. event' \in Log!Event
  BY DEF RecordsFailure, Inv, TypeOK, Log!Event, Log!Kinds
<1> QED
  BY <1>1, <1>2 DEF RecordsFailure, Inv, TypeOK, RestOK, locks

LEMMA StepsKeepRest ==
  ASSUME NEW p \in Procs, Inv, ActionOf(p)
  PROVE  RestOK'
<1>a. RestOK /\ proc[p] \in ProcState
  BY DEF Inv, TypeOK, RestOK
<1>b. ASSUME UNCHANGED <<world, snapshots, db, promoted, locks>> PROVE RestOK'
  BY <1>a, <1>b DEF RestOK, db, locks
<1>c. ASSUME UNCHANGED <<world, snapshots, db, promoted>>, Unlocks(p) PROVE RestOK'
  BY <1>a, <1>c, UnlocksType DEF RestOK, db, Inv
<1>1. CASE StartCheck(p) \/ FetchFallsBack(p) \/ FetchThrows(p) \/ FailureIsLost(p)
  BY <1>1, <1>b DEF StartCheck, FetchFallsBack, FetchThrows, FailureIsLost
<1>2. CASE Throws(p) \/ Crash(p)
  BY <1>2, <1>c DEF Throws, Crash
<1>3. CASE FetchLive(p)
  <2>1. Partition[Task(p)] \in Items
    BY <1>a, TaskIsItem, ObservationAssumption
  <2> QED
    BY <1>3, <1>a, <2>1 DEF FetchLive, RestOK, db, locks
<1>4. CASE OpenTransaction(p)
  BY <1>4, <1>a DEF OpenTransaction, RestOK, db
<1>5. CASE LockItem(p)
  BY <1>5, <1>a DEF LockItem, RestOK, db
<1>6. CASE CommitObservation(p)
  <2>1. proc[p].got \in Shas /\ proc[p].prev \in Contents /\ proc[p].count \in Nat
    BY <1>6, <1>a DEF CommitObservation, Inv, Fetched, ProcState
  <2>2. latest' \in [Items -> Contents]
    BY <1>6, <1>a, <2>1 DEF CommitObservation, LatestAfter, Contents, RestOK
  <2>3. event' \in Log!Event
    BY <1>6, <1>a, <2>1, TaskIsItem, ClassifyKind DEF CommitObservation, Log!Event, Log!Kinds, Contents
  <2>4. healthLock' \in Procs \cup {NoProc} /\ itemLock' \in [Items -> Procs \cup {NoProc}]
    BY <1>6, UnlocksType DEF CommitObservation, Inv
  <2> QED
    BY <1>6, <1>a, <2>2, <2>3, <2>4 DEF CommitObservation, RestOK
<1>7. CASE Degrade(p) \/ RecordFailure(p)
  BY <1>7, RecordsFailureType DEF Degrade, RecordFailure
<1>8. ASSUME NEW d \in Documents, Promote(p, d) PROVE RestOK'
  BY <1>8, <1>a DEF Promote, PromotesNext, RestOK, db, locks
<1>9. ASSUME NEW d \in Documents, PromotionFails(p, d) PROVE RestOK'
  BY <1>9, <1>b DEF PromotionFails, PromotesNext
<1> QED
  BY <1>1, <1>2, <1>3, <1>4, <1>5, <1>6, <1>7, <1>8, <1>9 DEF ActionOf, Proceeds, Disturbs

-----------------------------------------------------------------------------
\* A step that neither takes nor has the locks of a transaction leaves the
\* rows its lock protects alone.
LEMMA StepsKeepReads ==
  ASSUME NEW p \in Procs, Inv, ActionOf(p)
  PROVE  HealthHeld' /\ ItemRead'
<1> USE DEF Inv
<1>a. StepOf(p) /\ proc \in [Procs -> ProcState] /\ proc[p] \in ProcState /\ NoProc \notin Procs
  BY StepsKeepProcs, ObservationAssumption DEF TypeOK
<1>b. ASSUME UNCHANGED <<db, healthLock>>, proc'[p].pc \notin {"locked", "ready"}
      PROVE  HealthHeld' /\ ItemRead'
  BY <1>a, <1>b DEF StepOf, HealthHeld, ItemRead, Task, db
<1>c. ASSUME UNCHANGED db, Unlocks(p), proc'[p].pc \notin {"locked", "ready"}
      PROVE  HealthHeld' /\ ItemRead'
  BY <1>a, <1>c DEF StepOf, HealthHeld, ItemRead, Task, db, Unlocks
<1>1. CASE StartCheck(p) \/ FetchFallsBack(p) \/ FetchThrows(p)
  BY <1>1, <1>a, <1>b DEF StartCheck, FetchFallsBack, FetchThrows, Goes, locks, ProcState
<1>2. CASE FailureIsLost(p)
  BY <1>2, <1>a, <1>b DEF FailureIsLost, IdleProc, locks
<1>3. CASE Throws(p)
  BY <1>3, <1>a, <1>c DEF Throws, Goes, ProcState
<1>4. CASE Crash(p)
  BY <1>4, <1>a, <1>c DEF Crash, IdleProc
<1>5. CASE FetchLive(p)
  BY <1>5, <1>a, <1>b DEF FetchLive, locks, ProcState
<1>6. CASE OpenTransaction(p)
  <2>1. \A q \in Procs : proc[q].pc \notin {"locked", "ready"}
    BY <1>6, <1>a DEF OpenTransaction, HealthHeld
  <2>2. /\ proc'[p] = [proc[p] EXCEPT !.pc = "locked", !.count = failures]
        /\ healthLock' = p
        /\ failures' = failures
    BY <1>6, <1>a DEF OpenTransaction, db
  <2>3. proc'[p].pc = "locked" /\ proc'[p].count = failures
    BY <1>a, <2>2 DEF ProcState
  <2> QED
    BY <1>a, <2>1, <2>2, <2>3 DEF StepOf, HealthHeld, ItemRead
<1>7. CASE LockItem(p)
  <2>1. proc[p].pc = "locked"
    BY <1>7 DEF LockItem
  <2>2. \A q \in Procs \ {p} : proc[q].pc \notin {"locked", "ready"}
    BY <1>a, <2>1 DEF HealthHeld
  <2>3. /\ proc'[p] = [proc[p] EXCEPT !.pc = "ready", !.prev = latest[Task(p)]]
        /\ healthLock' = healthLock
        /\ failures' = failures
        /\ latest' = latest
    BY <1>7, <1>a DEF LockItem, db
  <2>4. /\ proc'[p].prev = latest[Task(p)]
        /\ proc'[p].count = proc[p].count
        /\ proc'[p].at = proc[p].at
    BY <1>a, <2>3 DEF ProcState
  <2> QED
    BY <1>a, <2>1, <2>2, <2>3, <2>4 DEF StepOf, HealthHeld, ItemRead, Task
<1>8. CASE CommitObservation(p)
  <2>1. \A q \in Procs \ {p} : proc[q].pc \notin {"locked", "ready"}
    BY <1>8, <1>a DEF CommitObservation, HealthHeld
  <2>2. PICK c \in SUBSET Documents : proc' = [proc EXCEPT ![p] = NextTask(p, c)]
    <3>1. proc[p].got \in Shas /\ proc[p].changed \in SUBSET Documents
      BY <1>8, <1>a DEF CommitObservation, Fetched, ProcState
    <3>2. proc[p].changed \cup {<<Task(p), proc[p].got>>} \in SUBSET Documents
      BY <1>a, <3>1, TaskIsItem DEF Documents
    <3> QED
      BY <1>8, <3>1, <3>2 DEF CommitObservation
  <2>3. proc'[p].pc \in AtRest
    BY <1>a, <2>2, NextTaskType
  <2> QED
    BY <1>a, <2>1, <2>3 DEF StepOf, HealthHeld, ItemRead, AtRest
<1>9. ASSUME NEW kind, RecordsFailure(kind), proc'[p].pc \notin {"locked", "ready"}
      PROVE  HealthHeld' /\ ItemRead'
  <2>1. \A q \in Procs : proc[q].pc \notin {"locked", "ready"}
    BY <1>9, <1>a DEF RecordsFailure, HealthHeld
  <2> QED
    BY <1>9, <1>a, <2>1 DEF StepOf, HealthHeld, ItemRead
<1>10. CASE Degrade(p)
  <2>1. proc'[p].pc \in AtRest
    BY <1>10, <1>a, NextTaskType DEF Degrade, ProcState
  <2> QED
    BY <1>10, <1>9, <2>1 DEF Degrade, AtRest
<1>11. CASE RecordFailure(p)
  BY <1>11, <1>9, <1>a DEF RecordFailure, IdleProc
<1>12. ASSUME NEW d \in Documents, PromotesNext(p, d)
       PROVE  HealthHeld' /\ ItemRead'
  <2>1. proc[p].changed \ {d} \in SUBSET Documents
    BY <1>a DEF ProcState
  <2>2. proc'[p].pc \in AtRest
    BY <1>12, <1>a, <2>1, FinishedType DEF PromotesNext
  <2> QED
    BY <1>12, <1>b, <2>2 DEF PromotesNext, AtRest, locks
<1> QED
  BY <1>1, <1>2, <1>3, <1>4, <1>5, <1>6, <1>7, <1>8, <1>10, <1>11, <1>12
     DEF ActionOf, Proceeds, Disturbs, Promote, PromotionFails

-----------------------------------------------------------------------------
LEMMA InvInit == Init => Inv
<1> SUFFICES ASSUME Init PROVE Inv
  OBVIOUS
<1>1. TypeOK
  BY IdleProcType DEF Init, TypeOK, Log!Init, Contents
<1>2. \A p \in Procs : proc[p].pc = "idle"
  BY DEF Init, IdleProc
<1> QED
  BY <1>1, <1>2 DEF Inv, Fetched, HealthHeld, ItemRead

LEMMA InvStep == Inv /\ [Next]_vars => Inv'
<1> SUFFICES ASSUME Inv, [Next]_vars PROVE Inv'
  OBVIOUS
<1>1. ASSUME NEW p \in Procs, ActionOf(p) PROVE Inv'
  <2>1. RestOK' /\ StepOf(p) /\ HealthHeld' /\ ItemRead'
    BY <1>1, StepsKeepRest, StepsKeepProcs, StepsKeepReads
  <2>2. TypeOK'
    BY <2>1 DEF RestOK, StepOf, TypeOK
  <2>3. Fetched'
    BY <2>1 DEF StepOf, Fetched, Inv
  <2> QED
    BY <2>1, <2>2, <2>3 DEF Inv
<1>2. ASSUME NEW i \in Items, WorldChanges(i) PROVE Inv'
  BY <1>2 DEF WorldChanges, Inv, TypeOK, Fetched, HealthHeld, ItemRead, Task, db, locks
<1>3. ASSUME NEW i \in Items, Reextract(i) PROVE Inv'
  <2>1. <<i, latest[i]>> \in Documents
    BY <1>3 DEF Reextract, Inv, TypeOK, Contents, Documents
  <2> QED
    BY <1>3, <2>1 DEF Reextract, Inv, TypeOK, Fetched, HealthHeld, ItemRead, Task, db, locks
<1>4. CASE UNCHANGED vars
  BY <1>4 DEF vars, db, locks, Inv, TypeOK, Fetched, HealthHeld, ItemRead, Task
<1> QED
  BY <1>1, <1>2, <1>3, <1>4 DEF Next, ActionOf

LEMMA Invariance == Spec => []Inv
  BY InvInit, InvStep, PTL DEF Spec

\* Every variable keeps the type its columns and fields allow, for any number
\* of checks of the source.
THEOREM ObservationTypes == Spec => []TypeOK
  BY Invariance, PTL DEF Inv

-----------------------------------------------------------------------------
LEMMA LogStep == Inv /\ [Next]_vars => [Log!Next]_(Log!logVars)
<1> SUFFICES ASSUME Inv, [Next]_vars PROVE [Log!Next]_(Log!logVars)
  OBVIOUS
<1> USE DEF Log!logVars
<1>1. ASSUME NEW p \in Procs, CommitObservation(p)
      PROVE  \E i \in Items, s \in Shas : Log!Observe(i, s)
  <2>1. proc[p] \in ProcState /\ proc[p].got \in Shas
    BY <1>1 DEF CommitObservation, Inv, TypeOK, Fetched
  <2>2. proc[p].count = failures /\ proc[p].prev = latest[Task(p)]
    BY <1>1 DEF CommitObservation, Inv, HealthHeld, ItemRead
  <2>3. Log!Observe(Task(p), proc[p].got)
    BY <1>1, <2>2 DEF CommitObservation, LatestAfter, Log!Observe
  <2> QED
    BY <2>1, <2>3, TaskIsItem
<1>2. ASSUME NEW kind, RecordsFailure(kind) PROVE Log!Fail(kind)
  BY <1>2 DEF RecordsFailure, Log!Fail
<1>3. ASSUME NEW p \in Procs, ActionOf(p) PROVE Log!Next \/ UNCHANGED Log!logVars
  BY <1>1, <1>2, <1>3
     DEF ActionOf, Proceeds, Disturbs, StartCheck, FetchLive, FetchFallsBack, FetchThrows,
         OpenTransaction, LockItem, Degrade, RecordFailure, Promote, PromotionFails, PromotesNext,
         Throws, FailureIsLost, Crash, db, Log!Next
<1>4. ASSUME NEW i \in Items, WorldChanges(i) \/ Reextract(i) PROVE UNCHANGED Log!logVars
  BY <1>4 DEF WorldChanges, Reextract, db
<1> QED
  BY <1>3, <1>4 DEF Next, ActionOf, vars, db

\* However many checks overlap, wherever they crash or throw, the entries they
\* leave in source_items, source_health and source_change_events are those of
\* a log written one entry at a time.
THEOREM ChecksImplementLog == Spec => ImplementsLog
<1>1. Init => Log!Init
  BY DEF Init
<1> QED
  BY <1>1, Invariance, LogStep, PTL DEF Spec, ImplementsLog, Log!LogSpec

-----------------------------------------------------------------------------
\* A step in which p takes no lock and ends no transaction.
LEMMA NestedWithoutLocks ==
  ASSUME Inv, LocksAreNested, NEW p \in Procs, ActionOf(p), UNCHANGED locks,
         proc[p].pc \notin {"locked", "ready"}
  PROVE  LocksAreNested'
<1>1. StepOf(p) /\ NoProc \notin Procs
  BY StepsKeepProcs, ObservationAssumption
<1>2. healthLock # NoProc => healthLock \in Procs /\ proc[healthLock].pc \in {"locked", "ready"}
  BY DEF LocksAreNested, Inv, TypeOK
<1>3. healthLock # NoProc => proc'[healthLock] = proc[healthLock]
  BY <1>1, <1>2 DEF StepOf
<1> QED
  BY <1>2, <1>3 DEF LocksAreNested, locks, Task, Inv, TypeOK

\* The end of a transaction, or of a check without one, frees what p had locked
\* and nothing else.
LEMMA NestedAfterUnlock ==
  ASSUME Inv, LocksAreNested, NEW p \in Procs, ActionOf(p), Unlocks(p)
  PROVE  LocksAreNested'
<1>1. StepOf(p) /\ NoProc \notin Procs
  BY StepsKeepProcs, ObservationAssumption
<1>2. CASE healthLock = p
  BY <1>1, <1>2 DEF LocksAreNested, Unlocks
<1>3. CASE healthLock # p
  <2>1. healthLock' = healthLock /\ \A i \in Items : itemLock'[i] = itemLock[i]
    BY <1>1, <1>3 DEF LocksAreNested, Unlocks
  <2>2. healthLock # NoProc => healthLock \in Procs /\ proc'[healthLock] = proc[healthLock]
    BY <1>1, <1>3 DEF StepOf, Inv, TypeOK
  <2> QED
    BY <2>1, <2>2 DEF LocksAreNested, Task
<1> QED
  BY <1>2, <1>3

LEMMA NestedStep == Inv /\ LocksAreNested /\ [Next]_vars => LocksAreNested'
<1> SUFFICES ASSUME Inv, LocksAreNested, [Next]_vars PROVE LocksAreNested'
  OBVIOUS
<1>1. ASSUME NEW p \in Procs, ActionOf(p) PROVE LocksAreNested'
  <2>a. /\ StepOf(p) /\ NoProc \notin Procs
        /\ proc \in [Procs -> ProcState] /\ itemLock \in [Items -> Procs \cup {NoProc}]
        /\ Task(p) \in Items
    BY <1>1, StepsKeepProcs, TaskIsItem, ObservationAssumption DEF Inv, TypeOK
  <2>1. CASE OpenTransaction(p)
    <3>1. proc'[p].pc = "locked" /\ healthLock' = p /\ healthLock = NoProc /\ itemLock' = itemLock
      BY <2>1, <2>a DEF OpenTransaction, ProcState
    <3>2. \A i \in Items : itemLock[i] = NoProc
      BY <3>1 DEF LocksAreNested
    <3> QED
      BY <3>1, <3>2 DEF LocksAreNested
  <2>2. CASE LockItem(p)
    <3>1. healthLock = p /\ healthLock' = p /\ proc[p].pc = "locked"
      BY <2>2 DEF LockItem, Inv, HealthHeld
    <3>2. \A i \in Items : itemLock[i] = NoProc
      BY <3>1 DEF LocksAreNested
    <3>3. /\ itemLock' = [itemLock EXCEPT ![Task(p)] = p]
          /\ proc'[p].pc = "ready" /\ proc'[p].at = proc[p].at
      BY <2>2, <2>a DEF LockItem, ProcState
    <3> QED
      BY <2>a, <3>1, <3>2, <3>3 DEF LocksAreNested, Task
  <2>3. CASE CommitObservation(p) \/ Throws(p) \/ Crash(p)
    BY <1>1, <2>3, NestedAfterUnlock DEF CommitObservation, Throws, Crash
  <2>4. CASE proc[p].pc \notin {"locked", "ready"} /\ UNCHANGED locks
    BY <1>1, <2>4, NestedWithoutLocks
  <2> QED
    BY <1>1, <2>1, <2>2, <2>3, <2>4
       DEF ActionOf, Proceeds, Disturbs, StartCheck, FetchLive, FetchFallsBack, FetchThrows, Degrade,
           RecordFailure, RecordsFailure, Promote, PromotionFails, PromotesNext, FailureIsLost
<1>2. ASSUME UNCHANGED <<locks, proc>> PROVE LocksAreNested'
  BY <1>2 DEF locks, LocksAreNested, Task
<1> QED
  BY <1>1, <1>2 DEF Next, ActionOf, WorldChanges, Reextract, vars

\* Overlapping checks never wait for each other in a circle, and a crash, an
\* exception or a commit leaves no lock behind.
THEOREM LocksNest == Spec => []LocksAreNested
<1>1. Init => LocksAreNested
  BY DEF Init, LocksAreNested
<1> QED
  BY <1>1, Invariance, NestedStep, PTL DEF Spec

-----------------------------------------------------------------------------
\* The checks that catch up (SourceObservationLive) take no step the source
\* does not allow otherwise, so that all of the above holds of them.
THEOREM LiveIsOrdinary == LiveSpec => Spec
<1>1. LiveInit => Init
  BY DEF LiveInit
<1>2. [LiveNext]_liveVars => [Next]_vars
  BY DEF LiveNext, liveVars, CalmsDown, GoesOn, Next
<1>3. QED
  BY <1>1, <1>2, PTL DEF LiveSpec, Spec
=============================================================================
