----------------------- MODULE GraphProjection_proofs -----------------------
(***************************************************************************)
(* Safety of the graph projection for any number of edges, entities and    *)
(* processes: the types, and the unique active retry job.                  *)
(***************************************************************************)
EXTENDS GraphProjection, TLAPS

\* A process in the middle of a rebuild is never at a step of a sync.
ProcGood(x) ==
    /\ x \in ProcState
    /\ x.edge = NoEdge <=> x.pc = "idle" \/ x.kind = "rebuild"
    /\ x.kind = "rebuild" => x.pc \in {"nodes", "listing", "edges"}

Stores == /\ truth \in [Edges -> EdgeRow]
          /\ graph \in [Edges -> Nat]
          /\ nodes \in SUBSET Nodes
          /\ job \in [Rows -> JobRow]

Processes == /\ proc \in [Procs -> ProcState]
             /\ \A p \in Procs : ProcGood(proc[p])

IInv == Stores /\ Processes /\ OneActiveRow

\* What a process is after it was started, has returned, or was abandoned.
LEMMA IdleGood ==
    /\ ProcGood(IdleProc)
    /\ \A R \in SUBSET Rows : ProcGood([IdleProc EXCEPT !.kind = "retry", !.rest = R])
<1>1. NoList \in [Edges -> Nat]
  BY DEF NoList
<1>2. IdleProc \in ProcState
  BY <1>1, Zenon DEF IdleProc, ProcState, Ops
<1>3. ASSUME NEW R \in SUBSET Rows PROVE [IdleProc EXCEPT !.kind = "retry", !.rest = R] \in ProcState
  BY <1>1 DEF IdleProc, ProcState, Ops
<1>4. QED
  BY <1>2, <1>3 DEF ProcGood, IdleProc

\* Replacing one good process by another keeps the processes good.
LEMMA OneChanges ==
    ASSUME Processes, NEW p \in Procs, NEW x, ProcGood(x), proc' = [proc EXCEPT ![p] = x]
    PROVE  Processes'
BY DEF Processes, ProcGood

\* Returning to the caller, or to the loop over the batch.
LEMMA ReturnsGood == ASSUME Processes, NEW p \in Procs, Returns(p) PROVE Processes'
<1>1. proc[p].rest \in SUBSET Rows
  BY DEF Processes, ProcState
<1>2. QED
  BY <1>1, IdleGood, OneChanges DEF Returns

\* Going to another step of a sync.
LEMMA GoesGood ==
    ASSUME Processes, NEW p \in Procs, proc[p].pc # "idle", proc[p].kind # "rebuild",
           NEW pc \in {"removing", "settling", "failing"}, Goes(p, pc)
    PROVE  Processes'
<1> DEFINE x == [proc[p] EXCEPT !.pc = pc]
<1>1. proc[p] \in ProcState /\ ProcGood(proc[p])
  BY DEF Processes
<1>2. x \in ProcState
  BY <1>1 DEF ProcState
<1>3. ProcGood(x)
  BY <1>1, <1>2 DEF ProcGood, ProcState
<1>4. proc' = [proc EXCEPT ![p] = x]
  BY DEF Goes
<1>5. QED
  BY <1>3, <1>4, OneChanges

\* Starting apply, deprecate, a retry or a rebuild keeps the processes good.
LEMMA BeginsGood == ASSUME Processes, NEW p \in Procs, Begins(p) PROVE Processes'
<1>1. ASSUME NEW e \in Edges, NEW pc \in {"reading", "removing"}, NEW op \in Ops,
             Starts(p, pc, "sync", op, e)
      PROVE  Processes'
  <2> DEFINE x == [IdleProc EXCEPT !.pc = pc, !.kind = "sync", !.op = op, !.edge = e]
  <2>1. x \in ProcState
    BY IdleGood DEF ProcGood, ProcState
  <2>2. ProcGood(x)
    BY <2>1, GraphAssumption, IdleGood DEF ProcGood, ProcState
  <2>3. proc' = [proc EXCEPT ![p] = x]
    BY <1>1 DEF Starts, Idle
  <2>4. QED
    BY <2>2, <2>3, OneChanges
<1>2. ASSUME NEW C \in SUBSET Rows, StartRetry(p, C) PROVE Processes'
  <2>1. proc' = [proc EXCEPT ![p] = [IdleProc EXCEPT !.kind = "retry", !.rest = C]]
    BY <1>2 DEF StartRetry, Idle
  <2>2. QED
    BY <2>1, IdleGood, OneChanges
<1>3. CASE ClearGraph(p)
  <2> DEFINE x == [IdleProc EXCEPT !.pc = "nodes", !.kind = "rebuild", !.todo = Nodes]
  <2>1. x \in ProcState
    BY IdleGood DEF ProcGood, ProcState
  <2>2. ProcGood(x)
    BY <2>1, IdleGood DEF ProcGood, ProcState, IdleProc
  <2>3. proc' = [proc EXCEPT ![p] = x]
    BY <1>3 DEF ClearGraph, Idle
  <2>4. QED
    BY <2>2, <2>3, OneChanges
<1>4. QED
  BY <1>1, <1>2, <1>3 DEF Begins, Apply, Deprecate, Ops

\* A step of a method that runs keeps the processes good.
LEMMA ProceedsGood ==
    ASSUME Stores, Processes, NEW p \in Procs, Proceeds(p) \/ GraphFails(p) \/ Disturbs(p)
    PROVE  Processes'
<1>1. proc[p] \in ProcState /\ ProcGood(proc[p])
  BY DEF Processes
<1>2. NoList \in [Edges -> Nat]
  BY DEF NoList
<1>3. CASE ReadEdge(p)
  <2> DEFINE e == proc[p].edge
             x == [proc[p] EXCEPT !.pc = "nodes", !.todo = Ends[e],
                                  !.list = [NoList EXCEPT ![e] = truth[e].version]]
  <2>1. e \in Edges /\ proc[p].kind # "rebuild" /\ proc[p].pc # "idle"
    BY <1>1, <1>3 DEF ReadEdge, ProcGood, ProcState
  <2>2. Ends[e] \in SUBSET Nodes /\ truth[e].version \in Nat
    BY <2>1, GraphAssumption DEF Stores, EdgeRow
  <2>3. [NoList EXCEPT ![e] = truth[e].version] \in [Edges -> Nat]
    BY <1>2, <2>2
  <2>4. CASE proc' = [proc EXCEPT ![p] = x]
    <3>1. x \in ProcState
      BY <1>1, <2>2, <2>3 DEF ProcState
    <3>2. x.edge = proc[p].edge /\ x.kind = proc[p].kind /\ x.pc = "nodes"
      BY <1>1 DEF ProcState
    <3>3. ProcGood(x)
      BY <2>1, <3>1, <3>2, GraphAssumption DEF ProcGood
    <3>4. QED
      BY <2>4, <3>3, OneChanges
  <2>5. CASE Goes(p, "removing")
    BY <2>1, <2>5, GoesGood
  <2>6. QED
    BY <1>3, <2>4, <2>5 DEF ReadEdge
<1>4. ASSUME NEW n \in Nodes, UpsertEntity(p, n) PROVE Processes'
  <2> DEFINE pc == IF proc[p].todo # {n} THEN "nodes"
                   ELSE IF proc[p].kind = "rebuild" THEN "listing" ELSE "edges"
             x == [proc[p] EXCEPT !.todo = @ \ {n}, !.pc = pc]
  <2>1. x \in ProcState
    BY <1>1 DEF ProcState
  <2>2. x.edge = proc[p].edge /\ x.kind = proc[p].kind /\ x.pc \in {"nodes", "listing", "edges"}
    BY <1>1 DEF ProcState
  <2>3. ProcGood(x)
    BY <1>1, <1>4, <2>1, <2>2 DEF ProcGood, UpsertEntity
  <2>4. proc' = [proc EXCEPT ![p] = x]
    BY <1>4 DEF UpsertEntity
  <2>5. QED
    BY <2>3, <2>4, OneChanges
<1>5. CASE ListEdges(p)
  <2> DEFINE L == [e \in Edges |-> IF Current(e) THEN truth[e].version ELSE 0]
             x == [proc[p] EXCEPT !.pc = "edges", !.list = L]
  <2>1. L \in [Edges -> Nat]
    BY DEF Stores, EdgeRow
  <2>2. x \in ProcState
    BY <1>1, <2>1 DEF ProcState
  <2>3. x.edge = proc[p].edge /\ x.kind = proc[p].kind /\ x.pc = "edges"
    BY <1>1 DEF ProcState
  <2>4. ProcGood(x)
    BY <1>1, <1>5, <2>2, <2>3 DEF ProcGood, ListEdges
  <2>5. proc' = [proc EXCEPT ![p] = x]
    BY <1>5 DEF ListEdges
  <2>6. QED
    BY <2>4, <2>5, OneChanges
<1>6. ASSUME NEW e \in Edges, UpsertEdge(p, e) PROVE Processes'
  <2> DEFINE pc == IF proc[p].kind = "rebuild" THEN "edges" ELSE "settling"
             x == [proc[p] EXCEPT !.list[e] = 0, !.pc = pc]
  <2>1. x \in ProcState
    BY <1>1 DEF ProcState
  <2>2. x.edge = proc[p].edge /\ x.kind = proc[p].kind /\ x.pc = pc
    BY <1>1 DEF ProcState
  <2>3. ProcGood(x)
    BY <1>1, <1>6, <2>1, <2>2 DEF ProcGood, UpsertEdge
  <2>4. proc' = [proc EXCEPT ![p] = x]
    BY <1>6 DEF UpsertEdge
  <2>5. QED
    BY <2>3, <2>4, OneChanges
<1>7. CASE RemoveEdge(p)
  BY <1>1, <1>7, GoesGood DEF RemoveEdge, ProcGood
<1>8. CASE Settle(p)
  BY <1>1, <1>8, GoesGood, ReturnsGood DEF Settle, ProcGood
<1>9. CASE RecordFailure(p) \/ MarkFailed(p) \/ FailureIsLost(p)
  BY <1>9, ReturnsGood DEF RecordFailure, MarkFailed, FailureIsLost
<1>10. ASSUME NEW r \in Rows, NextJob(p, r) PROVE Processes'
  <2> DEFINE x == [proc[p] EXCEPT !.pc = IF OpOf[r] = "upsert_edge" THEN "reading" ELSE "removing",
                                  !.op = OpOf[r], !.edge = EdgeOf[r],
                                  !.row = r, !.rest = @ \ {r}]
  <2>1. OpOf[r] \in Ops /\ EdgeOf[r] \in Edges
    BY GraphAssumption
  <2>2. x \in ProcState
    BY <1>1, <2>1 DEF ProcState
  <2>3. /\ x.edge = EdgeOf[r] /\ x.kind = proc[p].kind
        /\ x.pc \in {"reading", "removing"}
    BY <1>1 DEF ProcState
  <2>4. proc[p].kind # "rebuild"
    BY <1>1, <1>10 DEF NextJob, ProcGood
  <2>5. ProcGood(x)
    BY <2>1, <2>2, <2>3, <2>4, GraphAssumption DEF ProcGood
  <2>6. proc' = [proc EXCEPT ![p] = x]
    BY <1>10 DEF NextJob
  <2>7. QED
    BY <2>5, <2>6, OneChanges
<1>11. CASE GraphFails(p) /\ proc[p].kind # "rebuild"
  <2> DEFINE x == [proc[p] EXCEPT !.pc = "failing", !.todo = {}, !.list = NoList]
  <2>1. x \in ProcState
    BY <1>1, <1>2 DEF ProcState
  <2>2. x.edge = proc[p].edge /\ x.kind = proc[p].kind /\ x.pc = "failing"
    BY <1>1 DEF ProcState
  <2>3. ProcGood(x)
    BY <1>1, <1>11, <2>1, <2>2 DEF ProcGood, GraphFails
  <2>4. proc' = [proc EXCEPT ![p] = x]
    BY <1>11 DEF GraphFails
  <2>5. QED
    BY <2>3, <2>4, OneChanges
<1>12. ASSUME proc' = [proc EXCEPT ![p] = IdleProc] PROVE Processes'
  BY <1>12, IdleGood, OneChanges
<1>13. QED
  BY <1>3, <1>4, <1>5, <1>6, <1>7, <1>8, <1>9, <1>10, <1>11, <1>12
     DEF Proceeds, Disturbs, GraphFails, FinishRebuild, MarkFailedThrows, Crash

-----------------------------------------------------------------------------
\* Each way the job table changes keeps it typed and its index unique.
LEMMA DelayKeeps ==
    ASSUME job \in [Rows -> JobRow], OneActiveRow, NEW r \in Rows,
           NEW s \in {"pending", "failed"}, Delay(r, s), IndexAllows(r)
    PROVE  job' \in [Rows -> JobRow] /\ OneActiveRow'
<1>1. job' = [job EXCEPT ![r] = [status |-> s, next |-> "later"]]
  BY DEF Delay
<1>2. [status |-> s, next |-> "later"] \in JobRow
  BY DEF JobRow, Statuses, ActiveStatuses
<1>3. job' \in [Rows -> JobRow]
  BY <1>1, <1>2
<1>4. \A i \in Rows : /\ i # r => job'[i] = job[i]
                      /\ job'[r].status \in ActiveStatuses
  BY <1>1 DEF ActiveStatuses
<1>5. \A i \in Rows : i # r /\ OpOf[i] = OpOf[r] /\ EdgeOf[i] = EdgeOf[r] => ~Active(i)
  BY DEF IndexAllows, ActiveRows, Of
<1>6. ASSUME NEW i \in Rows, NEW k \in Rows, job'[i].status \in ActiveStatuses,
             job'[k].status \in ActiveStatuses, OpOf[i] = OpOf[k], EdgeOf[i] = EdgeOf[k]
      PROVE  i = k
  <2>1. CASE i # r /\ k # r
    BY <1>4, <1>6, <2>1 DEF OneActiveRow, ActiveRows, Of, Active
  <2>2. CASE i = r \/ k = r
    BY <1>4, <1>5, <1>6, <2>2 DEF Active
  <2>3. QED
    BY <2>1, <2>2
<1>7. QED
  BY <1>3, <1>6 DEF OneActiveRow, ActiveRows, Of, Active

\* Marking rows succeeded, claiming rows and waiting make no row active.
LEMMA NoNewActive ==
    ASSUME OneActiveRow, \A r \in Rows : job'[r].status \in ActiveStatuses => Active(r)
    PROVE  OneActiveRow'
BY DEF OneActiveRow, ActiveRows, Of, Active

\* Every step keeps the job table.
LEMMA JobsKeep ==
    ASSUME Stores, OneActiveRow, Next
    PROVE  job' \in [Rows -> JobRow] /\ OneActiveRow'
<1> USE DEF Stores
<1>1. ASSUME NEW p \in Procs, NEW R, SucceedRows(R) PROVE job' \in [Rows -> JobRow] /\ OneActiveRow'
  <2>1. \A r \in Rows : job'[r] \in JobRow /\ (job'[r].status \in ActiveStatuses => Active(r))
    BY <1>1 DEF SucceedRows, Active, JobRow, Statuses, ActiveStatuses
  <2>2. QED
    BY <1>1, <2>1, NoNewActive DEF SucceedRows
<1>2. ASSUME NEW p \in Procs, NEW C \in SUBSET Rows, StartRetry(p, C)
      PROVE  job' \in [Rows -> JobRow] /\ OneActiveRow'
  <2>1. \A r \in Rows : job'[r] \in JobRow /\ (job'[r].status \in ActiveStatuses => Active(r))
    BY <1>2 DEF StartRetry, Claimable, Active, JobRow, Statuses, ActiveStatuses
  <2>2. QED
    BY <1>2, <2>1, NoNewActive DEF StartRetry
<1>3. ASSUME NEW r \in Rows, BecomesDue(r) PROVE job' \in [Rows -> JobRow] /\ OneActiveRow'
  <2>1. \A i \in Rows : job'[i] \in JobRow /\ (job'[i].status \in ActiveStatuses => Active(i))
    BY <1>3 DEF BecomesDue, Active, JobRow
  <2>2. QED
    BY <1>3, <2>1, NoNewActive DEF BecomesDue
<1>4. ASSUME NEW p \in Procs, RecordFailure(p) PROVE job' \in [Rows -> JobRow] /\ OneActiveRow'
  <2> DEFINE A == ActiveRows(proc[p].op, proc[p].edge)
             F == Free(proc[p].op, proc[p].edge)
  <2>1. PICK r \in IF A # {} THEN A ELSE F : Delay(r, "pending")
    BY <1>4 DEF RecordFailure
  <2>2. r \in Rows /\ OpOf[r] = proc[p].op /\ EdgeOf[r] = proc[p].edge
    BY <2>1 DEF ActiveRows, Free, Of
  <2>3. IndexAllows(r)
    <3>1. CASE A # {}
      BY <2>1, <2>2, <3>1 DEF IndexAllows, OneActiveRow, ActiveRows, Of
    <3>2. CASE A = {}
      BY <2>2, <3>2 DEF IndexAllows
    <3>3. QED
      BY <3>1, <3>2
  <2>4. QED
    BY <2>1, <2>2, <2>3, DelayKeeps
<1>5. ASSUME NEW p \in Procs, MarkFailed(p) PROVE job' \in [Rows -> JobRow] /\ OneActiveRow'
  <2>1. CASE proc[p].row \in Rows
    BY <1>5, <2>1, DelayKeeps DEF MarkFailed
  <2>2. CASE proc[p].row \notin Rows
    <3>1. job' = job
      BY <1>5, <2>2 DEF MarkFailed, Delay
    <3>2. QED
      BY <3>1, NoNewActive DEF Active
  <2>3. QED
    BY <2>1, <2>2
<1>6. ASSUME UNCHANGED job PROVE job' \in [Rows -> JobRow] /\ OneActiveRow'
  BY <1>6, NoNewActive DEF Active
<1>7. ASSUME NEW p \in Procs, Begins(p) PROVE job' \in [Rows -> JobRow] /\ OneActiveRow'
  BY <1>2, <1>6, <1>7 DEF Begins, Apply, Deprecate, ClearGraph
<1>8. ASSUME NEW p \in Procs, Proceeds(p) PROVE job' \in [Rows -> JobRow] /\ OneActiveRow'
  BY <1>1, <1>4, <1>5, <1>6, <1>8
     DEF Proceeds, ReadEdge, UpsertEntity, ListEdges, UpsertEdge, RemoveEdge, Settle, NextJob,
         FinishRebuild
<1>9. ASSUME NEW p \in Procs, GraphFails(p) \/ Disturbs(p) PROVE job' \in [Rows -> JobRow] /\ OneActiveRow'
  BY <1>6, <1>9 DEF GraphFails, Disturbs, FailureIsLost, MarkFailedThrows, Crash
<1>10. QED
  BY <1>3, <1>6, <1>7, <1>8, <1>9 DEF Next, DeferredWrite

\* Every step keeps the edges table and the graph store typed.
LEMMA StoresKeep ==
    ASSUME Stores, Processes, Next
    PROVE  truth' \in [Edges -> EdgeRow] /\ graph' \in [Edges -> Nat] /\ nodes' \in SUBSET Nodes
<1> USE DEF Stores
<1>1. ASSUME NEW e \in Edges, Approve(e) \/ Retire(e) PROVE truth' \in [Edges -> EdgeRow]
  <2> DEFINE n == truth[e].version + 1
  <2>1. truth[e] \in EdgeRow /\ n \in Nat
    BY DEF EdgeRow
  <2> HIDE DEF n
  <2>2. [truth[e] EXCEPT !.validity = "current", !.version = n] \in EdgeRow
    BY <2>1 DEF EdgeRow
  <2>3. [truth[e] EXCEPT !.validity = "deprecated"] \in EdgeRow
    BY <2>1 DEF EdgeRow
  <2>4. CASE Approve(e)
    BY <2>2, <2>4 DEF Approve, n
  <2>5. CASE Retire(e)
    BY <2>3, <2>5 DEF Retire
  <2>6. QED
    BY <1>1, <2>4, <2>5
<1>2. ASSUME UNCHANGED <<truth, graph, nodes>>
      PROVE  truth' \in [Edges -> EdgeRow] /\ graph' \in [Edges -> Nat] /\ nodes' \in SUBSET Nodes
  BY <1>2
<1>3. ASSUME NEW p \in Procs, Begins(p)
      PROVE  truth' \in [Edges -> EdgeRow] /\ graph' \in [Edges -> Nat] /\ nodes' \in SUBSET Nodes
  BY <1>1, <1>2, <1>3 DEF Begins, Apply, Deprecate, StartRetry, ClearGraph, NoList
<1>4. ASSUME NEW p \in Procs, Proceeds(p)
      PROVE  truth' \in [Edges -> EdgeRow] /\ graph' \in [Edges -> Nat] /\ nodes' \in SUBSET Nodes
  <2>1. ASSUME NEW n \in Nodes, UpsertEntity(p, n) PROVE nodes' \in SUBSET Nodes
    BY <2>1 DEF UpsertEntity
  <2>2. ASSUME NEW e \in Edges, UpsertEdge(p, e) PROVE graph' \in [Edges -> Nat]
    BY <2>2 DEF UpsertEdge, Processes, ProcState
  <2>3. ASSUME RemoveEdge(p) PROVE graph' \in [Edges -> Nat]
    BY <2>3 DEF RemoveEdge
  <2>4. QED
    BY <1>2, <1>4, <2>1, <2>2, <2>3
       DEF Proceeds, ReadEdge, ListEdges, Settle, RecordFailure, MarkFailed, NextJob,
           FinishRebuild, UpsertEntity, UpsertEdge, RemoveEdge
<1>5. ASSUME NEW p \in Procs, GraphFails(p) \/ Disturbs(p)
      PROVE  truth' \in [Edges -> EdgeRow] /\ graph' \in [Edges -> Nat] /\ nodes' \in SUBSET Nodes
  BY <1>2, <1>5 DEF GraphFails, Disturbs, FailureIsLost, MarkFailedThrows, Crash
<1>6. QED
  BY <1>1, <1>2, <1>3, <1>4, <1>5 DEF Next, DeferredWrite, BecomesDue

-----------------------------------------------------------------------------
LEMMA GraphInit == Init => IInv
<1> SUFFICES ASSUME Init PROVE IInv
  OBVIOUS
<1>1. Stores
  BY DEF Init, Stores, EdgeRow, JobRow, Statuses, NoList
<1>2. Processes
  BY IdleGood DEF Init, Processes, ProcGood
<1>3. OneActiveRow
  BY DEF Init, OneActiveRow, Active, ActiveStatuses
<1>4. QED
  BY <1>1, <1>2, <1>3 DEF IInv

LEMMA GraphStep == IInv /\ [Next]_vars => IInv'
<1> SUFFICES ASSUME IInv, [Next]_vars PROVE IInv'
  OBVIOUS
<1>1. CASE UNCHANGED vars
  BY <1>1 DEF vars, IInv, Stores, Processes, OneActiveRow, ActiveRows, Of, Active
<1>2. CASE Next
  <2>1. Processes'
    <3>1. ASSUME UNCHANGED proc PROVE Processes'
      BY <3>1 DEF IInv, Processes
    <3>2. QED
      BY <1>2, <3>1, BeginsGood, ProceedsGood DEF IInv, Next, DeferredWrite, BecomesDue
  <2>2. QED
    BY <1>2, <2>1, JobsKeep, StoresKeep DEF IInv, Stores
<1>3. QED
  BY <1>1, <1>2

\* The inductive invariant holds in every reachable state.
THEOREM GraphInvariance == Spec => []IInv
BY GraphInit, GraphStep, PTL DEF Spec

\* The tables, the graph store and the processes keep their types.
THEOREM GraphTypeCorrect == Spec => []TypeOK
<1>1. IInv => TypeOK
  BY DEF IInv, Stores, Processes, ProcGood, TypeOK
<1>2. QED
  BY <1>1, GraphInvariance, PTL

\* No two retry jobs of one operation and edge are ever active, although a
\* stale retry marks its row without looking at it.
THEOREM OneActiveRowHolds == Spec => []OneActiveRow
BY GraphInvariance, PTL DEF IInv

-----------------------------------------------------------------------------
\* The edges table of the projection changes as the register of edges does.
THEOREM TruthImplementsRegister == Spec => ImplementsRegister
<1>1. Init => Register!RegisterInit
  BY DEF Init, Register!RegisterInit, Register!NeverWritten
<1>2. IInv /\ [Next]_vars => [Register!RegisterNext]_truth
  <2> SUFFICES ASSUME IInv, Next PROVE Register!RegisterNext \/ UNCHANGED truth
    BY DEF vars
  <2>1. ASSUME NEW e \in Edges, Approve(e) PROVE Register!Write(e)
    <3>1. truth[e] \in EdgeRow /\ truth \in [Edges -> EdgeRow]
      BY DEF IInv, Stores
    <3>2. QED
      BY <2>1, <3>1 DEF Approve, Register!Write, EdgeRow
  <2>2. ASSUME NEW e \in Edges, Retire(e) PROVE Register!Retire(e)
    <3>1. truth[e] \in EdgeRow /\ truth \in [Edges -> EdgeRow]
      BY DEF IInv, Stores
    <3>2. [truth[e] EXCEPT !.validity = "deprecated"] = [validity |-> "deprecated", version |-> truth[e].version]
      BY <3>1 DEF EdgeRow
    <3>3. QED
      BY <2>2, <3>2 DEF Retire, Current, Register!Retire
  <2>3. ASSUME NEW p \in Procs, Begins(p) PROVE Register!RegisterNext \/ UNCHANGED truth
    BY <2>1, <2>2, <2>3 DEF Begins, Apply, Deprecate, StartRetry, ClearGraph, Register!RegisterNext
  <2>4. ASSUME NEW p \in Procs, Proceeds(p) PROVE UNCHANGED truth
    BY <2>4 DEF Proceeds, ReadEdge, ListEdges, Settle, RecordFailure, MarkFailed, NextJob,
                FinishRebuild, UpsertEntity, UpsertEdge, RemoveEdge
  <2>5. ASSUME NEW p \in Procs, GraphFails(p) \/ Disturbs(p) PROVE UNCHANGED truth
    BY <2>5 DEF GraphFails, Disturbs, FailureIsLost, MarkFailedThrows, Crash
  <2>6. ASSUME NEW e \in Edges, DeferredWrite(e) PROVE Register!RegisterNext
    BY <2>1, <2>2, <2>6 DEF DeferredWrite, Register!RegisterNext
  <2>7. QED
    BY <2>3, <2>4, <2>5, <2>6 DEF Next, BecomesDue
<1>3. QED
  BY <1>1, <1>2, GraphInvariance, PTL DEF Spec, ImplementsRegister, Register!RegisterSpec

\* The graph store shows version 0 of an edge only when it has none, because no
\* written edge has that version.
THEOREM ShownVersionsAreWritten == Spec => []Register!WrittenIsNumbered
<1>1. Register!RegisterInit => Register!WrittenIsNumbered
  BY DEF Register!RegisterInit, Register!NeverWritten, Register!WrittenIsNumbered
<1>2. IInv /\ Register!WrittenIsNumbered /\ [Register!RegisterNext]_truth => Register!WrittenIsNumbered'
  <2> SUFFICES ASSUME IInv, Register!WrittenIsNumbered, Register!RegisterNext
               PROVE  Register!WrittenIsNumbered'
    BY DEF Register!WrittenIsNumbered
  <2>1. truth \in [Edges -> EdgeRow]
    BY DEF IInv, Stores
  <2>2. PICK e \in Edges : Register!Write(e) \/ Register!Retire(e)
    BY DEF Register!RegisterNext
  <2>3. QED
    BY <2>1, <2>2 DEF Register!WrittenIsNumbered, Register!Write, Register!Retire
<1>3. QED
  BY <1>1, <1>2, GraphInvariance, TruthImplementsRegister, PTL DEF ImplementsRegister, Register!RegisterSpec
=============================================================================
