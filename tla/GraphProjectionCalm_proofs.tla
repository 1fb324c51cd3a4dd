--------------------- MODULE GraphProjectionCalm_proofs ---------------------
(***************************************************************************)
(* After one rebuild in calm, every difference between the graph store and *)
(* Postgres is accounted for - for any number of edges, entities, jobs and *)
(* processes, and whatever the disturbances left behind.                   *)
(*                                                                         *)
(* The argument has three parts.  RemovalsAreFinal holds from the start:   *)
(* a job that removes an edge exists only for an edge that was deprecated, *)
(* and no candidate is ever applied to such an edge again.  Careful holds  *)
(* in calm: the one process that works knows the truth about its edge,     *)
(* unless a deferred write overtook it, which is then still to be seen.    *)
(* Repaired holds after the rebuild: no endpoint is missing, so the MERGE  *)
(* of an edge really writes it.                                            *)
(***************************************************************************)
EXTENDS GraphProjectionCalm, GraphProjection_proofs

Deprecated(e) == truth[e].validity = "deprecated"

\* What a process means to remove is deprecated, and a retry projects the edge
\* of its row.
RemovalGood(x) ==
    /\ \A r \in x.rest : OpOf[r] = "remove_edge" => Deprecated(EdgeOf[r])
    /\ x.edge # NoEdge /\ x.op = "remove_edge" => Deprecated(x.edge)
    /\ x.edge # NoEdge /\ x.kind = "retry" =>
          x.row \in Rows /\ OpOf[x.row] = x.op /\ EdgeOf[x.row] = x.edge

RemovalJobs ==
    \A r \in Rows : OpOf[r] = "remove_edge" /\ job[r].status # "absent" => Deprecated(EdgeOf[r])

RemovalsAreFinal == RemovalJobs /\ \A p \in Procs : RemovalGood(proc[p])

\* The graph store is right about the edge, or it is known to be behind.
Shown(e) == Agrees(e) \/ e \in deferred

\* What the process is about to write is right, or known to be behind.
Fresh(x, e) == (Current(e) /\ x.list[e] = truth[e].version) \/ e \in deferred

\* A process that upserts its edge knows the version Postgres has, and one
\* that removes it knows that it is not current.
SyncKnows(x) ==
    x.kind # "rebuild" =>
        /\ x.pc # "listing"
        /\ x.pc = "removing" => ~Current(x.edge) \/ x.edge \in deferred
        /\ x.pc \in {"nodes", "edges"} =>
              \A e \in Edges : x.list[e] # 0 => e = x.edge /\ Fresh(x, e)

\* The entities and edges a rebuild has still to write are those that are
\* missing since it cleared the graph store.
RebuildKnows(x) ==
    x.kind = "rebuild" =>
        /\ x.pc \in {"nodes", "listing"} => graph = NoList
        /\ Nodes \subseteq nodes \cup (IF x.pc = "nodes" THEN x.todo ELSE {})
        /\ x.pc = "edges" => \A e \in Edges :
              IF x.list[e] = 0 THEN Shown(e) ELSE Fresh(x, e)

Knows(x) == SyncKnows(x) /\ RebuildKnows(x)

Solo(p) == \A q \in Procs \ {p} : Idle(q)

Careful == /\ \A p \in Procs : ~Idle(p) => Solo(p)
           /\ \A p \in Procs : Knows(proc[p])

\* An edge a process is about to settle is shown.
AtWork(x) == /\ x.kind # "rebuild"
             /\ x.pc = "settling" => Shown(x.edge)

Repaired == /\ stage # "disturbed"
            /\ Nodes \subseteq nodes
            /\ \A p \in Procs : AtWork(proc[p])

CInv == /\ IInv
        /\ RemovalsAreFinal
        /\ stage # "disturbed" => Careful
        /\ restored = "yes" => Repaired
        /\ Accounted

-----------------------------------------------------------------------------
\* A deprecated edge stays deprecated.
LEMMA DeprecatedStays ==
    ASSUME IInv, Next, NEW e \in Edges, Deprecated(e)
    PROVE  Deprecated(e)'
<1>1. ASSUME NEW f \in Edges, Approve(f) \/ Retire(f) PROVE Deprecated(e)'
  BY <1>1 DEF IInv, Stores, EdgeRow, Approve, Retire, Current, Deprecated
<1>2. ASSUME NEW p \in Procs, Begins(p) PROVE Deprecated(e)'
  BY <1>1, <1>2 DEF Begins, Apply, Deprecate, StartRetry, ClearGraph, Deprecated
<1>3. ASSUME NEW p \in Procs, Proceeds(p) \/ GraphFails(p) \/ Disturbs(p) PROVE Deprecated(e)'
  BY <1>3 DEF Proceeds, ReadEdge, UpsertEntity, ListEdges, UpsertEdge, RemoveEdge, Settle,
              RecordFailure, MarkFailed, NextJob, FinishRebuild, GraphFails, Disturbs,
              FailureIsLost, MarkFailedThrows, Crash, Deprecated
<1>4. QED
  BY <1>1, <1>2, <1>3 DEF Next, DeferredWrite, BecomesDue, Deprecated

\* A process after it returned to its caller or to the loop over its batch.
LEMMA Returned ==
    ASSUME IInv, NEW p \in Procs, Returns(p)
    PROVE  /\ proc'[p].pc = "idle" /\ proc'[p].edge = NoEdge
           /\ proc'[p].kind # "rebuild" /\ proc'[p].rest = proc[p].rest
BY DEF IInv, Processes, Returns, IdleProc

\* The task of a process: what its steps keep until it returns.
SameTask(p) == /\ proc'[p].kind = proc[p].kind
               /\ proc'[p].op = proc[p].op
               /\ proc'[p].edge = proc[p].edge
               /\ proc'[p].row = proc[p].row
               /\ proc'[p].rest = proc[p].rest

LEMMA GoesOn ==
    ASSUME IInv, NEW p \in Procs, NEW pc, Goes(p, pc)
    PROVE  SameTask(p) /\ proc'[p].pc = pc /\ proc'[p].list = proc[p].list /\ proc'[p].todo = proc[p].todo
BY DEF IInv, Processes, ProcState, Goes, SameTask

\* Every step of a running process keeps its task, ends it, or takes the next
\* job of the batch.
LEMMA Tasks ==
    ASSUME IInv, NEW p \in Procs, Proceeds(p) \/ GraphFails(p) \/ Disturbs(p)
    PROVE  \/ SameTask(p)
           \/ proc'[p].edge = NoEdge /\ proc'[p].rest \subseteq proc[p].rest
           \/ \E r \in Rows : NextJob(p, r)
<1>1. proc[p] \in ProcState /\ proc \in [Procs -> ProcState]
  BY DEF IInv, Processes
<1>2. CASE ReadEdge(p)
  BY <1>1, <1>2, GoesOn DEF ReadEdge, SameTask, ProcState
<1>3. ASSUME NEW n \in Nodes, UpsertEntity(p, n) PROVE SameTask(p)
  BY <1>1, <1>3 DEF UpsertEntity, SameTask, ProcState
<1>4. CASE ListEdges(p)
  BY <1>1, <1>4 DEF ListEdges, SameTask, ProcState
<1>5. ASSUME NEW e \in Edges, UpsertEdge(p, e) PROVE SameTask(p)
  BY <1>1, <1>5 DEF UpsertEdge, SameTask, ProcState
<1>6. CASE RemoveEdge(p) \/ Settle(p)
  BY <1>6, GoesOn, Returned DEF RemoveEdge, Settle
<1>7. CASE RecordFailure(p) \/ MarkFailed(p) \/ FailureIsLost(p)
  BY <1>7, Returned DEF RecordFailure, MarkFailed, FailureIsLost
<1>8. CASE proc' = [proc EXCEPT ![p] = IdleProc]
  BY <1>1, <1>8 DEF IdleProc
<1>9. CASE GraphFails(p)
  BY <1>1, <1>8, <1>9 DEF GraphFails, SameTask, ProcState
<1>10. QED
  BY <1>2, <1>3, <1>4, <1>5, <1>6, <1>7, <1>8, <1>9
     DEF Proceeds, FinishRebuild, Disturbs, MarkFailedThrows, Crash

\* A step of one process leaves the others alone.
LEMMA OthersStay ==
    ASSUME IInv, NEW p \in Procs, Begins(p) \/ Proceeds(p) \/ GraphFails(p) \/ Disturbs(p)
    PROVE  \A q \in Procs \ {p} : proc'[q] = proc[q]
<1>1. proc \in [Procs -> ProcState]
  BY DEF IInv, Processes
<1>2. CASE Begins(p)
  BY <1>1, <1>2 DEF Begins, Apply, Deprecate, Starts, StartRetry, ClearGraph
<1>3. CASE Proceeds(p)
  <2>1. ASSUME ReadEdge(p) \/ ListEdges(p) \/ RemoveEdge(p) \/ Settle(p) \/ RecordFailure(p)
                  \/ MarkFailed(p) \/ FinishRebuild(p)
        PROVE  \A q \in Procs \ {p} : proc'[q] = proc[q]
    BY <1>1, <2>1 DEF ReadEdge, ListEdges, RemoveEdge, Settle, RecordFailure, MarkFailed,
                      FinishRebuild, Goes, Returns
  <2>2. ASSUME \/ \E n \in Nodes : UpsertEntity(p, n)
               \/ \E e \in Edges : UpsertEdge(p, e)
               \/ \E r \in Rows : NextJob(p, r)
        PROVE  \A q \in Procs \ {p} : proc'[q] = proc[q]
    BY <1>1, <2>2 DEF UpsertEntity, UpsertEdge, NextJob
  <2>3. QED
    BY <1>3, <2>1, <2>2 DEF Proceeds
<1>4. CASE GraphFails(p) \/ Disturbs(p)
  BY <1>1, <1>4 DEF GraphFails, Disturbs, FailureIsLost, MarkFailedThrows, Crash, Returns
<1>5. QED
  BY <1>2, <1>3, <1>4

-----------------------------------------------------------------------------
\* What is removed was deprecated: the rows first.
LEMMA RemovalJobsStay ==
    ASSUME IInv, RemovalsAreFinal, Next
    PROVE  RemovalJobs'
<1>1. \A e \in Edges : Deprecated(e) => Deprecated(e)'
  BY DeprecatedStays
<1>2. ASSUME \A r \in Rows : OpOf[r] = "remove_edge" /\ job'[r].status # "absent" =>
                 job[r].status # "absent" \/ Deprecated(EdgeOf[r])
      PROVE  RemovalJobs'
  BY <1>1, <1>2, GraphAssumption DEF RemovalsAreFinal, RemovalJobs
<1>3. CASE UNCHANGED job
  BY <1>2, <1>3
<1>4. job \in [Rows -> JobRow]
  BY DEF IInv, Stores
<1>5. ASSUME NEW p \in Procs, NEW C \in SUBSET Rows, StartRetry(p, C) PROVE RemovalJobs'
  BY <1>2, <1>5 DEF StartRetry, Claimable
<1>6. ASSUME NEW p \in Procs, Settle(p) PROVE RemovalJobs'
  <2>1. CASE SucceedRows(Settled(p))
    <3>1. \A r \in Settled(p) : r \in Rows =>
             job[r].status # "absent" \/ (OpOf[r] = "remove_edge" => Deprecated(EdgeOf[r]))
      BY <1>6 DEF Settle, Settled, ActiveRows, Of, Active, ActiveStatuses, RemovalsAreFinal, RemovalGood,
                  IInv, Processes, ProcGood
    <3>2. QED
      BY <1>2, <2>1, <3>1 DEF SucceedRows
  <2>2. QED
    BY <1>3, <1>6, <2>1 DEF Settle
<1>7. ASSUME NEW p \in Procs, RecordFailure(p) PROVE RemovalJobs'
  <2>1. PICK r \in Rows : OpOf[r] = proc[p].op /\ EdgeOf[r] = proc[p].edge /\ Delay(r, "pending")
    BY <1>7 DEF RecordFailure, ActiveRows, Free, Of
  <2>2. proc[p].edge # NoEdge
    BY <2>1, GraphAssumption
  <2>3. OpOf[r] = "remove_edge" => Deprecated(EdgeOf[r])
    BY <2>1, <2>2 DEF RemovalsAreFinal, RemovalGood
  <2>4. QED
    BY <1>2, <1>4, <2>1, <2>3 DEF Delay
<1>8. ASSUME NEW p \in Procs, MarkFailed(p) PROVE RemovalJobs'
  <2>1. proc[p].edge # NoEdge
    BY <1>8 DEF MarkFailed, IInv, Processes, ProcGood
  <2>2. OpOf[proc[p].row] = "remove_edge" => Deprecated(EdgeOf[proc[p].row])
    BY <1>8, <2>1 DEF MarkFailed, RemovalsAreFinal, RemovalGood
  <2>3. QED
    BY <1>2, <1>4, <1>8, <2>2 DEF MarkFailed, Delay
<1>9. ASSUME NEW r \in Rows, BecomesDue(r) PROVE RemovalJobs'
  BY <1>2, <1>4, <1>9 DEF BecomesDue, JobRow
<1>10. ASSUME NEW p \in Procs, Begins(p) PROVE RemovalJobs'
  BY <1>3, <1>5, <1>10 DEF Begins, Apply, Deprecate, ClearGraph
<1>11. ASSUME NEW p \in Procs, Proceeds(p) PROVE RemovalJobs'
  BY <1>3, <1>6, <1>7, <1>8, <1>11 DEF Proceeds, ReadEdge, UpsertEntity, ListEdges, UpsertEdge,
     RemoveEdge, NextJob, FinishRebuild
<1>12. ASSUME NEW p \in Procs, GraphFails(p) \/ Disturbs(p) PROVE RemovalJobs'
  BY <1>3, <1>12 DEF GraphFails, Disturbs, FailureIsLost, MarkFailedThrows, Crash
<1>13. QED
  BY <1>3, <1>9, <1>10, <1>11, <1>12 DEF Next, DeferredWrite

\* A method starts with nothing to remove, with an edge it has just deprecated,
\* or with claimed rows.
LEMMA BeginsRemoval ==
    ASSUME IInv, RemovalsAreFinal, NEW p \in Procs, Begins(p), Next
    PROVE  RemovalGood(proc[p])'
<1>1. proc[p] = IdleProc /\ proc \in [Procs -> ProcState] /\ IdleProc \in ProcState
  BY IdleGood DEF Begins, Apply, Deprecate, Starts, StartRetry, ClearGraph, Idle, IInv, Processes, ProcGood
<1>2. ASSUME NEW e \in Edges, Apply(p, e) PROVE RemovalGood(proc[p])'
  <2>1. proc'[p].op = "upsert_edge" /\ proc'[p].kind = "sync" /\ proc'[p].rest = {}
    BY <1>1, <1>2 DEF Apply, Starts, IdleProc
  <2>2. QED
    BY <2>1 DEF RemovalGood
<1>3. ASSUME NEW e \in Edges, Deprecate(p, e) PROVE RemovalGood(proc[p])'
  <2>1. proc'[p].edge = e /\ proc'[p].kind = "sync" /\ proc'[p].rest = {}
    BY <1>1, <1>3 DEF Deprecate, Starts, IdleProc
  <2>2. Deprecated(e)'
    BY <1>3 DEF Deprecate, Retire, Deprecated, IInv, Stores, EdgeRow
  <2>3. QED
    BY <2>1, <2>2 DEF RemovalGood, Deprecated
<1>4. ASSUME NEW C \in SUBSET Rows, StartRetry(p, C) PROVE RemovalGood(proc[p])'
  <2>1. proc'[p].edge = NoEdge /\ proc'[p].rest = C
    BY <1>1, <1>4 DEF StartRetry, IdleProc
  <2>2. \A r \in C : job[r].status # "absent" /\ EdgeOf[r] \in Edges
    BY <1>4, GraphAssumption DEF StartRetry, Claimable
  <2>3. \A r \in C : OpOf[r] = "remove_edge" => Deprecated(EdgeOf[r])'
    BY <2>2, DeprecatedStays DEF RemovalsAreFinal, RemovalJobs
  <2>4. QED
    BY <2>1, <2>3 DEF RemovalGood, Deprecated
<1>5. CASE ClearGraph(p)
  <2>1. proc'[p].edge = NoEdge /\ proc'[p].rest = {}
    BY <1>1, <1>5 DEF ClearGraph, IdleProc
  <2>2. QED
    BY <2>1 DEF RemovalGood
<1>6. QED
  BY <1>2, <1>3, <1>4, <1>5 DEF Begins

LEMMA ProceedsRemoval ==
    ASSUME IInv, RemovalsAreFinal, NEW p \in Procs, Proceeds(p) \/ GraphFails(p) \/ Disturbs(p), Next
    PROVE  RemovalGood(proc[p])'
<1>1. /\ proc[p] \in ProcState /\ proc \in [Procs -> ProcState]
      /\ proc[p].edge # NoEdge => proc[p].edge \in Edges
      /\ \A r \in proc[p].rest : EdgeOf[r] \in Edges
  BY GraphAssumption DEF IInv, Processes, ProcState
<1>2. RemovalGood(proc[p])
  BY DEF RemovalsAreFinal
<1>3. \A e \in Edges : Deprecated(e) => Deprecated(e)'
  BY DeprecatedStays
<1>4. CASE SameTask(p)
  BY <1>1, <1>2, <1>3, <1>4 DEF SameTask, RemovalGood, Deprecated
<1>5. CASE proc'[p].edge = NoEdge /\ proc'[p].rest \subseteq proc[p].rest
  BY <1>1, <1>2, <1>3, <1>5 DEF RemovalGood, Deprecated
<1>6. ASSUME NEW r \in Rows, NextJob(p, r) PROVE RemovalGood(proc[p])'
  <2>1. /\ r \in proc[p].rest /\ proc'[p].op = OpOf[r] /\ proc'[p].edge = EdgeOf[r]
        /\ proc'[p].row = r /\ proc'[p].rest = proc[p].rest \ {r}
    BY <1>1, <1>6 DEF NextJob, ProcState
  <2>2. QED
    BY <1>1, <1>2, <1>3, <2>1 DEF RemovalGood, Deprecated
<1>7. QED
  BY <1>4, <1>5, <1>6, Tasks

LEMMA RemovalStep ==
    ASSUME IInv, RemovalsAreFinal, Next
    PROVE  RemovalsAreFinal'
<1>1. RemovalJobs'
  BY RemovalJobsStay
<1>2. ASSUME NEW q \in Procs, proc'[q] = proc[q] PROVE RemovalGood(proc[q])'
  <2>1. /\ proc[q].edge # NoEdge => proc[q].edge \in Edges
        /\ \A r \in proc[q].rest : EdgeOf[r] \in Edges
    BY GraphAssumption DEF IInv, Processes, ProcState
  <2>2. \A e \in Edges : Deprecated(e) => Deprecated(e)'
    BY DeprecatedStays
  <2>3. QED
    BY <1>2, <2>1, <2>2 DEF RemovalsAreFinal, RemovalGood, Deprecated
<1>3. ASSUME NEW p \in Procs, Begins(p) \/ Proceeds(p) \/ GraphFails(p) \/ Disturbs(p)
      PROVE  \A q \in Procs : RemovalGood(proc[q])'
  BY <1>2, <1>3, BeginsRemoval, ProceedsRemoval, OthersStay
<1>4. ASSUME UNCHANGED proc
      PROVE  \A q \in Procs : RemovalGood(proc[q])'
  BY <1>2, <1>4
<1>5. \A q \in Procs : RemovalGood(proc[q])'
  BY <1>3, <1>4 DEF Next, DeferredWrite, BecomesDue
<1>6. QED
  BY <1>1, <1>5 DEF RemovalsAreFinal

-----------------------------------------------------------------------------
\* A job waits for the edge.
Waits(e) == \E r \in Rows : EdgeOf[r] = e /\ job[r].status \in {"pending", "failed"}

\* Accounted, seen by the only process that works.
Kept(p, e) == Shown(e) \/ WorksOn(p, e) \/ Waits(e)

Mended(p) == /\ Nodes \subseteq nodes
             /\ AtWork(proc[p])
             /\ \A e \in Edges : Kept(p, e)

\* What each calm step of p, alone at work, maintains.
Maintains(p) == /\ Knows(proc[p])'
                /\ Mended(p) /\ proc'[p].kind # "rebuild" => Mended(p)'

\* Most steps see nothing of Postgres.
LEMMA SeesNothing ==
    ASSUME NEW p \in Procs, NotesReads(p),
           \/ proc[p].pc \notin {"idle", "reading", "listing"}
           \/ proc'[p].pc \notin {"nodes", "removing", "edges"}
    PROVE  deferred' = deferred
BY DEF NotesReads, Sees

\* The others see at most the edge the process then works on, if they do not
\* list them all.
LEMMA SeesOwn ==
    ASSUME NEW p \in Procs, NotesReads(p), proc[p].pc # "listing",
           NEW e \in Edges, e # proc'[p].edge
    PROVE  e \in deferred' <=> e \in deferred
BY DEF NotesReads, Sees

\* A write to Postgres concerns one edge, which its process then projects.
LEMMA WritesMaintain ==
    ASSUME IInv, NEW p \in Procs, NEW e \in Edges, Apply(p, e) \/ Deprecate(p, e), NotesReads(p)
    PROVE  Maintains(p)
<1>1. /\ proc'[p].edge = e /\ proc'[p].kind = "sync"
      /\ proc'[p].pc \in {"reading", "removing"}
      /\ Deprecate(p, e) \/ proc'[p].pc = "reading"
      /\ proc[p].edge = NoEdge /\ proc[p].rest = {}
  BY DEF IInv, Processes, ProcState, Apply, Deprecate, Starts, Idle, IdleProc
<1>2. /\ \A f \in Edges : f # e => truth'[f] = truth[f] /\ (f \in deferred' <=> f \in deferred)
      /\ Deprecate(p, e) => truth'[e].validity = "deprecated"
  <2>1. proc[p].pc # "listing"
    BY DEF Apply, Deprecate, Starts, Idle, IdleProc
  <2>2. \A f \in Edges : f # e => (f \in deferred' <=> f \in deferred)
    BY <1>1, <2>1, SeesOwn
  <2>3. QED
    BY <2>2 DEF IInv, Stores, EdgeRow, Apply, Deprecate, Approve, Retire
<1>3. Knows(proc[p])'
  BY <1>1, <1>2 DEF Knows, SyncKnows, RebuildKnows, Current
<1>4. UNCHANGED <<graph, nodes, job>>
  BY DEF Apply, Deprecate
<1>5. ASSUME Mended(p) PROVE Mended(p)'
  <2>1. \A f \in Edges : f # e => Kept(p, f)'
    BY <1>1, <1>2, <1>4, <1>5, GraphAssumption DEF Mended, Kept, Shown, Agrees, Current, WorksOn, Waits
  <2>2. Kept(p, e)'
    BY <1>1 DEF Kept, WorksOn
  <2>3. QED
    BY <1>1, <1>4, <1>5, <2>1, <2>2 DEF Mended, AtWork
<1>6. QED
  BY <1>3, <1>5 DEF Maintains

\* The rows of a claim go from the table to the batch.
LEMMA RetryMaintains ==
    ASSUME IInv, NEW p \in Procs, NEW C \in SUBSET Rows, StartRetry(p, C), NotesReads(p)
    PROVE  Maintains(p)
<1>1. /\ proc'[p].kind = "retry" /\ proc'[p].pc = "idle" /\ proc'[p].rest = C
      /\ proc[p].edge = NoEdge /\ proc[p].rest = {}
  BY DEF IInv, Processes, ProcState, StartRetry, Idle, IdleProc
<1>2. Knows(proc[p])'
  BY <1>1 DEF Knows, SyncKnows, RebuildKnows
<1>3. UNCHANGED <<truth, graph, nodes, deferred>> /\ \A r \in Rows : r \notin C => job'[r] = job[r]
  BY <1>1, SeesNothing DEF StartRetry
<1>4. ASSUME Mended(p), NEW e \in Edges PROVE Kept(p, e)'
  <2>1. Shown(e) \/ Waits(e)
    BY <1>1, <1>4, GraphAssumption DEF Mended, Kept, WorksOn
  <2>2. CASE Shown(e)
    BY <1>3, <2>2 DEF Kept, Shown, Agrees, Current
  <2>3. CASE Waits(e)
    BY <1>1, <1>3, <2>3 DEF Kept, WorksOn, Waits
  <2>4. QED
    BY <2>1, <2>2, <2>3
<1>5. Mended(p) => Mended(p)'
  BY <1>1, <1>3, <1>4 DEF Mended, AtWork
<1>6. QED
  BY <1>2, <1>5 DEF Maintains

\* A rebuild starts with everything to be written.
LEMMA ClearMaintains ==
    ASSUME IInv, NEW p \in Procs, ClearGraph(p)
    PROVE  Maintains(p)
<1>1. proc'[p].kind = "rebuild" /\ proc'[p].pc = "nodes" /\ proc'[p].todo = Nodes
  BY DEF IInv, Processes, ProcState, ClearGraph
<1>2. graph' = NoList
  BY DEF ClearGraph
<1>3. Knows(proc[p])'
  BY <1>1, <1>2 DEF Knows, SyncKnows, RebuildKnows, NoList
<1>4. QED
  BY <1>1, <1>3 DEF Maintains

\* Steps within a task that write neither store nor table.
LEMMA QuietlyMended ==
    ASSUME NEW p \in Procs, SameTask(p), UNCHANGED <<truth, graph, job>>, nodes \subseteq nodes',
           NotesReads(p), proc[p].pc # "listing", proc'[p].pc # "settling", Mended(p)
    PROVE  Mended(p)'
<1>1. ASSUME NEW e \in Edges PROVE Kept(p, e)'
  <2>1. CASE e # proc'[p].edge
    <3>1. e \in deferred' <=> e \in deferred
      BY <2>1, SeesOwn
    <3>2. QED
      BY <3>1 DEF SameTask, Mended, Kept, Shown, Agrees, Current, WorksOn, Waits
  <2>2. CASE e = proc'[p].edge
    BY <2>2 DEF Kept, WorksOn
  <2>3. QED
    BY <2>1, <2>2
<1>2. QED
  BY <1>1 DEF SameTask, Mended, AtWork

LEMMA ReadMaintains ==
    ASSUME IInv, NEW p \in Procs, ReadEdge(p), NotesReads(p)
    PROVE  Maintains(p)
<1> DEFINE e == proc[p].edge
<1>1. e \in Edges /\ proc[p].kind # "rebuild" /\ proc[p] \in ProcState /\ proc[p].pc # "listing"
  BY DEF IInv, Processes, ProcGood, ProcState, ReadEdge
<1>2. UNCHANGED <<truth, graph, nodes, job>>
  BY DEF ReadEdge
<1>3. CASE Current(e)
  <2>1. /\ SameTask(p) /\ proc'[p].pc = "nodes"
        /\ proc'[p].list = [NoList EXCEPT ![e] = truth[e].version]
    BY <1>1, <1>3 DEF ReadEdge, IInv, Processes, ProcState, SameTask
  <2>2. \A f \in Edges : proc'[p].list[f] # 0 => f = e /\ proc'[p].list[f] = truth[f].version
    BY <1>1, <2>1 DEF NoList
  <2>3. Knows(proc[p])'
    BY <1>1, <1>2, <1>3, <2>1, <2>2 DEF Knows, SyncKnows, RebuildKnows, SameTask, Fresh, Current
  <2>4. QED
    BY <1>1, <1>2, <2>1, <2>3, QuietlyMended DEF Maintains
<1>4. CASE ~Current(e)
  <2>1. SameTask(p) /\ proc'[p].pc = "removing"
    BY <1>4, GoesOn DEF ReadEdge
  <2>2. Knows(proc[p])'
    BY <1>1, <1>2, <1>4, <2>1 DEF Knows, SyncKnows, RebuildKnows, SameTask, Current
  <2>3. QED
    BY <1>1, <1>2, <2>1, <2>2, QuietlyMended DEF Maintains
<1>5. QED
  BY <1>3, <1>4

LEMMA EntityMaintains ==
    ASSUME IInv, NEW p \in Procs, Knows(proc[p]), NEW n \in Nodes, UpsertEntity(p, n), NotesReads(p)
    PROVE  Maintains(p)
<1>1. /\ SameTask(p) /\ proc'[p].list = proc[p].list /\ proc'[p].todo = proc[p].todo \ {n}
      /\ proc'[p].pc = IF proc[p].todo # {n} THEN "nodes"
                       ELSE IF proc[p].kind = "rebuild" THEN "listing" ELSE "edges"
      /\ proc[p].pc = "nodes"
  BY DEF UpsertEntity, IInv, Processes, ProcState, SameTask
<1>2. UNCHANGED <<truth, graph, job, deferred>> /\ nodes' = nodes \cup {n}
  BY <1>1, SeesNothing DEF UpsertEntity
<1>3. SyncKnows(proc[p])'
  BY <1>1, <1>2 DEF Knows, SyncKnows, SameTask, Fresh, Current
<1>4. RebuildKnows(proc[p])'
  BY <1>1, <1>2 DEF Knows, RebuildKnows, SameTask
<1>5. QED
  BY <1>1, <1>2, <1>3, <1>4, QuietlyMended DEF Maintains, Knows

LEMMA ListMaintains ==
    ASSUME IInv, NEW p \in Procs, Knows(proc[p]), ListEdges(p), NotesReads(p)
    PROVE  Maintains(p)
<1>1. /\ SameTask(p) /\ proc'[p].pc = "edges" /\ proc[p].pc = "listing" /\ proc[p].kind = "rebuild"
      /\ \A e \in Edges : proc'[p].list[e] = IF Current(e) THEN truth[e].version ELSE 0
  BY DEF ListEdges, IInv, Processes, ProcState, SameTask, Knows, SyncKnows
<1>2. UNCHANGED <<truth, graph, nodes, job>> /\ graph = NoList /\ Nodes \subseteq nodes
  BY <1>1 DEF ListEdges, Knows, RebuildKnows
<1>3. \A e \in Edges : IF proc'[p].list[e] = 0 THEN Agrees(e)
                       ELSE Current(e) /\ proc'[p].list[e] = truth[e].version
  BY <1>1, <1>2 DEF Agrees, NoList
<1>4. Knows(proc[p])'
  BY <1>1, <1>2, <1>3 DEF Knows, SyncKnows, RebuildKnows, SameTask, Shown, Fresh, Agrees, Current
<1>5. QED
  BY <1>1, <1>4 DEF Maintains, SameTask

\* The list was read from Postgres; who has written there since was deferred.
LEMMA UpsertMaintains ==
    ASSUME IInv, NEW p \in Procs, Knows(proc[p]), NEW e \in Edges, UpsertEdge(p, e), NotesReads(p)
    PROVE  Maintains(p)
<1>1. /\ SameTask(p) /\ proc[p].pc = "edges" /\ proc[p].list[e] # 0
      /\ proc'[p].pc = IF proc[p].kind = "rebuild" THEN "edges" ELSE "settling"
      /\ proc'[p].list[e] = 0
      /\ \A f \in Edges : f # e => proc'[p].list[f] = proc[p].list[f]
  BY DEF UpsertEdge, IInv, Processes, ProcState, SameTask
<1>2. UNCHANGED <<truth, nodes, job, deferred>>
  BY <1>1, SeesNothing DEF UpsertEdge
<1>3. Fresh(proc[p], e)
  BY <1>1 DEF Knows, SyncKnows, RebuildKnows
<1>4. /\ \A f \in Edges : f # e => graph'[f] = graph[f]
      /\ Nodes \subseteq nodes => graph'[e] = proc[p].list[e]
  BY GraphAssumption DEF UpsertEdge, IInv, Stores
<1>5. Nodes \subseteq nodes => Shown(e)'
  BY <1>2, <1>3, <1>4 DEF Fresh, Shown, Agrees, Current
<1>6. SyncKnows(proc[p])'
  BY <1>1 DEF SyncKnows, SameTask
<1>7. RebuildKnows(proc[p])'
  <2>1. SUFFICES ASSUME proc[p].kind = "rebuild" PROVE RebuildKnows(proc[p])'
    BY <1>1 DEF RebuildKnows, SameTask
  <2>2. Nodes \subseteq nodes
    BY <1>1, <2>1 DEF Knows, RebuildKnows
  <2>3. ASSUME NEW f \in Edges
        PROVE  IF proc'[p].list[f] = 0 THEN Shown(f)' ELSE Fresh(proc[p], f)'
    <3>1. CASE f = e
      BY <1>1, <1>5, <2>2, <3>1
    <3>2. CASE f # e
      BY <1>1, <1>2, <1>4, <2>1, <3>2 DEF Knows, RebuildKnows, Shown, Fresh, Agrees, Current
    <3>3. QED
      BY <3>1, <3>2
  <2>4. QED
    BY <1>1, <1>2, <2>1, <2>2, <2>3 DEF RebuildKnows, SameTask
<1>8. ASSUME Mended(p), proc'[p].kind # "rebuild" PROVE Mended(p)'
  <2>1. e = proc[p].edge /\ Shown(e)'
    BY <1>1, <1>5, <1>8 DEF Knows, SyncKnows, SameTask, Mended
  <2>2. ASSUME NEW f \in Edges PROVE Kept(p, f)'
    BY <1>1, <1>2, <1>4, <1>8, <2>1 DEF Mended, Kept, Shown, Agrees, Current, WorksOn, Waits, SameTask
  <2>3. QED
    BY <1>1, <1>2, <1>8, <2>1, <2>2 DEF Mended, AtWork, SameTask
<1>9. QED
  BY <1>6, <1>7, <1>8 DEF Maintains, Knows

LEMMA RemoveMaintains ==
    ASSUME IInv, NEW p \in Procs, Knows(proc[p]), RemoveEdge(p), NotesReads(p)
    PROVE  Maintains(p)
<1>1. PICK e \in Edges : e = proc[p].edge /\ proc[p].kind # "rebuild" /\ proc[p].pc = "removing"
  BY DEF IInv, Processes, ProcGood, ProcState, RemoveEdge
<1>2. SameTask(p) /\ proc'[p].pc = "settling"
  BY GoesOn DEF RemoveEdge
<1>3. /\ UNCHANGED <<truth, nodes, job, deferred>>
      /\ \A f \in Edges : graph'[f] = IF f = e THEN 0 ELSE graph[f]
  <2>1. deferred' = deferred
    BY <1>1, SeesNothing
  <2>2. QED
    BY <1>1, <2>1 DEF RemoveEdge, IInv, Stores
<1>4. Shown(e)'
  BY <1>1, <1>3 DEF Knows, SyncKnows, Shown, Agrees, Current
<1>5. Knows(proc[p])'
  BY <1>1, <1>2 DEF Knows, SyncKnows, RebuildKnows, SameTask
<1>6. ASSUME Mended(p) PROVE Mended(p)'
  <2>1. ASSUME NEW f \in Edges PROVE Kept(p, f)'
    BY <1>1, <1>2, <1>3, <1>4, <1>6 DEF Mended, Kept, Shown, Agrees, Current, WorksOn, Waits, SameTask
  <2>2. QED
    BY <1>1, <1>2, <1>3, <1>4, <1>6, <2>1 DEF Mended, AtWork, SameTask
<1>7. QED
  BY <1>5, <1>6 DEF Maintains

\* Only rows of the settled edge are marked succeeded, and that edge is shown.
LEMMA SettleMaintains ==
    ASSUME IInv, RemovalsAreFinal, NEW p \in Procs, Settle(p), NotesReads(p)
    PROVE  Maintains(p)
<1>1. PICK e \in Edges : e = proc[p].edge /\ proc[p].kind # "rebuild" /\ proc[p].pc = "settling"
  BY DEF IInv, Processes, ProcGood, ProcState, Settle
<1>2. UNCHANGED <<truth, graph, nodes, deferred>>
  BY <1>1, SeesNothing DEF Settle
<1>3. \A r \in Settled(p) : EdgeOf[r] = e
  <2>1. CASE proc[p].kind = "retry"
    BY <1>1, <2>1, GraphAssumption DEF Settled, RemovalsAreFinal, RemovalGood
  <2>2. CASE proc[p].kind # "retry"
    BY <1>1, <2>2 DEF Settled, ActiveRows, Of
  <2>3. QED
    BY <2>1, <2>2
<1>4. \A r \in Rows : EdgeOf[r] # e => job'[r] = job[r]
  BY <1>3 DEF Settle, SucceedRows
<1>5. \/ SameTask(p) /\ proc'[p].pc = "failing"
      \/ /\ proc'[p].pc = "idle" /\ proc'[p].edge = NoEdge
         /\ proc'[p].kind # "rebuild" /\ proc'[p].rest = proc[p].rest
  BY GoesOn, Returned DEF Settle
<1>6. Knows(proc[p])'
  BY <1>1, <1>5 DEF Knows, SyncKnows, RebuildKnows, SameTask
<1>7. ASSUME Mended(p) PROVE Mended(p)'
  <2>1. Kept(p, e)'
    BY <1>1, <1>2, <1>7 DEF Mended, AtWork, Kept, Shown, Agrees, Current
  <2>2. ASSUME NEW f \in Edges, f # e PROVE Kept(p, f)'
    <3>1. CASE Shown(f)
      BY <1>2, <3>1 DEF Kept, Shown, Agrees, Current
    <3>2. CASE WorksOn(p, f)
      BY <1>1, <1>5, <2>2, <3>2 DEF Kept, WorksOn, SameTask
    <3>3. CASE Waits(f)
      BY <1>4, <2>2, <3>3 DEF Kept, Waits
    <3>4. QED
      BY <1>7, <3>1, <3>2, <3>3 DEF Mended, Kept
  <2>3. QED
    BY <1>1, <1>2, <1>5, <1>7, <2>1, <2>2 DEF Mended, AtWork, SameTask
<1>8. QED
  BY <1>6, <1>7 DEF Maintains

\* A failure that is recorded leaves a job of its edge waiting.
LEMMA FailureMaintains ==
    ASSUME IInv, RemovalsAreFinal, NEW p \in Procs, RecordFailure(p) \/ MarkFailed(p), NotesReads(p)
    PROVE  Maintains(p)
<1>1. PICK e \in Edges : e = proc[p].edge
  BY DEF IInv, Processes, ProcGood, ProcState, RecordFailure, MarkFailed
<1>2. PICK r \in Rows : EdgeOf[r] = e /\ (Delay(r, "pending") \/ Delay(r, "failed"))
  <2>1. CASE RecordFailure(p)
    BY <1>1, <2>1 DEF RecordFailure, ActiveRows, Free, Of
  <2>2. CASE MarkFailed(p)
    BY <1>1, <2>2, GraphAssumption DEF MarkFailed, RemovalsAreFinal, RemovalGood
  <2>3. QED
    BY <2>1, <2>2
<1>3. job'[r].status \in {"pending", "failed"} /\ \A i \in Rows : i # r => job'[i] = job[i]
  BY <1>2 DEF Delay, IInv, Stores
<1>4. UNCHANGED <<truth, graph, nodes, deferred>>
  BY SeesNothing DEF RecordFailure, MarkFailed
<1>5. /\ proc'[p].pc = "idle" /\ proc'[p].edge = NoEdge
      /\ proc'[p].kind # "rebuild" /\ proc'[p].rest = proc[p].rest
  BY Returned DEF RecordFailure, MarkFailed
<1>6. Knows(proc[p])'
  BY <1>5 DEF Knows, SyncKnows, RebuildKnows
<1>7. ASSUME Mended(p) PROVE Mended(p)'
  <2>1. ASSUME NEW f \in Edges PROVE Kept(p, f)'
    <3>1. CASE f = e
      BY <1>2, <1>3, <3>1 DEF Kept, Waits
    <3>2. CASE Shown(f)
      BY <1>4, <3>2 DEF Kept, Shown, Agrees, Current
    <3>3. CASE WorksOn(p, f) /\ f # e
      BY <1>1, <1>5, <3>3 DEF Kept, WorksOn
    <3>4. CASE Waits(f)
      BY <1>3, <3>4 DEF Kept, Waits
    <3>5. QED
      BY <1>7, <3>1, <3>2, <3>3, <3>4 DEF Mended, Kept
  <2>2. QED
    BY <1>4, <1>5, <1>7, <2>1 DEF Mended, AtWork
<1>8. QED
  BY <1>6, <1>7 DEF Maintains

\* The next job of the batch goes from the rest to the process.  A row that
\* removes its edge finds the edge deprecated.
LEMMA NextJobMaintains ==
    ASSUME IInv, RemovalsAreFinal, NEW p \in Procs, NEW r \in Rows, NextJob(p, r), NotesReads(p)
    PROVE  Maintains(p)
<1>1. /\ r \in proc[p].rest /\ proc[p].edge = NoEdge /\ proc[p].kind # "rebuild"
      /\ proc'[p].pc = IF OpOf[r] = "upsert_edge" THEN "reading" ELSE "removing"
      /\ proc'[p].edge = EdgeOf[r] /\ proc'[p].kind = proc[p].kind
      /\ proc'[p].rest = proc[p].rest \ {r}
  BY DEF IInv, Processes, ProcGood, ProcState, NextJob
<1>2. /\ UNCHANGED <<truth, graph, nodes, job>>
      /\ \A f \in Edges : f # EdgeOf[r] => (f \in deferred' <=> f \in deferred)
  <2>1. proc[p].pc # "listing"
    BY DEF NextJob
  <2>2. QED
    BY <1>1, <2>1, SeesOwn DEF NextJob
<1>3. proc'[p].pc = "removing" => ~Current(EdgeOf[r])
  BY <1>1, GraphAssumption DEF RemovalsAreFinal, RemovalGood, Deprecated, Current, Ops
<1>4. Knows(proc[p])'
  BY <1>1, <1>2, <1>3 DEF Knows, SyncKnows, RebuildKnows, Current
<1>5. ASSUME Mended(p) PROVE Mended(p)'
  <2>1. ASSUME NEW f \in Edges PROVE Kept(p, f)'
    BY <1>1, <1>2, <1>5, GraphAssumption DEF Mended, Kept, Shown, Agrees, Current, WorksOn, Waits
  <2>2. QED
    BY <1>1, <1>2, <1>5, <2>1 DEF Mended, AtWork
<1>6. QED
  BY <1>4, <1>5 DEF Maintains

LEMMA GraphFailsMaintains ==
    ASSUME IInv, NEW p \in Procs, GraphFails(p) \/ FinishRebuild(p), NotesReads(p)
    PROVE  Maintains(p)
<1>1. proc \in [Procs -> ProcState] /\ UNCHANGED <<truth, graph, nodes, job>>
  BY DEF IInv, Processes, GraphFails, FinishRebuild
<1>2. CASE proc[p].kind = "rebuild"
  <2>1. proc'[p].pc = "idle" /\ proc'[p].kind = "none"
    BY <1>1, <1>2 DEF GraphFails, FinishRebuild, IdleProc
  <2>2. QED
    BY <1>2, <2>1 DEF Maintains, Knows, SyncKnows, RebuildKnows, Mended, AtWork
<1>3. CASE proc[p].kind # "rebuild"
  <2>1. SameTask(p) /\ proc'[p].pc = "failing"
    BY <1>1, <1>3 DEF GraphFails, FinishRebuild, Rebuilt, SameTask, ProcState
  <2>2. Knows(proc[p])'
    BY <1>3, <2>1 DEF Knows, SyncKnows, RebuildKnows, SameTask
  <2>3. proc[p].kind # "rebuild" /\ Mended(p) => Mended(p)'
    <3>1. SUFFICES ASSUME Mended(p) PROVE Mended(p)'
      OBVIOUS
    <3>2. deferred' = deferred
      BY <2>1, SeesNothing
    <3>3. \A e \in Edges : Kept(p, e)'
      BY <1>1, <2>1, <3>1, <3>2 DEF SameTask, Mended, Kept, Shown, Agrees, Current, WorksOn, Waits
    <3>4. QED
      BY <1>1, <2>1, <3>1, <3>3 DEF SameTask, Mended, AtWork
  <2>4. QED
    BY <1>3, <2>2, <2>3 DEF Maintains
<1>4. QED
  BY <1>2, <1>3

LEMMA AloneMaintains ==
    ASSUME IInv, RemovalsAreFinal, NEW p \in Procs, Knows(proc[p]),
           Begins(p) \/ Proceeds(p) \/ GraphFails(p), NotesReads(p)
    PROVE  Maintains(p)
<1>1. CASE Begins(p)
  BY <1>1, WritesMaintain, RetryMaintains, ClearMaintains DEF Begins
<1>2. CASE Proceeds(p)
  BY <1>2, ReadMaintains, EntityMaintains, ListMaintains, UpsertMaintains, RemoveMaintains,
     SettleMaintains, FailureMaintains, NextJobMaintains, GraphFailsMaintains DEF Proceeds
<1>3. QED
  BY <1>1, <1>2, GraphFailsMaintains

-----------------------------------------------------------------------------
\* A rebuild whose list is empty has repaired everything.
LEMMA RebuildRepairs ==
    ASSUME IInv, NEW p \in Procs, Knows(proc[p]), Rebuilt(p), proc'[p] = IdleProc,
           Begins(p) \/ Proceeds(p) \/ GraphFails(p), NotesReads(p)
    PROVE  Mended(p)'
<1>1. Nodes \subseteq nodes /\ \A e \in Edges : Shown(e)
  BY DEF Rebuilt, NoList, Knows, RebuildKnows
<1>2. proc[p].pc = "edges" /\ proc[p].kind = "rebuild" /\ \A e \in Edges : proc[p].list[e] = 0
  BY DEF Rebuilt, NoList
<1>3. UNCHANGED <<truth, graph, nodes, deferred>>
  <2>1. ~Begins(p)
    BY <1>2 DEF Begins, Apply, Deprecate, Starts, StartRetry, ClearGraph, Idle, IdleProc
  <2>2. Proceeds(p) => UNCHANGED <<truth, graph, nodes>>
    BY <1>2 DEF Proceeds, ReadEdge, UpsertEntity, ListEdges, UpsertEdge, RemoveEdge, Settle,
                RecordFailure, MarkFailed, NextJob, FinishRebuild
  <2>3. deferred' = deferred
    BY <1>2, SeesNothing DEF IdleProc
  <2>4. QED
    BY <2>1, <2>2, <2>3 DEF GraphFails
<1>4. QED
  BY <1>1, <1>3 DEF Mended, AtWork, IdleProc, Kept, Shown, Agrees, Current

\* When all others are idle, Accounted is what the one process sees.
LEMMA AccountedAlone ==
    ASSUME NEW p \in Procs, Solo(p), restored = "yes", Repaired
    PROVE  Accounted <=> \A e \in Edges : Kept(p, e)
<1>1. \A q \in Procs \ {p}, e \in Edges : ~WorksOn(q, e)
  BY GraphAssumption DEF Solo, Idle, IdleProc, WorksOn
<1>2. QED
  BY <1>1 DEF Accounted, Kept, Shown, Waits

LEMMA CalmStepKeeps ==
    ASSUME CInv, NEW p \in Procs, CalmStep(p)
    PROVE  CInv'
<1>1. /\ IInv /\ RemovalsAreFinal /\ stage # "disturbed" /\ stage' = stage
      /\ Solo(p) /\ Careful /\ NotesReads(p)
      /\ Begins(p) \/ Proceeds(p) \/ GraphFails(p)
  BY DEF CInv, CalmStep, Solo
<1>2. Next
  BY <1>1 DEF Next
<1>3. IInv' /\ RemovalsAreFinal'
  BY <1>1, <1>2, GraphStep, RemovalStep
<1>4. Maintains(p)
  BY <1>1, AloneMaintains DEF Careful
<1>5. \A q \in Procs \ {p} : proc'[q] = IdleProc
  BY <1>1, OthersStay DEF Solo, Idle
<1>6. Careful'
  <2>1. Solo(p)' /\ \A q \in Procs : ~Idle(q)' => q = p
    BY <1>5 DEF Solo, Idle
  <2>2. \A q \in Procs \ {p} : Knows(proc[q])'
    BY <1>5 DEF Knows, SyncKnows, RebuildKnows, IdleProc
  <2>3. Knows(proc[p])'
    BY <1>4 DEF Maintains
  <2>4. QED
    BY <2>1, <2>2, <2>3 DEF Careful
<1>7. ASSUME restored' = "yes" PROVE Repaired' /\ Accounted'
  <2>1. Mended(p)'
    <3>1. CASE Rebuilt(p) /\ proc'[p] = IdleProc
      BY <1>1, <3>1, RebuildRepairs DEF Careful
    <3>2. CASE ~(Rebuilt(p) /\ proc'[p] = IdleProc)
      <4>1. restored = "yes" /\ ~(proc[p].kind # "rebuild" /\ proc'[p].kind = "rebuild")
        BY <1>7, <3>2 DEF CalmStep, NotesRebuild
      <4>2. Repaired /\ Accounted
        BY <4>1 DEF CInv
      <4>3. Mended(p)
        BY <1>1, <4>1, <4>2, AccountedAlone DEF Mended, Repaired
      <4>4. QED
        BY <1>4, <4>1, <4>3 DEF Maintains, Mended, AtWork
    <3>3. QED
      BY <3>1, <3>2
  <2>2. \A q \in Procs \ {p} : AtWork(proc[q])'
    BY <1>5 DEF AtWork, IdleProc
  <2>3. Repaired'
    BY <1>1, <2>1, <2>2 DEF Repaired, Mended
  <2>4. Accounted'
    BY <2>1 DEF Accounted, Mended, Kept, Shown, Waits
  <2>5. QED
    BY <2>3, <2>4
<1>8. restored' # "yes" => Accounted'
  BY DEF Accounted
<1>9. QED
  BY <1>3, <1>6, <1>7, <1>8 DEF CInv

\* A deferred write falls between any two steps: what the process knows of
\* other edges stays true, and this one is now known to be behind.
LEMMA DeferKeeps ==
    ASSUME CInv, NEW e \in Edges, DeferStep(e)
    PROVE  CInv'
<1>1. /\ UNCHANGED <<graph, nodes, job, proc, stage, restored>>
      /\ e \in deferred' /\ \A f \in Edges : f \in deferred => f \in deferred'
  BY DEF DeferStep, DeferredWrite
<1>2. \A f \in Edges : f # e => truth'[f] = truth[f]
  BY DEF CInv, IInv, Stores, DeferStep, DeferredWrite, Approve, Retire
<1>3. IInv' /\ RemovalsAreFinal'
  BY GraphStep, RemovalStep DEF CInv, DeferStep, Next
<1>4. \A f \in Edges : Shown(f) => Shown(f)'
  BY <1>1, <1>2 DEF Shown, Agrees, Current
<1>5. \A p \in Procs, f \in Edges : Fresh(proc[p], f) => Fresh(proc[p], f)'
  BY <1>1, <1>2 DEF Fresh, Current
<1>6. \A p \in Procs : proc[p].edge \in Edges \/ proc[p].kind = "rebuild" \/ proc[p].pc = "idle"
  BY DEF CInv, IInv, Processes, ProcGood, ProcState
<1>7. ASSUME NEW p \in Procs, Knows(proc[p]) PROVE Knows(proc[p])'
  <2>1. SyncKnows(proc[p])'
    <3>1. proc[p].kind # "rebuild" /\ proc[p].pc = "removing" =>
             (~Current(proc[p].edge) \/ proc[p].edge \in deferred)'
      BY <1>1, <1>2, <1>6, <1>7 DEF Knows, SyncKnows, Current
    <3>2. QED
      BY <1>1, <1>5, <1>7, <3>1 DEF Knows, SyncKnows
  <2>2. RebuildKnows(proc[p])'
    BY <1>1, <1>4, <1>5, <1>7 DEF Knows, RebuildKnows
  <2>3. QED
    BY <2>1, <2>2 DEF Knows
<1>8. stage' # "disturbed" => Careful'
  BY <1>1, <1>7 DEF CInv, Careful, Solo, Idle
<1>9. restored' = "yes" => Repaired'
  BY <1>1, <1>4, <1>6 DEF CInv, Repaired, AtWork
<1>10. Accounted'
  <2>1. \A f \in Edges : f # e /\ Agrees(f) => Agrees(f)'
    BY <1>1, <1>2 DEF Agrees, Current
  <2>2. QED
    BY <1>1, <2>1 DEF CInv, Accounted, WorksOn
<1>11. QED
  BY <1>3, <1>8, <1>9, <1>10 DEF CInv

\* While a rebuild runs, or before one was completed in calm, nothing is owed.
LEMMA CalmKeeps == CInv /\ [CalmNext]_calmVars => CInv'
<1> SUFFICES ASSUME CInv, [CalmNext]_calmVars PROVE CInv'
  OBVIOUS
<1>1. CASE UNCHANGED <<vars, restored, deferred>> /\ (stage' = stage \/ CalmsDown)
  <2>1. UNCHANGED <<truth, graph, nodes, job, proc, restored, deferred>>
    BY <1>1 DEF vars
  <2>2. IInv'
    BY <1>1, GraphStep DEF CInv
  <2>3. RemovalsAreFinal'
    BY <2>1 DEF CInv, RemovalsAreFinal, RemovalJobs, RemovalGood, Deprecated
  <2>4. stage' # "disturbed" => Careful'
    <3>1. CASE Careful
      BY <2>1, <3>1 DEF Careful, Solo, Idle, Knows, SyncKnows, RebuildKnows, Fresh, Shown, Agrees, Current
    <3>2. CASE AllIdle
      BY <2>1, <3>2 DEF AllIdle, Careful, Solo, Idle, Knows, SyncKnows, RebuildKnows, IdleProc
    <3>3. QED
      BY <1>1, <3>1, <3>2 DEF CInv, CalmsDown
  <2>5. restored' = "yes" => Repaired'
    <3>1. stage # "disturbed" => stage' # "disturbed"
      BY <1>1 DEF CalmsDown
    <3>2. QED
      BY <2>1, <3>1 DEF CInv, Repaired, AtWork, Shown, Agrees, Current
  <2>6. Accounted'
    BY <2>1 DEF CInv, Accounted, Agrees, Current, WorksOn
  <2>7. QED
    BY <2>2, <2>3, <2>4, <2>5, <2>6 DEF CInv
<1>2. ASSUME NEW p \in Procs, DisturbedStep(p) PROVE CInv'
  <2>1. restored # "yes" /\ restored' = restored /\ stage' = "disturbed" /\ Next
    BY <1>2 DEF CInv, Repaired, DisturbedStep, Next
  <2>2. IInv' /\ RemovalsAreFinal'
    BY <2>1, GraphStep, RemovalStep DEF CInv
  <2>3. QED
    BY <2>1, <2>2 DEF CInv, Accounted
<1>3. ASSUME NEW p \in Procs, CalmStep(p) PROVE CInv'
  BY <1>3, CalmStepKeeps
<1>4. ASSUME NEW r \in Rows, DueStep(r) PROVE CInv'
  <2>1. UNCHANGED <<truth, graph, nodes, proc, stage, restored, deferred>>
    BY <1>4 DEF DueStep, BecomesDue
  <2>2. \A i \in Rows : job'[i].status = job[i].status
    BY <1>4 DEF DueStep, BecomesDue, CInv, IInv, Stores, JobRow
  <2>3. IInv' /\ RemovalsAreFinal'
    BY <1>4, GraphStep, RemovalStep DEF CInv, DueStep, Next
  <2>4. stage' # "disturbed" => Careful'
    BY <2>1 DEF CInv, Careful, Solo, Idle, Knows, SyncKnows, RebuildKnows, Fresh, Shown, Agrees, Current
  <2>5. restored' = "yes" => Repaired'
    BY <2>1 DEF CInv, Repaired, AtWork, Shown, Agrees, Current
  <2>6. Accounted'
    BY <2>1, <2>2 DEF CInv, Accounted, Agrees, Current, WorksOn
  <2>7. QED
    BY <2>3, <2>4, <2>5, <2>6 DEF CInv
<1>5. ASSUME NEW e \in Edges, DeferStep(e) PROVE CInv'
  BY <1>5, DeferKeeps
<1>6. QED
  BY <1>1, <1>2, <1>3, <1>4, <1>5 DEF CalmNext, calmVars, CalmsDown

\* The inductive invariant of the projection that is operated with care.
THEOREM CalmInvariance == CalmSpec => []CInv
<1>1. CalmInit => CInv
  <2> SUFFICES ASSUME CalmInit PROVE CInv
    OBVIOUS
  <2>1. IInv
    BY GraphInit DEF CalmInit
  <2>2. RemovalsAreFinal
    BY DEF CalmInit, Init, IdleProc, RemovalsAreFinal, RemovalJobs, RemovalGood
  <2>3. QED
    BY <2>1, <2>2 DEF CalmInit, CInv, Accounted
<1>2. QED
  BY <1>1, CalmKeeps, PTL DEF CalmSpec

\* After one rebuild in calm, no difference between the graph store and
\* Postgres goes unnoticed: whatever crashes, lost marks and failing writes
\* left behind, a process projects the edge, a waiting job will, or nothing
\* has read the edge since it was written in defer mode.
THEOREM AccountedHolds == CalmSpec => []Accounted
BY CalmInvariance, PTL DEF CInv

\* In a projection operated with care only the steps of Spec happen, so that
\* its invariants hold there as well.
THEOREM CalmIsOrdinary == CalmSpec => Spec
<1>1. CalmInit => Init
  BY DEF CalmInit
<1>2. [CalmNext]_calmVars => [Next]_vars
  BY DEF CalmNext, calmVars, CalmsDown, DisturbedStep, CalmStep, DeferStep, DueStep, Next
<1>3. QED
  BY <1>1, <1>2, PTL DEF CalmSpec, Spec
=============================================================================
