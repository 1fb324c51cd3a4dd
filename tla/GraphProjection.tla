--------------------------- MODULE GraphProjection ---------------------------
(***************************************************************************)
(* The projection of the edges table into the graph store: after a write   *)
(* to Postgres has committed, GraphBuilder copies the edge to Neo4j, keeps *)
(* a retry job when that fails, retries the jobs, and rebuilds everything. *)
(*                                                                         *)
(* A transaction, and a write to the graph store, is one atomic step; the  *)
(* two stores share no transaction, so everything can happen in between.   *)
(***************************************************************************)
EXTENDS Naturals, FiniteSets

CONSTANTS
    Edges,       \* edges.edge_id
    Nodes,       \* the entities, all of them active
    Ends,        \* the two endpoints of an edge
    Procs,       \* processes that use a GraphBuilder
    Rows,        \* row identities of graph_projection_jobs
    OpOf,        \* the operation of a row identity
    EdgeOf,      \* the edge_id of a row identity
    NoEdge, NoRow,
    MaxVersion   \* bound: writes to one edge

Ops == {"upsert_edge", "remove_edge"}

ASSUME GraphAssumption == /\ Ends \in [Edges -> (SUBSET Nodes) \ {{}}]
                          /\ OpOf \in [Rows -> Ops]
                          /\ EdgeOf \in [Rows -> Edges]
                          /\ NoEdge \notin Edges /\ NoRow \notin Rows
                          /\ MaxVersion \in Nat
                          /\ Nodes # {}

VARIABLES
    truth,  \* the edges table
    graph,  \* the version of each edge in the graph store, 0 when it has none
    nodes,  \* the entities in the graph store
    job,    \* the rows of graph_projection_jobs
    proc    \* what each process remembers

vars == <<truth, graph, nodes, job, proc>>

-----------------------------------------------------------------------------
\* A version stands for the columns an applied candidate overwrites.
EdgeRow == [validity : {"absent", "current", "deprecated"}, version : Nat]

ActiveStatuses == {"pending", "failed", "in_progress"}
Statuses == ActiveStatuses \cup {"absent", "succeeded"}

JobRow == [status : Statuses, next : {"due", "later"}]  \* next_attempt_at

NoList == [e \in Edges |-> 0]

\* kind tells which method of GraphBuilder runs.  todo are the entities still
\* to be upserted, list the edges still to be upserted, as they were read.
\* pc "idle" with rest # {} is the point between two jobs of a retry batch.
ProcState == [pc   : {"idle", "reading", "nodes", "listing", "edges", "removing", "settling", "failing"},
              kind : {"none", "sync", "retry", "rebuild"},
              op   : Ops,
              edge : Edges \cup {NoEdge},
              row  : Rows \cup {NoRow},
              rest : SUBSET Rows,
              todo : SUBSET Nodes,
              list : [Edges -> Nat]]

IdleProc == [pc |-> "idle", kind |-> "none", op |-> "upsert_edge", edge |-> NoEdge,
             row |-> NoRow, rest |-> {}, todo |-> {}, list |-> NoList]

Init == /\ truth = [e \in Edges |-> [validity |-> "absent", version |-> 0]]
        /\ graph = NoList
        /\ nodes = {}
        /\ job = [r \in Rows |-> [status |-> "absent", next |-> "due"]]
        /\ proc = [p \in Procs |-> IdleProc]

-----------------------------------------------------------------------------
Active(r) == job[r].status \in ActiveStatuses

Of(op, e) == {r \in Rows : OpOf[r] = op /\ EdgeOf[r] = e}

ActiveRows(op, e) == {r \in Of(op, e) : Active(r)}

Held(p) == (proc[p].rest \cup {proc[p].row}) \ {NoRow}

\* A succeeded row nobody will write to again stands for the next new row.
Free(op, e) == {r \in Of(op, e) : ~Active(r) /\ \A p \in Procs : r \notin Held(p)}

Current(e) == truth[e].validity = "current"

\* applyApprovedCandidate: evidence is never appended to a deprecated edge.
Approve(e) ==
    /\ truth[e].validity # "deprecated"
    /\ truth[e].version < MaxVersion
    /\ truth' = [truth EXCEPT ![e].validity = "current", ![e].version = @ + 1]

\* deprecateEdge
Retire(e) ==
    /\ Current(e)
    /\ truth' = [truth EXCEPT ![e].validity = "deprecated"]

Idle(p) == proc[p] = IdleProc

Starts(p, pc, kind, op, e) ==
    /\ Idle(p)
    /\ proc' = [proc EXCEPT ![p].pc = pc, ![p].kind = kind, ![p].op = op, ![p].edge = e]

\* GraphBuilder.apply and deprecate with graphSyncMode "sync".
Apply(p, e) ==
    /\ Approve(e)
    /\ Starts(p, "reading", "sync", "upsert_edge", e)
    /\ UNCHANGED <<graph, nodes, job>>

Deprecate(p, e) ==
    /\ Retire(e)
    /\ Starts(p, "removing", "sync", "remove_edge", e)
    /\ UNCHANGED <<graph, nodes, job>>

\* The same with graphSyncMode "defer", the pipelines' default.
DeferredWrite(e) ==
    /\ Approve(e) \/ Retire(e)
    /\ UNCHANGED <<graph, nodes, job, proc>>

-----------------------------------------------------------------------------
Goes(p, pc) == proc' = [proc EXCEPT ![p].pc = pc]

\* Variant for TypeOK: the finished job is not forgotten.
ReturnsKeeping(p) == Goes(p, "idle")

\* A retry batch goes on with its next job; every other method returns.
Returns(p) ==
    proc' = [proc EXCEPT ![p] = IF proc[p].rest = {} THEN IdleProc
                                ELSE [IdleProc EXCEPT !.kind = "retry", !.rest = proc[p].rest]]

\* Variant for Accounted: the edge is upserted whatever its validity.
ReadEdgeAlways(p) ==
    LET e == proc[p].edge IN
    /\ proc[p].pc = "reading"
    /\ proc' = [proc EXCEPT ![p].pc = "nodes", ![p].todo = Ends[e],
                            ![p].list = [NoList EXCEPT ![e] = truth[e].version]]
    /\ UNCHANGED <<truth, graph, nodes, job>>

\* syncGraphEdge reads the row and then its endpoints; an edge that is no
\* longer current is removed instead.
ReadEdge(p) ==
    LET e == proc[p].edge IN
    /\ proc[p].pc = "reading"
    /\ IF Current(e)
       THEN proc' = [proc EXCEPT ![p].pc = "nodes", ![p].todo = Ends[e],
                                 ![p].list = [NoList EXCEPT ![e] = truth[e].version]]
       ELSE Goes(p, "removing")
    /\ UNCHANGED <<truth, graph, nodes, job>>

UpsertEntity(p, n) ==
    /\ proc[p].pc = "nodes"
    /\ n \in proc[p].todo
    /\ nodes' = nodes \cup {n}
    /\ proc' = [proc EXCEPT ![p].todo = @ \ {n},
                            ![p].pc = IF proc[p].todo # {n} THEN "nodes"
                                      ELSE IF proc[p].kind = "rebuild" THEN "listing" ELSE "edges"]
    /\ UNCHANGED <<truth, graph, job>>

\* A MERGE between endpoints that MATCH does not find writes nothing and
\* reports no error.
UpsertEdge(p, e) ==
    /\ proc[p].pc = "edges"
    /\ proc[p].list[e] # 0
    /\ graph' = IF Ends[e] \subseteq nodes THEN [graph EXCEPT ![e] = proc[p].list[e]] ELSE graph
    /\ proc' = [proc EXCEPT ![p].list[e] = 0,
                            ![p].pc = IF proc[p].kind = "rebuild" THEN "edges" ELSE "settling"]
    /\ UNCHANGED <<truth, nodes, job>>

RemoveEdge(p) ==
    /\ proc[p].pc = "removing"
    /\ graph' = [graph EXCEPT ![proc[p].edge] = 0]
    /\ Goes(p, "settling")
    /\ UNCHANGED <<truth, nodes, job>>

-----------------------------------------------------------------------------
SucceedRows(R) == job' = [r \in Rows |-> IF r \in R THEN [job[r] EXCEPT !.status = "succeeded"] ELSE job[r]]

\* The jobs the sync settles: apply and deprecate settle whatever job is
\* active for the edge, a retry settles its own row, whatever its status.
Settled(p) ==
    IF proc[p].kind = "retry" THEN {proc[p].row} ELSE ActiveRows(proc[p].op, proc[p].edge)

\* The mark commits, or its acknowledgement is lost, or it is rolled back.
Settle(p) ==
    /\ proc[p].pc = "settling"
    /\ \/ SucceedRows(Settled(p)) /\ (Returns(p) \/ Goes(p, "failing"))
       \/ Goes(p, "failing") /\ UNCHANGED job
    /\ UNCHANGED <<truth, graph, nodes>>

\* The graph store, or the read of the edge, fails: the sync goes to its catch
\* block, a rebuild is abandoned.
GraphFails(p) ==
    /\ proc[p].pc \in {"reading", "nodes", "listing", "edges", "removing"}
    /\ IF proc[p].kind = "rebuild"
       THEN proc' = [proc EXCEPT ![p] = IdleProc]
       ELSE proc' = [proc EXCEPT ![p].pc = "failing", ![p].todo = {}, ![p].list = NoList]
    /\ UNCHANGED <<truth, graph, nodes, job>>

Delay(r, status) == job' = [job EXCEPT ![r] = [status |-> status, next |-> "later"]]

\* recordGraphProjectionFailure: ON CONFLICT makes the active row of the edge
\* pending again, also one that another process is retrying.
RecordFailure(p) ==
    LET A == ActiveRows(proc[p].op, proc[p].edge)
        F == Free(proc[p].op, proc[p].edge)
    IN  /\ proc[p].pc = "failing" /\ proc[p].kind = "sync"
        /\ \E r \in (IF A # {} THEN A ELSE F) : Delay(r, "pending")
        /\ Returns(p)
        /\ UNCHANGED <<truth, graph, nodes>>

\* Recording the failure fails too: it is only logged.
FailureIsLost(p) ==
    /\ proc[p].pc = "failing" /\ proc[p].kind = "sync"
    /\ Returns(p)
    /\ UNCHANGED <<truth, graph, nodes, job>>

\* Variant for OneActiveRow: the index forgets the rows in progress.
IndexAllowsRetry(r) == {i \in ActiveRows(OpOf[r], EdgeOf[r]) \ {r} : job[i].status # "in_progress"} = {}

\* What idx_graph_projection_jobs_active lets a failed row do.
IndexAllows(r) == ActiveRows(OpOf[r], EdgeOf[r]) \ {r} = {}

\* markGraphProjectionJobFailed has only the job_id in its WHERE clause.
MarkFailed(p) ==
    /\ proc[p].pc = "failing" /\ proc[p].kind = "retry"
    /\ IndexAllows(proc[p].row)
    /\ Delay(proc[p].row, "failed")
    /\ Returns(p)
    /\ UNCHANGED <<truth, graph, nodes>>

\* The index rejects the mark, or the database is away: nothing catches the
\* exception and the rest of the batch stays in progress.
MarkFailedThrows(p) ==
    /\ proc[p].pc = "failing" /\ proc[p].kind = "retry"
    /\ proc' = [proc EXCEPT ![p] = IdleProc]
    /\ UNCHANGED <<truth, graph, nodes, job>>

-----------------------------------------------------------------------------
\* Variant for Converges: a retry that failed is not tried again.
ClaimableOnce(r) == job[r].status = "pending" /\ job[r].next = "due"

\* The rows claimDueGraphProjectionJobs may return.
Claimable(r) == job[r].status \in {"pending", "failed"} /\ job[r].next = "due"

\* retryGraphProjectionJobs: LIMIT and SKIP LOCKED may leave out any row.
StartRetry(p, C) ==
    /\ Idle(p)
    /\ C # {} /\ \A r \in C : Claimable(r)
    /\ job' = [r \in Rows |-> IF r \in C THEN [job[r] EXCEPT !.status = "in_progress"] ELSE job[r]]
    /\ proc' = [proc EXCEPT ![p].kind = "retry", ![p].rest = C]
    /\ UNCHANGED <<truth, graph, nodes>>

NextJob(p, r) ==
    /\ proc[p].pc = "idle"
    /\ r \in proc[p].rest
    /\ proc' = [proc EXCEPT ![p].pc = IF OpOf[r] = "upsert_edge" THEN "reading" ELSE "removing",
                            ![p].op = OpOf[r], ![p].edge = EdgeOf[r],
                            ![p].row = r, ![p].rest = @ \ {r}]
    /\ UNCHANGED <<truth, graph, nodes, job>>

\* rebuildGraphProjection: clear, upsert the entities, list the current edges,
\* upsert them.
ClearGraph(p) ==
    /\ Idle(p)
    /\ graph' = NoList
    /\ nodes' = {}
    /\ proc' = [proc EXCEPT ![p].pc = "nodes", ![p].kind = "rebuild", ![p].todo = Nodes]
    /\ UNCHANGED <<truth, job>>

ListEdges(p) ==
    /\ proc[p].pc = "listing"
    /\ proc' = [proc EXCEPT ![p].pc = "edges",
                            ![p].list = [e \in Edges |-> IF Current(e) THEN truth[e].version ELSE 0]]
    /\ UNCHANGED <<truth, graph, nodes, job>>

Rebuilt(p) == proc[p].pc = "edges" /\ proc[p].kind = "rebuild" /\ proc[p].list = NoList

FinishRebuild(p) ==
    /\ Rebuilt(p)
    /\ proc' = [proc EXCEPT ![p] = IdleProc]
    /\ UNCHANGED <<truth, graph, nodes, job>>

Crash(p) ==
    /\ ~Idle(p)
    /\ proc' = [proc EXCEPT ![p] = IdleProc]
    /\ UNCHANGED <<truth, graph, nodes, job>>

BecomesDue(r) ==
    /\ job[r].next = "later"
    /\ job' = [job EXCEPT ![r].next = "due"]
    /\ UNCHANGED <<truth, graph, nodes, proc>>

-----------------------------------------------------------------------------
Begins(p) ==
    \/ \E e \in Edges : Apply(p, e) \/ Deprecate(p, e)
    \/ \E C \in SUBSET Rows : StartRetry(p, C)
    \/ ClearGraph(p)

Proceeds(p) ==
    \/ ReadEdge(p)
    \/ \E n \in Nodes : UpsertEntity(p, n)
    \/ ListEdges(p)
    \/ \E e \in Edges : UpsertEdge(p, e)
    \/ RemoveEdge(p)
    \/ Settle(p)
    \/ RecordFailure(p)
    \/ MarkFailed(p)
    \/ \E r \in Rows : NextJob(p, r)
    \/ FinishRebuild(p)

Disturbs(p) == FailureIsLost(p) \/ MarkFailedThrows(p) \/ Crash(p)

Next == \/ \E p \in Procs : Begins(p) \/ Proceeds(p) \/ GraphFails(p) \/ Disturbs(p)
        \/ \E e \in Edges : DeferredWrite(e)
        \/ \E r \in Rows : BecomesDue(r)

Spec == Init /\ [][Next]_vars

-----------------------------------------------------------------------------
Register == INSTANCE EdgeRegister WITH row <- truth

\* What the projection presumes of the edges table is no more than what the fact
\* store implements as well.
ImplementsRegister == Register!RegisterSpec

\* Every variable has the type its columns and fields allow, and a process has
\* an edge exactly while it projects one.
TypeOK == /\ truth \in [Edges -> EdgeRow]
          /\ graph \in [Edges -> Nat]
          /\ nodes \in SUBSET Nodes
          /\ job \in [Rows -> JobRow]
          /\ proc \in [Procs -> ProcState]
          /\ \A p \in Procs :
                proc[p].edge = NoEdge <=> proc[p].pc = "idle" \/ proc[p].kind = "rebuild"

\* An edge never has two active jobs of the same operation, whatever a stale
\* retry writes: the partial unique index and the ON CONFLICT of
\* recordGraphProjectionFailure.
OneActiveRow == \A r \in Rows : Active(r) => ActiveRows(OpOf[r], EdgeOf[r]) = {r}

\* The graph store shows the edge as Postgres has it.
Agrees(e) == graph[e] = IF Current(e) THEN truth[e].version ELSE 0

=============================================================================
