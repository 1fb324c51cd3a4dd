------------------------- MODULE GraphProjectionCalm -------------------------
(***************************************************************************)
(* What the projection guarantees when it is operated with care.  At first *)
(* anything happens; then (stage "quiet") one process at a time works on   *)
(* the graph store, none crashes and Postgres accepts its marks; in the    *)
(* end (stage "healthy") the graph store does not fail any more.           *)
(* Everything the disturbances left behind, in the graph store and in the  *)
(* job table, stays there.                                                 *)
(*                                                                         *)
(* Writes with graphSyncMode "defer", the pipelines' default, go on in     *)
(* every stage and at any moment, also between the steps of the process    *)
(* that works.  They leave no job: nothing shows them until something else *)
(* reads the edge, another write to it, its retry, or a rebuild.  deferred *)
(* remembers which edges have such a write.                                *)
(***************************************************************************)
EXTENDS GraphProjection

VARIABLES
    stage,    \* "disturbed", "quiet" or "healthy"
    restored, \* "yes" once a rebuild was completed in calm, "no" during the next
    deferred  \* the edges with a deferred write that no process has seen since

calmVars == <<vars, stage, restored, deferred>>

CalmInit == Init /\ stage = "disturbed" /\ restored = "no" /\ deferred = {}

AllIdle == \A p \in Procs : Idle(p)

CalmsDown ==
    /\ \/ stage = "disturbed" /\ AllIdle /\ stage' = "quiet"
       \/ stage = "quiet" /\ stage' = "healthy"
    /\ UNCHANGED <<vars, restored, deferred>>

\* A rebuild starts by clearing the graph and ends when its list is empty.
NotesRebuild(p) ==
    restored' = IF proc[p].kind # "rebuild" /\ proc'[p].kind = "rebuild" THEN "no"
                ELSE IF Rebuilt(p) /\ proc'[p] = IdleProc /\ stage # "disturbed" THEN "yes"
                ELSE restored

\* A sync and a rebuild see what Postgres has when they read it; deprecate
\* writes the edge itself and goes straight to the removal.
Sees(p, e) ==
    \/ proc[p].pc = "listing" /\ proc'[p].pc = "edges"
    \/ /\ proc[p].pc \in {"idle", "reading"} /\ proc'[p].pc \in {"nodes", "removing"}
       /\ proc'[p].edge = e

NotesReads(p) == deferred' = {e \in deferred : ~Sees(p, e)}

DisturbedStep(p) ==
    /\ stage = "disturbed"
    /\ Begins(p) \/ Proceeds(p) \/ GraphFails(p) \/ Disturbs(p)
    /\ NotesReads(p)
    /\ UNCHANGED <<stage, restored>>

CalmStep(p) ==
    /\ stage # "disturbed"
    /\ \A q \in Procs \ {p} : Idle(q)
    /\ Begins(p) \/ Proceeds(p) \/ (stage = "quiet" /\ GraphFails(p))
    /\ NotesRebuild(p)
    /\ NotesReads(p)
    /\ UNCHANGED stage

DeferStep(e) ==
    /\ DeferredWrite(e)
    /\ deferred' = deferred \cup {e}
    /\ UNCHANGED <<stage, restored>>

DueStep(r) == BecomesDue(r) /\ UNCHANGED <<stage, restored, deferred>>

CalmNext == \/ CalmsDown
            \/ \E p \in Procs : DisturbedStep(p) \/ CalmStep(p)
            \/ \E e \in Edges : DeferStep(e)
            \/ \E r \in Rows : DueStep(r)

CalmSpec == CalmInit /\ [][CalmNext]_calmVars

\* A started method runs to its end; the operator keeps retrying what is due.
LiveSpec == /\ CalmSpec
            /\ \A p \in Procs : WF_calmVars(CalmStep(p) /\ Proceeds(p))
            /\ \A r \in Rows : /\ WF_calmVars(DueStep(r))
                               /\ SF_calmVars(\E p \in Procs, C \in SUBSET Rows :
                                                 CalmStep(p) /\ r \in C /\ StartRetry(p, C))

-----------------------------------------------------------------------------
WorksOn(p, e) == proc[p].edge = e \/ \E r \in proc[p].rest : EdgeOf[r] = e

\* After one rebuild in calm, every difference between the graph store and
\* Postgres is accounted for: a process is still projecting the edge, a job
\* that will be claimed again waits for it, or the edge was written in defer
\* mode and nothing has read it since.  So a write that was to be synced, and
\* one that a rebuild or a retry has seen, is never lost from sight, however
\* the deferred writes fall between the steps of the process.
Accounted ==
    restored = "yes" =>
        \A e \in Edges : \/ Agrees(e)
                         \/ \E p \in Procs : WorksOn(p, e)
                         \/ \E r \in Rows : EdgeOf[r] = e /\ job[r].status \in {"pending", "failed"}
                         \/ e \in deferred

\* After one rebuild in calm, and once the graph store stays up, every edge
\* without an unseen deferred write is shown as Postgres has it, again and
\* again, unless such a write comes first.
Converges ==
    \A e \in Edges : (stage = "healthy" /\ restored = "yes" /\ e \notin deferred)
                         ~> (Agrees(e) \/ e \in deferred)

-----------------------------------------------------------------------------
\* A failed projection is retried: its job does not stay active for ever.
FailureIsRetried ==
    \A r \in Rows : (stage = "healthy" /\ Active(r)) ~> ~Active(r)

PostgresStats == <<Cardinality(Nodes), Cardinality({e \in Edges : Current(e)})>>

\* Neo4jGraphStore.stats: its second MATCH yields no row when there is no edge.
GraphStats ==
    LET E == {e \in Edges : graph[e] # 0}
    IN  IF E = {} THEN <<0, 0>> ELSE <<Cardinality(nodes), Cardinality(E)>>

\* checkConsistency reports a graph that was rebuilt, and that shows every edge
\* as Postgres has it, as synced.
RebuiltIsSynced ==
    restored = "yes" /\ AllIdle /\ (\A e \in Edges : Agrees(e)) => GraphStats = PostgresStats
=============================================================================
