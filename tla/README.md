# A verification project for SupplyStrata

SupplyStrata collects public documents about supply chains, extracts candidate
facts from them, lets humans approve those facts, and keeps the approved ones as
evidence-backed edges in Postgres, projected into Neo4j. This directory holds
TLA+ specifications of the parts of it that several processes share, the TLC
configurations that check them on small instances, and TLAPS proofs of the most
important theorems for every value of the constants.

Almost all state lives in Postgres tables. Processes (worker loops, CLI
commands, API and MCP servers) hold no locks across transactions: each reads
rows in one transaction, works for seconds or minutes, and writes in another.
What can go wrong is therefore mostly *between* transactions, and that is where
the models put their steps.

## 1. Inventory

| component | state | operations | hard behaviour | what makes it correct |
|---|---|---|---|---|
| source check queue (`source-monitor`, `source-workflows`, `worker`) | `source_check_targets.next_check_at/enabled`, `source_check_jobs` | enqueue due, claim with lease, run, mark succeeded / failed, configure, manual check | leases that run out under a live worker, stale marks, lost commit acknowledgements, crashes in a batch, backoff, burial | one active job per target; leases exclusive; counters and statuses agree; every target is checked again and again |
| source observation (`source-observation-events`, `source-check-runner`) | `source_items`, `source_health`, change events | fetch, record document / failure / degradation | concurrent checks of one source, waiting for two locks in a transaction, fall-back to cached snapshots, crashes | the events read as a log of indivisible results; items and health end up at what is true |
| document promotion (`source-checks`, `promote-document-facts`, `backfill-document-facts`) | none of its own; writes facts | promote after a check, re-extract (`db reextract-facts`) | failure after the observation was committed, checks without a promoter, lost summaries | every changed document is promoted, by whichever check recorded it |
| review gate (`review-store`, `pipeline/review-apply*`) | `review_candidates` | enqueue, hand out, decide, claim approved, apply, block | decision overtaking a claimed batch, two appliers, read outside / write inside a transaction, errors after a commit | a fact is written once and only under a standing approval; final decisions stay final; a claimed candidate is settled |
| fact store (`graph-builder/sql-*`, `db/edges`, `evidence`) | `edges`, `evidence`, change records | apply a candidate, supersede evidence, choose the primary evidence, deprecate | several documents and extractors behind one edge, primary evidence that is superseded, level and inference updated by different rules | evidence is superseded by its own origin only; the edge cites the best live evidence; its level is the highest it ever had |
| graph projection (`graph-builder`, `graph`, `db/graph-projection-jobs`) | `edges`, `graph_projection_jobs`, Neo4j | apply, deprecate, deferred write, retry, rebuild, consistency check | two stores without a common transaction, failures at every step, retries that race newer writes, crashes | one active job per edge and operation; differences are accounted for; retries converge |
| claims (`claim-builder`, `db/claims`, conflict reviews) | `claims`, `claim_evidence`, `unknown_items` of claims | build in batches from listed edges, edit, retire, contradict, acknowledge a removal, confirm | builds that work from old lists, people who act during a build, upserts over retired and edited claims | terminal and edited claims keep their content; a conflict stands until reviewed; claims catch up with their edges |
| research runs (`source-workflows/research-run*`) | `research_runs`, and the targets and jobs of the queue | reuse a fresh run, create, force, derive the status | look and creation in separate transactions, jobs shared by several runs, status never stored back | "succeeded" means checked since the run; overlapping reports leave few runs |
| MCP write surface (`apps/mcp`) | pending writes, in memory | create, confirm, refuse, expire | repeated and failing confirmations, loss with the process | a confirmed write runs at most once |
| source adapter runtime | snapshots on disk | fetch, fall back to a snapshot, throw | a snapshot of another document of the partition, stale cache | a fall-back is reported as such |
| alerts, unknowns, leads (`evidence-maintenance`) | their tables | upsert, resolve | upserts over resolved rows | resolved rows are not reopened silently |
| AI analysis runs | `ai_analysis_runs` | append | none | — |

The rest (research pack, workbench export, cards, chain views, rendering, web and
preview, language-model helpers, data quality, registries, plans, parsers,
connectors, extractors, scorers, resolvers) is read-only derivation, pure
functions or I/O; `PROJECT.json` lists each part with the reason it is left out.

How the components interact. A *research run*, an operator or the passing of
time makes targets due; the *queue* hands them to workers, whose *source checks*
fetch documents, record *observations* (moving `next_check_at`) and *promote*
facts. What may not be promoted automatically becomes a *review candidate*;
*applying* an approved one writes the *fact store*; the *graph projection*
copies its edges, and *builds* make *claims* of them. The components share the
database and nothing else: no component calls back into another one.

## 2. Modules

| module | models | rests on |
|---|---|---|
| `JobLedger` | abstractly, what others may rely on of `source_check_jobs` | |
| `SourceCheckJobs` | the source check queue; implements `JobLedger` | |
| `SourceCheckJobsLive` | the same with a moment after which nothing disturbs it, and fairness | `SourceCheckJobs` |
| `ObservationLog` | abstractly, what recording the checks of a source promises | |
| `SourceObservation`, `SourceObservationLive` | checking one source; implements `ObservationLog` | |
| `ReviewGate` | abstractly, what the review gate promises | |
| `ReviewQueue`, `ReviewQueueLive` | the review gate; implements `ReviewGate` | |
| `EdgeRegister` | abstractly, what others may rely on of `edges` | |
| `FactStore` | edges and their evidence; implements `EdgeRegister` | |
| `EdgeClaims`, `EdgeClaimsLive` | claims, composed with the fact store they are built from | `FactStore` |
| `GraphProjection`, `GraphProjectionCalm` | the graph projection; its `truth` implements `EdgeRegister` | |
| `ResearchRuns` | research runs and pending writes, composed with the job ledger | `JobLedger` |
| `MC*` | row identities, plans and symmetry for TLC | |
| `*_proofs` | proofs (section 5) | |

**Common conventions.** A transaction is one atomic step: the code runs each in
`store.transaction`, and the row locks (`FOR UPDATE SKIP LOCKED`), the guarded
`UPDATE ... WHERE` and the partial unique indexes make the modelled ones
serialisable; an index is a guard on the step that would violate it, and the
step that it rejects throws. `SourceObservation` is the exception: there the
locks themselves are the point, and a transaction is taken apart at each lock
it waits for. A process that awaits between two transactions has a program
counter between them. Any claim may leave out any row, which covers `LIMIT`,
`SKIP LOCKED`, the ordering and the target filters at once. A commit whose
acknowledgement is lost is a step of its own outcome: the row changes *and* the
caller takes its error path. `Crash` forgets everything a process holds. A
definition commented "Variant for" is a changed form of the definition after
it, with which TLC must find the named property violated (section 3).

### SourceCheckJobs

`enabled` is target and policy enabled together, `nextCheck` the minutes until
`COALESCE(t.next_check_at, p.next_check_at)`, `job` the rows of
`source_check_jobs`, `worker` what a call of `runDueSourceChecks` keeps in
memory. Time is relative, so no clock grows: a timestamp is modelled by the
minutes that remain, `Tick` lets one pass, and `age` is the distance of a batch
from its `input.now`, capped at `Cadence` because a next check that lies in the
past is simply due. A job identity that is terminal and held by nobody may be
reused for a new row, so a few identities stand for an unbounded table:
`FreshJob` always exists with one more identity than workers.

`StartCycle` is the transaction of `enqueueAndClaimDueSourceCheckJobs`.
`BeginJob` … `MarkFailed` are one turn of the loop over the claimed jobs:
`RecordObservation` happens any number of times (also zero: an adapter may plan
no task), `CheckFails` may or may not have recorded the failure,
`MarkSucceeded` has three outcomes (committed, committed but reported as
failed, rolled back) and `MarkFailed` ends the batch when it throws.
`ConfigureTarget`, `ManualCheck` and `ResearchRun` are the other writers of
targets.

`JobLedger` is what a reader of the `status` column may rely on: rows start
waiting, beside no other unsettled row of their target; only waiting or new rows
are taken; only a row that was taken is marked, and never as failed beside
another unsettled row. `ImplementsLedger` maps `status` to the column, and
`OneUnsettled` states what the ledger is kept for.

### SourceObservation

One source, its documents `Items` and the tasks `Plan` its adapter yields.
`world` is external: what each document says now and whether it can be fetched.
`FetchLive`, `FetchFallsBack` and `FetchThrows` are the outcomes of
`fetchOrLoadCachedSnapshot`; the fall-back takes any snapshot of the partition
(`Partition`: a directory per prefix and year), whichever document left it.
`OpenTransaction` waits for the row of `source_health`, which `ON CONFLICT DO
UPDATE` keeps locked, `LockItem` for the advisory lock, and `CommitObservation`
writes the item, the health and the event and frees both. A process that fails
drops the summaries of the documents it has recorded so far. `Promote` is
`promoteSourceCheckFacts`, whose failures are only logged; `Readers` have no
promoter (the inline checks of a read-through report); `Reextract` is the
operator's `db reextract-facts`.

`ObservationLog` has no processes and no locks: each result is one entry, which
starts from the state the previous one left. `ImplementsLog` maps the three
database variables to it and everything else to stuttering.

### ReviewQueue

`cand` holds status, the number of the decision standing for `reviewed_at`, and
the latest verdict in the change records; `fact` counts what the apply
strategies committed and which decision the evidence cites; `proc` are the
processes in `applyApprovedReviewCandidate(s)`. `ReadItem` is the read outside
any transaction; `Applies`, `FindsBlocker`, `Refuses` and `Throws` are the
outcomes of a strategy's transaction. Candidates in `Locking` are of the kind
whose strategy locks and re-checks the row (supplier list rows); the others
(entities and the acknowledgements) rely on the mark's `WHERE` clause. `Decide`
may hit a candidate that a batch has claimed, because both are `in_review`.
The bound `MaxDecisions` caps the decisions on one candidate.

`ReviewGate` knows only verdicts and written facts; `ImplementsGate` maps
`verdict` and `written` to the verdict of a candidate and the count of its facts.

### FactStore and EdgeClaims

`edge` is the row of an edge (validity, level, `is_inferred`, primary evidence),
`evidence` its evidence rows in the order of their insertion; a reference to
evidence is its place in that order. An `Origin` is a document read by one
extractor, the key `supersedeOlderEvidence` matches on. `ApplyCandidate` is all
of `applyApprovedCandidateToSql`: supersede, insert, upsert the edge (the level
by `GREATEST`, the inference by `EXCLUDED`), choose the best live evidence.
`DeprecateEdge` leaves the evidence.

`EdgeRegister` is what readers of `edges` may rely on, whatever the evidence: a
row is written again and again until it is deprecated, and then never. Of the
fact store its version is the number of evidence rows, of the projection it is
`truth`: so the projection presumes no more of the table than the fact store
provides (`ImplementsRegister` of both modules).

In `EdgeClaims` a builder lists the claimable edges (`ListClaimable`, outside of
any transaction) and writes them in batches; `BuildBatch` uses the level and
primary evidence it has listed, and the evidence it reads now. When the listed
primary evidence was superseded in between, the batch throws and the build ends.
`EditClaim`, `RetireClaim`, `LinkContradiction`, `AcknowledgeRemoval` and
`ConfirmClaim` are what people do meanwhile. `Adjudication` is
`adjudicateClaimConflict`.

### GraphProjection

`truth` is an edge's validity with a version for everything an applied candidate
overwrites, `graph` the version Neo4j shows (0: none), `nodes` its entities,
`job` the retry jobs, `proc` the method of `GraphBuilder` each process is in.
`Apply` and `Deprecate` are committed writes with the sync still to come;
`DeferredWrite` is the same in `defer` mode, the pipelines' default, which never
syncs. Every statement sent to Neo4j is a step and may fail (`GraphFails`);
`UpsertEdge` is Cypher's `MATCH … MERGE`, which does nothing when an endpoint is
missing. `MaxVersion` caps the writes to one edge; attempts are left out because
a projection job has no limit on them and only delays depend on them.
`GraphProjectionCalm` adds the operating conditions: first anything happens,
then one process at a time works on the graph store and Postgres keeps accepting
marks, then the graph store stays up. What the first phase left in either store
stays. Writes in `defer` mode never calm down: the pipelines
(`promote-document-facts.ts:193`, the backfill, `review-apply-supplier-list.ts:339`,
`graph-dq-cards.ts:70`) go on making them in every phase and between any two steps of
the process that works (`DeferStep`). Such a write leaves no job; as
`graph-builder/src/index.ts:60` says, a later rebuild makes up for it. Until then
nothing shows it but a sync after another write, or a retry that was waiting
anyway. The history variable `deferred` is the set of edges with
a deferred write that nothing has read since (`Sees`); `Accounted` and `Converges`
except exactly these, and everything else has a process or a job that will show it.

### ResearchRuns

`run` are the rows of `research_runs` with what later decisions depend on: the
stored status, whether the row is young enough to be used again, whether a
report created it for want of a fresh one, and whether it enqueued its checks.
`call` are requests between the look for a reusable run (`Ensure`) and the
creation (`Create`, `Block`, `CreateFails`), which are separate transactions;
`write` are the pending writes of the MCP tool that starts a session. `Reported`
is `deriveResearchRunStatus` over the jobs of the run's targets, those of other
runs included. Of the queue the module uses `JobLedger` alone: `Create`, `Work`
and `Settle` are steps of the ledger, and `SourceCheckJobs` implements it, so
what holds here holds beside the real queue, stale marks included. `checked` and
`executed` are history variables.

## 3. Runs

| run | instance | checks | distinct states |
|---|---|---|---|
| `source_check_deep` | 1 target, 2 workers, 3 row identities, 2 attempts, lease 2, backoff up to 2 | `TypeOK`, `OneActiveJob`, `StatusAgrees`, `AttemptsOvershoot`, `ImplementsLedger` | 125 212 |
| `source_check_timely` | 2 targets, 2 workers, lease 2, 1 attempt | `LeaseIsExclusive`, `DeadStaysDead`, `AttemptsWithinBudget` | 166 992 |
| `source_check_live` | 1 target, 2 workers, fairness | `EveryJobFinishes`, `EveryTargetIsChecked` | 40 528 |
| `source_observation` | 1 document with 2 contents, a check and an inline check, fairness | `TypeOK`, `ImplementsLog`, `ItemsCatchUp`, `HealthSettles` | 251 672 |
| `promotion_rerun` | 2 documents in one partition, a check and an inline check | `RerunsMakeUp` is violated | |
| `review_queue` | 2 candidates (one locking), 2 processes, 2 decisions | `TypeOK`, `AppliedExactlyOnce`, `ApprovalStands`, `DecisionsAreFinal`, `ClaimedIsSettled`, `ImplementsGate` | 98 582 |
| `review_stale` | 1 candidate, 1 process | `EvidenceCitesDecision` is violated | |
| `edge_claims` | 1 edge, 2 origins, levels 3 and 4, 2 evidence rows, 2 builds, 1 removal, fairness | `TypeOK`, `SupersededByItsOrigin`, `PrimaryIsBest`, `ListedIsCitable`, `LevelIsHighest`, `HandsOff`, `ConflictStands`, `ClaimsCatchUp` | 257 554 |
| `graph_projection` | 1 edge, 2 processes, 2 rows per operation, 2 versions, fairness | `TypeOK`, `OneActiveRow`, `Accounted`, `Converges` | 201 003 |
| `graph_stuck` | 1 edge, 1 version | `FailureIsRetried` is violated | |
| `graph_stats` | 1 edge, 1 process | `RebuiltIsSynced` is violated | |
| `research_runs` | 1 target with 2 rows, 3 runs, 2 requests, 1 pending write | `TypeOK`, `SucceededIsChecked`, `ConfirmedOnce`, `OverlapBoundsRuns` | 954 488 |

*Bounds.* Two workers, processes or builds are the fewest that race; every
hazard found is a race of two holders of one row or one list.
- *Queue.* Three identities of one target let a stale worker hold an old row
  while another is active and a third is inserted; two attempts let a job wait
  for its backoff before it dies; `Lease` 2 separates "claimed", "still leased"
  and "run out". Two targets are needed only where a batch with several jobs
  matters (`source_check_timely`).
- *Observation.* Two contents let a document change under a check and change
  back. The failure count is kept up to `MaxFailures` 1: the properties ask only
  whether it is zero. Two documents matter where a run loses the summary of the
  first at the second (`promotion_rerun`).
- *Gate.* Two decisions make a first and a second `reviewed_at`.
- *Facts and claims.* Levels 3 and 4 lie on both sides of the line between
  inferred and disclosed. Two evidence rows are a superseded and a live one, or
  live ones of two origins; two builds make one list older than the other.
- *Projection.* Two versions make a stale upsert visible, and let a deferred write
  overtake a sync, a retry or a rebuild of the same edge. One entity stands for
  both ends of the edge: both are upserted before it and cleared only together.
- *Runs.* Three runs for two requests, so that `OverlapBoundsRuns` is not true
  for want of runs; two rows of the shared target let a later run meet the
  settled job of an earlier one. No row is used twice, because the status of a
  run depends on old rows.

The jobs of different targets, the candidates and the edges do not interact
otherwise, which the proofs confirm for any number.

*Deadlock* is checked in every passing run but `edge_claims`: once it is calm and
no edge is claimable, the builds have nothing left to do.

*Fairness.* `SourceCheckJobsLive`: a worker that has not crashed goes on with
its batch (each fetch has a timeout); cycles keep being started, by the polling
loop or by whoever restarts it after an exception; a row that can be claimed
again and again is not left out for ever, which holds when `LIMIT` (50) is at
least the number of due targets. `SourceObservationLive`: a check goes on, and
the source is checked again and again, which is `EveryTargetIsChecked` of the
queue; nobody has to run `Reextract`. `ReviewQueueLive`: a running batch goes
on. `EdgeClaimsLive`: builds are started again and run to their end.
`GraphProjectionCalm`: a started method runs to its end, a delayed job becomes
due, and somebody keeps calling `retryProjectionJobs`. Nothing in the
repository schedules the retries and the builds, so for those two fairness is
an assumption on the operator.

*Every property is broken by a mutant.* `PROJECT.json` names, for each property
of a passing run, a definition and a changed form of it (a dropped status test,
a row read without its lock, a lease that is not waited for, a late burial) with
which TLC finds the property violated.

## 4. What the checks found

1. **Evidence may cite an overtaken decision** (`review_stale`). The supplier
   list strategy locks and re-reads the row, but uses `reviewed_at` of the item
   it read before.
2. **A retry job can be stuck** (`graph_stuck`). A claim sets `in_progress`
   without a lease; when the process dies nothing claims the row again. A later
   failing sync of the same edge would make it pending again, and a successful
   one would settle it, but nothing makes either happen.
3. **A graph without edges is never in sync** (`graph_stats`): the second
   `MATCH` of `stats()` yields no row.
4. **A rerun does not make up for a missed promotion** (`promotion_rerun`).
   Promotion skips what its check found unchanged, on the ground that its facts
   were written before. That is not so for a document that an inline check of a
   report recorded, one whose promotion failed, and one whose summary was lost
   when a later task of the run threw. The comments say that reruns, or
   `run_source_check`, make up for it; only the operator's re-extraction does.

Met while modelling, and stated by no run because the behaviour is either
documented nowhere or outside of what is modelled:

- Without the timing assumption of `TimelySpec` a dead job can be revived: the
  marks have only the `job_id` in their `WHERE` clause, so a worker that outlives
  its lease turns a job that another worker buried into a succeeded one.
- A job that kills its worker each time is reclaimed for ever, and a claim with
  fewer places than due jobs can starve low priorities.
- The level of an edge is the highest it ever had (`sql-store.ts:111`), its
  inference that of the newest candidate (`:113`): a weaker candidate makes a
  level 4 edge an inferred one, which leaves the default views. A claim's level,
  too, may come from evidence that was superseded.
- A refresh of claims cites contradicting evidence as support again (the unknown
  keeps the conflict open, `ConflictStands`), and refreshes links and records
  a change for claims it does not touch because they are terminal. Links to
  superseded evidence keep the role `primary`. Evidence linked again after its
  unknown was resolved leaves the unknown resolved.
  `linkContradictingEvidenceToClaim` has no caller in the repository outside of tests.
- An edge written in `defer` mode stays as it was in Neo4j, without a job, until
  something reads it again; `graph check` compares counts only, so it does not
  show an edge whose columns changed. `graph rebuild` is what the quickstart
  names for a graph that is out of sync.
- Two processes that project the same edge in `sync` mode may leave a difference
  without a job: one reads the edge, the other deprecates and removes it, the
  first upserts it. `Accounted` is about one such process at a time.
- A research run whose checks were not enqueued (`enqueue_source_checks: false`)
  may be reported succeeded because of older jobs. A dead job of a target makes
  every run of the namespace failed for good. Failed and blocked runs are reused
  as long as they are fresh. The profile of a session is dropped at the first failure that
  will be retried, and kept for ever when its transaction fails. Pending writes that
  nobody confirms are never removed.

## 5. Proofs

All theorems hold for arbitrary, also infinite, sets of targets, rows,
candidates, processes, edges, nodes and documents, from the named assumptions of
the modules (`JobsAssumption`, `WorkersAssumption`, `TimingAssumption`,
`ObservationAssumption`, `ReviewAssumption`, `FactAssumption`,
`GraphAssumption`, `ResearchAssumption`) only. What has to be finite is what a
property counts: the workers (`WorkersAssumption`, for `AttemptsOvershoot`) and
the requests and runs (`ResearchAssumption`, for `OverlapBoundsRuns`).

Every safety property a passing run checks is a theorem. The theorems are about
the plain specifications, except where a section says otherwise; several runs
check one with a calm and fairness added (`LiveSpec`). `LiveIsOrdinary` (in four
modules) and `CalmIsOrdinary` prove that these take no step the plain ones do
not allow, so the theorems hold of what the runs check.

* `SourceCheckJobs_proofs`: `TypeOK`, `OneActiveJob` and `StatusAgrees` under
  `Spec`, every interleaving and stale mark included. The inductive invariant
  `IInv` adds to them only that a worker names a job exactly while it runs one.
  A claim keeps one active job per target because it moves rows between active
  statuses; an enqueue because `DueTargets` excludes targets with an active job;
  a stale mark because `IndexAllows` does. `JobsImplementLedger` shows the
  refinement; it needs one fact more, `HeldTaken`: a row some worker holds was
  taken in progress and is never given to a new job, so that a stale mark is a
  mark of the ledger. `AttemptsOvershoot` is a counting argument: a row has room
  for one attempt by each process that holds it (`Room`), and a step either adds
  neither attempts nor holders, or turns one holder's place into an attempt, or
  finds the row below its budget, where there is room for every worker
  (`RoomStays`, `OvershootStays`). The strengthening `StartedOnce`, that the job a
  worker runs is no longer in the rest of its batch, is why a mark lets go of the row.
* `SourceCheckJobsTimely_proofs`: `LeaseIsExclusive`, `DeadStaysDead` and
  `AttemptsWithinBudget` under `TimelySpec`. The invariant `OwnInv` says that a
  held row has one holder and is in progress with a running lease, or was marked succeeded by that holder, who
  lost the acknowledgement and is about to mark it failed; hence a claim, which
  needs a lease that ran out, meets no holder, and a mark meets no dead row. The
  budget needs in addition that held rows have attempts left (`BInv`): a row marked
  succeeded by a holder who lost the acknowledgement is not active, but its
  second mark still counts an attempt.
* `SourceObservation_proofs`: `TypeOK` and the refinement of the log. The invariant
  says what the locks are for: while a transaction has read the health row, the
  row is held by it and has the value it has read, and the same of its item; so
  the commit is a step of the log from the values the log has. `LocksNest` is
  about deadlock: the lock of an item is held only by who holds the health row, and
  either only within a transaction (`LocksAreNested`), so nobody who holds one of
  the two waits for another check. The row of `documents`, which
  `saveNormalizedDocumentTx` locks first in the same transaction, is not modelled;
  it is locked before the health row wherever both are, so it adds no circle.
* `ReviewQueue_proofs`: `TypeOK`, `AppliedExactlyOnce`, `ApprovalStands` and
  `DecisionsAreFinal` under `Spec`. They are inductive together
  with `HandledWasReviewed`: a process past `ReadItem` handles a candidate with a
  `reviewed_at`, which is never cleared - the reason why
  `markReviewCandidateBlocked`, which would accept an undecided row, meets none.
  `QueueImplementsGate` shows the refinement of the gate from the same invariant.
  `NoClaimIsDropped` is the safety half of `ClaimedIsSettled`: in calm, a batch lets
  go of a claimed candidate only when it is no longer `in_review`
  (`LetsGoOnlyOfSettled`). It rests on `ClaimedWasReviewed`: what a batch has claimed
  has a `reviewed_at`, so whatever makes the batch skip it has changed its status.
* `EdgeClaims_proofs`: the facts first, for any builder and reviewer
  (`SupersededByItsOrigin`, `PrimaryIsBest`, `LevelIsHighest`, inductive
  together). `ListedIsCitable` needs the strengthening `DisclosedIsLive`: an edge
  that is not called inferred has live evidence that is not, so its best
  evidence is not. It holds because the last candidate of an edge
  determines its inference and is superseded by none. `HandsOff` follows step by
  step from the types, and `FactsImplementRegister`, the refinement of the
  register, from the facts; `ConflictStands` needs `ContestIsRecorded`: evidence linked
  as contradicting has an unknown, so a refresh that overwrites the role does
  not change how the claim is judged (`JudgedByUnknowns`).
* `GraphProjection_proofs`: `TypeOK` and `OneActiveRow` under `Spec`. The
  strengthening `ProcGood` says which fields of a process its method determines;
  a stale retry's mark is kept from making a second active row by `IndexAllows`,
  a recorded failure by taking the active row when there is one.
  `TruthImplementsRegister` shows that `truth` is a register of edges, and
  `ShownVersionsAreWritten` that no written edge has version 0, by which the graph
  store shows that it has none.
* `GraphProjectionCalm_proofs`: `Accounted` under `CalmSpec`. It is far from
  inductive. Its invariant `CInv` has three parts, one for each phase.
  `RemovalsAreFinal`, from the start: a row or a process that removes an edge does so
  for a deprecated one, and no candidate is applied to such an edge again, so that an
  old removal, even one left by a crash, never undoes a newer write. `Careful`,
  once it is calm: all processes but one are idle, and that one knows the truth
  about its edge (the version it is about to upsert, or that the edge is not
  current) or, in a rebuild, which entities and edges are missing since it
  cleared the graph - unless a deferred write overtook what it has read, and then
  the edge is in `deferred` (`Fresh`). `Repaired`, after the first rebuild in calm: no
  entity is missing, so the `MATCH … MERGE` of an edge writes it, and the edge of a
  process about to settle its job agrees or is in `deferred` (`Shown`). Each step
  of the one process then either makes its edge agree or leaves it to a waiting row
  (`Kept`), and a deferred write, between any two steps, disturbs only what is
  known of its own edge (`DeferKeeps`).
* `ResearchRuns_proofs`: `TypeOK`, `SucceededIsChecked`, `ConfirmedOnce` and
  `OverlapBoundsRuns`. The invariant: each target of a run that enqueued its
  checks was checked since or has a job that keeps the run from being
  reported succeeded (`TargetsAreCovered`; also a dead one, which a stale mark
  can turn into a success that counts); only a record that is gone was executed;
  and the fresh runs of reports and the reports about to create one are together
  no more than the requests (`PlacesAreTaken`): a report gets as far as creating
  only when no run is fresh.
  `RunsUseLedger` and `RunsShareJobs` are about the composition: research runs
  change `source_check_jobs` only by steps of `JobLedger`, which the queue
  is proved to implement, so a target never has two unsettled jobs however many
  runs share it.

Only model-checked, because liveness and `ENABLED` are out of the prover's reach:
`EveryJobFinishes`, `EveryTargetIsChecked`, `ItemsCatchUp`, `HealthSettles`,
`ClaimedIsSettled`, `ClaimsCatchUp` and `Converges`. Only proved, and checked by
no run of their own: the two refinements of `EdgeRegister`, `OneUnsettled`,
`LocksAreNested`, `LetsGoOnlyOfSettled`, and the strengthenings named above.

## 6. Plan

Done: the queue, the gate, the projection, observation and promotion, the fact
store with its claims, research runs and pending writes; the refinements of
ledger, log, gate and register; the proofs of every safety property. Left, in this
order:

1. Proofs: the safety half of the remaining liveness properties, that is, what no
   step may undo on the way (`NoClaimIsDropped` is the first).
2. The candidates within a document (`promote-document-facts.ts:212`), each
   applied in its own transaction, as a refinement of `Promote`, composed with
   `FactStore`.
3. Composition of review gate, fact store and graph projection over
   `EdgeRegister` (an applied candidate is eventually shown).
4. The row lifecycles of alerts, unknowns and leads.
5. Pure rules: the component risk graph (label-correcting reach, betweenness,
   terminal paths) against reference definitions; the session profiles kept in memory.

## 7. Not modelled, and why

The contents of documents, evidence scores and texts: no property here depends
on them; levels are kept, the confidence that breaks ties between them is not.
Isolation anomalies below serialisability: each modelled transaction locks the
rows it decides on or rechecks them in its `WHERE` clause, except where a step
models the stale read explicitly; in `EdgeClaims`, what a batch or a handler
reads in its own transaction is taken to be unchanged until it writes. Target
selection filters and priorities: subsumed by claims that leave out any row.
The skew between the worker's clock (`input.now`) and the database's `now()`:
one minute is the unit of time, and the job's `next_attempt_at` is taken as due
at once. Merges of entities while a graph is projected.

Of the claims: drafts of semantic changes, claims in status `draft`, unknowns
with an id of the caller's, evidence of other edges linked to a claim, removal
reviews that match several claims, and the `LIMIT` (500) of the list, which is
taken to cover all claimable edges. Of the research runs: the rows about the company written
before the creation's transaction, session profiles, and requests that ask for
different companies, depths or ages (they share no run). `Work` lets a
worker take any target as due, which includes those a run has just made due.
Everything listed as `not_modelled` in `PROJECT.json`.
