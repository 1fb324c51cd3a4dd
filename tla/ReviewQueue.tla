----------------------------- MODULE ReviewQueue -----------------------------
(***************************************************************************)
(* The review gate: the rows of review_candidates, the reviewers who       *)
(* decide them, and the processes (CLI apply and apply-approved, the API's *)
(* approve, the Gate 1 batch) that turn approved candidates into facts.    *)
(*                                                                         *)
(* A transaction is one atomic step.  A process remembers between its      *)
(* transactions the item it read: what it read may have been decided,      *)
(* claimed, applied or blocked by others before it writes.                 *)
(***************************************************************************)
EXTENDS Naturals, FiniteSets

CONSTANTS
    Cands,        \* review_candidates.candidate_key: enqueued at most once
    Locking,      \* the candidates of kind supplier_list_row
    Blocking,     \* the candidates whose strategy may find them blocked: an
                  \* entity or document is missing, or kind and payload disagree
    Procs,        \* processes that apply candidates
    NoCand,       \* "this process handles no candidate"
    Limit,        \* LIMIT of claimApprovedReviewCandidates
    MaxDecisions  \* bound: decisions recorded on one candidate

ASSUME ReviewAssumption == /\ Locking \subseteq Blocking
                           /\ Blocking \subseteq Cands
                           /\ NoCand \notin Cands
                           /\ Limit \in Nat \ {0}
                           /\ MaxDecisions \in Nat \ {0}

VARIABLES
    cand,  \* the rows of review_candidates
    fact,  \* what the candidate's strategy has written for good
    proc   \* what each process remembers

vars == <<cand, fact, proc>>

-----------------------------------------------------------------------------
Statuses == {"absent", "pending", "in_review", "approved", "rejected", "blocked", "applied"}
Verdicts == {"none", "approved", "rejected"}

\* reviewed stands for reviewed_at: the number of the decision, 0 for NULL.
\* verdict is the latest REVIEW_APPROVED or REVIEW_REJECTED change record.
CandRow == [status : Statuses, reviewed : Nat, verdict : Verdicts]

\* writes counts the committed applications; cites is the reviewed_at that the
\* evidence, or the draft claim, of the latest one carries.
Fact == [writes : Nat, cites : Nat]

\* pc "idle" with todo # {} is the point between two items of a batch.
ProcState == [pc    : {"idle", "reading", "applying", "catching"},
              mode  : {"one", "batch"},  \* which of the two entry points runs
              todo  : SUBSET Cands,
              item  : Cands \cup {NoCand},
              seen  : Nat]  \* item.reviewed_at as it was read

IdleProc == [pc |-> "idle", mode |-> "one", todo |-> {}, item |-> NoCand, seen |-> 0]

Init == /\ cand = [c \in Cands |-> [status |-> "absent", reviewed |-> 0, verdict |-> "none"]]
        /\ fact = [c \in Cands |-> [writes |-> 0, cites |-> 0]]
        /\ proc = [p \in Procs |-> IdleProc]

Status(c, s) == cand' = [cand EXCEPT ![c].status = s]

-----------------------------------------------------------------------------
\* enqueueReviewCandidates: a key that exists already is skipped.
Enqueue(c) ==
    /\ cand[c].status = "absent"
    /\ Status(c, "pending")
    /\ UNCHANGED <<fact, proc>>

\* nextReviewCandidate hands a pending candidate to a reviewer.
TakeNext(c) ==
    /\ cand[c].status = "pending"
    /\ Status(c, "in_review")
    /\ UNCHANGED <<fact, proc>>

\* Variant for ImplementsGate: an applied candidate is decided once more.
MayBeDecidedAgain(row) == row.status \in {"pending", "in_review", "applied"}

MayBeDecided(row) == row.status \in {"pending", "in_review"}

\* decideReviewCandidate: in_review is also the status of a candidate that a
\* batch has claimed, so a decision can overtake the batch.
Decide(c, verdict) ==
    /\ MayBeDecided(cand[c])
    /\ cand[c].reviewed < MaxDecisions
    /\ cand' = [cand EXCEPT ![c].status = verdict, ![c].verdict = verdict,
                            ![c].reviewed = @ + 1]
    /\ UNCHANGED <<fact, proc>>

-----------------------------------------------------------------------------
\* Variant for ApprovalStands: reviewed_at is not asked for.
IsApplicableUnreviewed(row) == row.status \in {"approved", "blocked", "in_review"}

\* isReviewItemApplicable: in_review with a reviewed_at is a claimed approval.
IsApplicable(row) == \/ row.status \in {"approved", "blocked"}
                     \/ row.status = "in_review" /\ row.reviewed # 0

\* Variant for AppliedExactlyOnce: the WHERE clause forgets the status.
MayBeAppliedAlways(row) == row.status # "absent"

\* The WHERE clause of markReviewCandidateApplied.
MayBeApplied(row) == \/ row.status \in {"approved", "blocked"}
                     \/ row.status = "in_review" /\ row.reviewed # 0

\* Variant for DecisionsAreFinal: the WHERE clause forgets the status.
MayBeBlockedAlways(row) == row.status # "absent"

\* The WHERE clause of markReviewCandidateBlocked.
MayBeBlocked(row) == row.status \in {"pending", "in_review", "approved", "blocked"}

\* applyApprovedReviewCandidate called for one candidate.
ApplyOne(p, c) ==
    /\ proc[p].pc = "idle" /\ proc[p].todo = {}
    /\ cand[c].status # "absent"
    /\ proc' = [proc EXCEPT ![p].pc = "reading", ![p].item = c]
    /\ UNCHANGED <<cand, fact>>

\* applyApprovedReviewCandidates: the approved candidates C are claimed at
\* once; LIMIT and SKIP LOCKED may leave out any of them.
ClaimBatch(p, C) ==
    /\ proc[p].pc = "idle" /\ proc[p].todo = {}
    /\ C # {} /\ Cardinality(C) <= Limit
    /\ \A c \in C : cand[c].status = "approved"
    /\ cand' = [c \in Cands |-> IF c \in C THEN [cand[c] EXCEPT !.status = "in_review"]
                                           ELSE cand[c]]
    /\ proc' = [proc EXCEPT ![p].todo = C, ![p].mode = "batch"]
    /\ UNCHANGED fact

NextItem(p, c) ==
    /\ proc[p].pc = "idle"
    /\ c \in proc[p].todo
    /\ proc' = [proc EXCEPT ![p].pc = "reading", ![p].item = c, ![p].todo = @ \ {c}]
    /\ UNCHANGED <<cand, fact>>

\* Variant for TypeOK: the finished item is not forgotten.
DoneKeeping(p) == proc' = [proc EXCEPT ![p].pc = "idle"]

\* The process turns to the rest of its batch, if it has one.
Done(p) ==
    proc' = [proc EXCEPT ![p].pc = "idle", ![p].item = NoCand, ![p].seen = 0,
                         ![p].mode = IF proc[p].todo = {} THEN "one" ELSE @]

Catches(p) == proc' = [proc EXCEPT ![p].pc = "catching"]

\* getReviewCandidate outside any transaction, then the first check.
ReadItem(p) ==
    LET row == cand[proc[p].item] IN
    /\ proc[p].pc = "reading"
    /\ IF IsApplicable(row)
       THEN proc' = [proc EXCEPT ![p].pc = "applying", ![p].seen = row.reviewed]
       ELSE Done(p)
    /\ UNCHANGED <<cand, fact>>

\* The strategy's transaction commits: the fact and the mark together.  When
\* the acknowledgement of the commit is lost the caller sees an exception.
Applies(p) ==
    LET c == proc[p].item IN
    /\ proc[p].pc = "applying"
    /\ c \in Locking => IsApplicable(cand[c])
    /\ MayBeApplied(cand[c])
    /\ Status(c, "applied")
    /\ fact' = [fact EXCEPT ![c].writes = @ + 1, ![c].cites = proc[p].seen]
    /\ Done(p) \/ Catches(p)

\* An entity, the document or a citation cannot be resolved.
FindsBlocker(p) ==
    LET c == proc[p].item IN
    /\ proc[p].pc = "applying"
    /\ c \in Blocking
    /\ c \in Locking => IsApplicable(cand[c])
    /\ MayBeBlocked(cand[c])
    /\ Status(c, "blocked")
    /\ Done(p) \/ Catches(p)
    /\ UNCHANGED fact

\* Only the supplier list strategy locks the row and checks it again.
Refuses(p) ==
    /\ proc[p].pc = "applying"
    /\ proc[p].item \in Locking
    /\ ~IsApplicable(cand[proc[p].item])
    /\ Done(p)
    /\ UNCHANGED <<cand, fact>>

\* Any statement fails, or a mark matches no row: everything is rolled back.
Throws(p) ==
    /\ proc[p].pc = "applying"
    /\ Catches(p)
    /\ UNCHANGED <<cand, fact>>

\* Variant for ClaimedIsSettled: the error is only reported.
BlocksAfterErrorNot(p) ==
    /\ proc[p].pc = "catching"
    /\ Done(p)
    /\ UNCHANGED <<cand, fact>>

\* The batch blocks the candidate whose strategy threw, when it may still be
\* blocked; the caller of a single apply gets the exception.
BlocksAfterError(p) ==
    LET c == proc[p].item IN
    /\ proc[p].pc = "catching"
    /\ IF proc[p].mode = "batch" /\ MayBeBlocked(cand[c]) THEN Status(c, "blocked") ELSE UNCHANGED cand
    /\ Done(p)
    /\ UNCHANGED fact

\* Blocking fails as well: the batch reports both errors and goes on.
BlockingFails(p) ==
    /\ proc[p].pc = "catching"
    /\ proc[p].mode = "batch"
    /\ Done(p)
    /\ UNCHANGED <<cand, fact>>

Crash(p) ==
    /\ proc[p] # IdleProc
    /\ proc' = [proc EXCEPT ![p] = IdleProc]
    /\ UNCHANGED <<cand, fact>>

-----------------------------------------------------------------------------
Reviewers ==
    \E c \in Cands : Enqueue(c) \/ TakeNext(c) \/ \E v \in {"approved", "rejected"} : Decide(c, v)

Proceeds(p) ==
    \/ \E c \in Cands : NextItem(p, c)
    \/ ReadItem(p)
    \/ Applies(p)
    \/ FindsBlocker(p)
    \/ Refuses(p)
    \/ Throws(p)
    \/ BlocksAfterError(p)

Starts(p) == (\E c \in Cands : ApplyOne(p, c)) \/ (\E C \in SUBSET Cands : ClaimBatch(p, C))

Disturbs(p) == BlockingFails(p) \/ Crash(p)

Next == Reviewers \/ \E p \in Procs : Starts(p) \/ Proceeds(p) \/ Disturbs(p)

Spec == Init /\ [][Next]_vars

-----------------------------------------------------------------------------
\* Every variable has the type its columns and fields allow, and a process has
\* an item exactly while it handles one.
TypeOK == /\ cand \in [Cands -> CandRow]
          /\ fact \in [Cands -> Fact]
          /\ proc \in [Procs -> ProcState]
          /\ \A p \in Procs : proc[p].pc = "idle" <=> proc[p].item = NoCand

\* However many processes handle a candidate, and whatever they believe after
\* a lost acknowledgement, its fact is written once, and exactly when its row
\* says applied.
AppliedExactlyOnce ==
    \A c \in Cands : fact[c].writes = IF cand[c].status = "applied" THEN 1 ELSE 0

\* No fact without a human approval that still stands: a rejection, however
\* late, either finds the fact written and is refused, or prevents it.
\* Blocked candidates, which may be applied later, were approved too.
ApprovalStands ==
    \A c \in Cands :
        /\ cand[c].status \in {"approved", "blocked", "applied"} => cand[c].verdict = "approved"
        /\ cand[c].status = "rejected" <=> cand[c].verdict = "rejected"
        /\ cand[c].reviewed = 0 <=> cand[c].verdict = "none"

\* A candidate that was rejected or applied keeps its status for good; an
\* exception after the commit does not turn it into a blocked one.
DecisionsAreFinal ==
    [][\A c \in Cands : cand[c].status \in {"rejected", "applied"} => cand'[c] = cand[c]]_vars

\* The queue implements the gate.
Gate == INSTANCE ReviewGate WITH verdict <- [c \in Cands |-> cand[c].verdict],
                                 written <- [c \in Cands |-> fact[c].writes]

\* Seen from outside, the queue, with all its claims, crashes, races and lost
\* acknowledgements, is a gate that writes each approved candidate once and
\* never reopens a rejected one.
ImplementsGate == Gate!GateSpec

\* The evidence carries the reviewed_at of the decision it was applied under.
EvidenceCitesDecision ==
    \A c \in Cands : cand[c].status = "applied" => fact[c].cites = cand[c].reviewed
=============================================================================
