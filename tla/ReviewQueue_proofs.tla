-------------------------- MODULE ReviewQueue_proofs --------------------------
(***************************************************************************)
(* Safety of the review gate for any number of candidates and processes.   *)
(* The two properties are inductive together with one fact about the       *)
(* processes: what a process is about to apply or to block was decided.    *)
(***************************************************************************)
EXTENDS ReviewQueueLive, TLAPS

\* markReviewCandidateBlocked accepts candidates nobody has decided; only the
\* check made when the item was read keeps them out of its reach, and that
\* check stays true because reviewed_at is never cleared.
HandledWasReviewed ==
    \A p \in Procs : proc[p].pc \in {"applying", "catching"} => cand[proc[p].item].reviewed # 0

IInv == TypeOK /\ AppliedExactlyOnce /\ ApprovalStands /\ HandledWasReviewed

\* The empty queue satisfies the invariant.
LEMMA InitGood == Init => IInv
BY ReviewAssumption
   DEF Init, IInv, TypeOK, AppliedExactlyOnce, ApprovalStands, HandledWasReviewed,
       CandRow, Fact, ProcState, IdleProc, Statuses, Verdicts

\* A reviewer's step keeps the invariant: a decision is taken only on a
\* candidate that is neither written nor decided for good.
LEMMA ReviewersKeep == IInv /\ Reviewers => IInv'
<1> SUFFICES ASSUME IInv, Reviewers PROVE IInv'
  OBVIOUS
<1> USE DEF IInv, TypeOK, AppliedExactlyOnce, ApprovalStands, HandledWasReviewed,
            CandRow, Statuses, Verdicts
<1>1. ASSUME NEW c \in Cands, Enqueue(c) PROVE IInv'
  BY <1>1 DEF Enqueue, Status, ProcState
<1>2. ASSUME NEW c \in Cands, TakeNext(c) PROVE IInv'
  BY <1>2 DEF TakeNext, Status, ProcState
<1>3. ASSUME NEW c \in Cands, NEW v \in {"approved", "rejected"}, Decide(c, v) PROVE IInv'
  BY <1>3 DEF Decide, MayBeDecided, ProcState
<1>4. QED
  BY <1>1, <1>2, <1>3 DEF Reviewers

\* How a process leaves an item: it becomes idle, or it catches an exception.
LEMMA Leaving ==
    ASSUME TypeOK, NEW p \in Procs, proc[p].pc # "idle", Done(p) \/ Catches(p)
    PROVE  /\ proc' \in [Procs -> ProcState]
           /\ \A q \in Procs : proc'[q].pc = "idle" <=> proc'[q].item = NoCand
           /\ \A q \in Procs : q # p => proc'[q] = proc[q]
           /\ \/ proc'[p].pc = "idle"
              \/ proc'[p].pc = "catching" /\ proc'[p].item = proc[p].item
BY ReviewAssumption DEF TypeOK, ProcState, Done, Catches, IdleProc

\* Leaving an item, whatever happened to its status, keeps what is known of
\* the items still handled, because no step clears reviewed_at.
LEMMA LeftWasReviewed ==
    ASSUME TypeOK, HandledWasReviewed,
           NEW p \in Procs, proc[p].pc \in {"applying", "catching"}, Done(p) \/ Catches(p),
           \A c \in Cands : cand'[c].reviewed = cand[c].reviewed
    PROVE  HandledWasReviewed'
<1> SUFFICES ASSUME NEW q \in Procs, proc'[q].pc \in {"applying", "catching"}
             PROVE  cand'[proc'[q].item].reviewed # 0
  BY DEF HandledWasReviewed
<1>1. proc[q].pc \in {"applying", "catching"} /\ proc'[q].item = proc[q].item
  BY Leaving
<1>2. proc[q].item \in Cands
  BY <1>1 DEF TypeOK, ProcState
<1>3. QED
  BY <1>1, <1>2 DEF HandledWasReviewed

\* A process keeps the invariant in every step of a batch or of a single
\* apply: it writes a fact or a block only where the row still allows it.
LEMMA ProcessesKeep ==
    ASSUME IInv, NEW p \in Procs, Starts(p) \/ Proceeds(p) \/ Disturbs(p)
    PROVE  IInv'
<1> USE DEF IInv
<1>1. ASSUME NEW c \in Cands, ApplyOne(p, c) PROVE IInv'
  BY <1>1, ReviewAssumption
     DEF ApplyOne, TypeOK, ProcState, AppliedExactlyOnce, ApprovalStands, HandledWasReviewed
<1>2. ASSUME NEW C \in SUBSET Cands, ClaimBatch(p, C) PROVE IInv'
  <2>1. cand' \in [Cands -> CandRow]
    BY <1>2 DEF ClaimBatch, TypeOK, CandRow, Statuses
  <2>2. \A c \in Cands : /\ cand'[c].reviewed = cand[c].reviewed
                         /\ cand'[c].verdict = cand[c].verdict
                         /\ \/ cand'[c].status = cand[c].status
                            \/ cand[c].status = "approved" /\ cand'[c].status = "in_review"
    BY <1>2 DEF ClaimBatch, TypeOK, CandRow
  <2>3. TypeOK'
    <3>1. proc' \in [Procs -> ProcState]
      <4>1. [proc[p] EXCEPT !.todo = C, !.mode = "batch"] \in ProcState
        BY DEF TypeOK, ProcState
      <4>2. QED
        BY <1>2, <4>1 DEF ClaimBatch, TypeOK
    <3>2. \A q \in Procs : proc'[q].pc = proc[q].pc /\ proc'[q].item = proc[q].item
      BY <1>2 DEF ClaimBatch, TypeOK, ProcState
    <3>3. QED
      BY <1>2, <2>1, <3>1, <3>2 DEF ClaimBatch, TypeOK
  <2>4. AppliedExactlyOnce' /\ ApprovalStands'
    BY <1>2, <2>2 DEF ClaimBatch, AppliedExactlyOnce, ApprovalStands
  <2>5. HandledWasReviewed'
    BY <1>2, <2>2 DEF ClaimBatch, HandledWasReviewed, TypeOK, ProcState
  <2>6. QED
    BY <2>3, <2>4, <2>5
<1>3. ASSUME NEW c \in Cands, NextItem(p, c) PROVE IInv'
  BY <1>3, ReviewAssumption
     DEF NextItem, TypeOK, ProcState, AppliedExactlyOnce, ApprovalStands, HandledWasReviewed
<1>4. CASE ReadItem(p)
  <2>1. proc[p].item \in Cands
    BY <1>4 DEF ReadItem, TypeOK, ProcState
  <2>2. IsApplicable(cand[proc[p].item]) => cand[proc[p].item].reviewed # 0
    BY <2>1 DEF IsApplicable, ApprovalStands
  <2>3. CASE IsApplicable(cand[proc[p].item])
    <3>1. proc' = [proc EXCEPT ![p].pc = "applying", ![p].seen = cand[proc[p].item].reviewed]
      BY <1>4, <2>3 DEF ReadItem, Done
    <3>2. proc' \in [Procs -> ProcState]
      <4>1. cand[proc[p].item].reviewed \in Nat
        BY <2>1 DEF TypeOK, CandRow
      <4>2. [proc[p] EXCEPT !.pc = "applying", !.seen = cand[proc[p].item].reviewed] \in ProcState
        BY <4>1 DEF TypeOK, ProcState
      <4>3. QED
        BY <3>1, <4>2 DEF TypeOK
    <3>3. TypeOK'
      BY <1>4, <2>1, <3>1, <3>2, ReviewAssumption DEF ReadItem, TypeOK, ProcState
    <3>4. HandledWasReviewed'
      BY <1>4, <2>2, <2>3, <3>1 DEF ReadItem, HandledWasReviewed, TypeOK, ProcState
    <3>5. QED
      BY <1>4, <3>3, <3>4 DEF ReadItem, AppliedExactlyOnce, ApprovalStands
  <2>4. CASE Done(p)
    <3>1. TypeOK'
      BY <1>4, <2>4, Leaving DEF ReadItem, TypeOK
    <3>2. \A q \in Procs : \/ proc'[q].pc = proc[q].pc /\ proc'[q].item = proc[q].item
                           \/ proc'[q].pc = "idle"
      BY <2>4 DEF Done, TypeOK, ProcState
    <3>3. HandledWasReviewed'
      BY <1>4, <3>2 DEF ReadItem, HandledWasReviewed
    <3>4. QED
      BY <1>4, <3>1, <3>3 DEF ReadItem, AppliedExactlyOnce, ApprovalStands
  <2>5. QED
    BY <1>4, <2>3, <2>4 DEF ReadItem
<1>5. CASE Applies(p)
  <2> DEFINE c == proc[p].item
  <2>1. c \in Cands /\ cand[c].reviewed # 0
    BY <1>5 DEF Applies, TypeOK, ProcState, HandledWasReviewed
  <2>2. cand[c].verdict = "approved" /\ cand[c].status # "applied"
    BY <1>5, <2>1 DEF Applies, MayBeApplied, ApprovalStands, TypeOK, CandRow, Verdicts
  <2>3. TypeOK'
    <3>1. cand' \in [Cands -> CandRow]
      BY <1>5, <2>1 DEF Applies, Status, TypeOK, CandRow, Statuses
    <3>2. fact' \in [Cands -> Fact]
      BY <1>5, <2>1 DEF Applies, TypeOK, Fact, ProcState
    <3>3. QED
      BY <1>5, <3>1, <3>2, Leaving DEF Applies, TypeOK
  <2>4. AppliedExactlyOnce' /\ ApprovalStands'
    BY <1>5, <2>1, <2>2
       DEF Applies, Status, TypeOK, CandRow, Fact, AppliedExactlyOnce, ApprovalStands
  <2>5. HandledWasReviewed'
    <3>1. \A d \in Cands : cand'[d].reviewed = cand[d].reviewed
      BY <1>5, <2>1 DEF Applies, Status, TypeOK, CandRow
    <3>2. QED
      BY <1>5, <3>1, LeftWasReviewed DEF Applies
  <2>6. QED
    BY <2>3, <2>4, <2>5
<1>6. ASSUME NEW c \in Cands, c = proc[p].item, proc[p].pc \in {"applying", "catching"},
             MayBeBlocked(cand[c]), Status(c, "blocked"), Done(p) \/ Catches(p), UNCHANGED fact
      PROVE  IInv'
  <2>1. cand[c].reviewed # 0
    BY <1>6 DEF HandledWasReviewed
  <2>2. cand[c].verdict = "approved" /\ cand[c].status # "applied"
    BY <1>6, <2>1 DEF MayBeBlocked, ApprovalStands, TypeOK, CandRow, Verdicts
  <2>3. TypeOK'
    <3>1. cand' \in [Cands -> CandRow]
      BY <1>6 DEF Status, TypeOK, CandRow, Statuses
    <3>2. QED
      BY <1>6, <3>1, Leaving DEF TypeOK
  <2>4. AppliedExactlyOnce' /\ ApprovalStands'
    BY <1>6, <2>1, <2>2 DEF Status, TypeOK, CandRow, Fact, AppliedExactlyOnce, ApprovalStands
  <2>5. HandledWasReviewed'
    <3>1. \A d \in Cands : cand'[d].reviewed = cand[d].reviewed
      BY <1>6 DEF Status, TypeOK, CandRow
    <3>2. QED
      BY <1>6, <3>1, LeftWasReviewed
  <2>6. QED
    BY <2>3, <2>4, <2>5
<1>7. ASSUME proc[p].pc \in {"applying", "catching"}, Done(p) \/ Catches(p), UNCHANGED <<cand, fact>>
      PROVE  IInv'
  <2>1. TypeOK'
    BY <1>7, Leaving DEF TypeOK
  <2>2. HandledWasReviewed'
    BY <1>7, LeftWasReviewed
  <2>3. QED
    BY <1>7, <2>1, <2>2 DEF AppliedExactlyOnce, ApprovalStands
<1>8. CASE FindsBlocker(p)
  BY <1>6, <1>8 DEF FindsBlocker, TypeOK, ProcState
<1>9. CASE Refuses(p) \/ Throws(p) \/ BlockingFails(p)
  BY <1>7, <1>9 DEF Refuses, Throws, BlockingFails
<1>10. CASE BlocksAfterError(p)
  BY <1>6, <1>7, <1>10 DEF BlocksAfterError, TypeOK, ProcState
<1>11. CASE Crash(p)
  BY <1>11, ReviewAssumption
     DEF Crash, IdleProc, TypeOK, ProcState, AppliedExactlyOnce, ApprovalStands, HandledWasReviewed
<1>12. QED
  BY <1>1, <1>2, <1>3, <1>4, <1>5, <1>8, <1>9, <1>10, <1>11 DEF Starts, Proceeds, Disturbs

\* The inductive invariant holds in every reachable state.
THEOREM ReviewInvariance == Spec => []IInv
<1>1. IInv /\ [Next]_vars => IInv'
  <2> SUFFICES ASSUME IInv, [Next]_vars PROVE IInv'
    OBVIOUS
  <2>1. CASE UNCHANGED vars
    BY <2>1 DEF vars, IInv, TypeOK, AppliedExactlyOnce, ApprovalStands, HandledWasReviewed
  <2>2. QED
    BY <2>1, ReviewersKeep, ProcessesKeep DEF Next
<1>2. QED
  BY <1>1, InitGood, PTL DEF Spec

\* Rows, facts and processes keep their types.
THEOREM ReviewTypeCorrect == Spec => []TypeOK
BY ReviewInvariance, PTL DEF IInv

\* A fact is written exactly once, and exactly by an applied candidate.
THEOREM AppliedExactlyOnceHolds == Spec => []AppliedExactlyOnce
BY ReviewInvariance, PTL DEF IInv

\* What is applied, or blocked and may be applied later, was approved by a
\* reviewer and not rejected since.
THEOREM ApprovalStandsHolds == Spec => []ApprovalStands
BY ReviewInvariance, PTL DEF IInv

\* No step of any process or reviewer changes a rejected or applied row.
THEOREM DecisionsAreFinalHolds == Spec => DecisionsAreFinal
<1> DEFINE Kept == \A c \in Cands : cand[c].status \in {"rejected", "applied"} => cand'[c] = cand[c]
<1>1. ASSUME IInv, Next PROVE Kept
  <2>0. cand \in [Cands -> CandRow]
    BY <1>1 DEF IInv, TypeOK
  <2>1. CASE Reviewers
    <3>1. ASSUME NEW c \in Cands, Enqueue(c) \/ TakeNext(c) PROVE Kept
      BY <2>0, <3>1 DEF Enqueue, TakeNext, Status
    <3>2. ASSUME NEW c \in Cands, NEW v \in {"approved", "rejected"}, Decide(c, v) PROVE Kept
      BY <2>0, <3>2 DEF Decide, MayBeDecided
    <3>3. QED
      BY <2>1, <3>1, <3>2 DEF Reviewers
  <2>2. ASSUME NEW p \in Procs, Starts(p) PROVE Kept
    BY <2>0, <2>2 DEF Starts, ApplyOne, ClaimBatch
  <2>3. ASSUME NEW p \in Procs, Proceeds(p) PROVE Kept
    <3>1. CASE Applies(p)
      BY <2>0, <3>1 DEF Applies, MayBeApplied, Status
    <3>2. CASE FindsBlocker(p) \/ BlocksAfterError(p)
      BY <2>0, <3>2 DEF FindsBlocker, BlocksAfterError, MayBeBlocked, Status
    <3>3. CASE UNCHANGED cand
      BY <3>3
    <3>4. QED
      BY <2>3, <3>1, <3>2, <3>3 DEF Proceeds, NextItem, ReadItem, Refuses, Throws
  <2>4. ASSUME NEW p \in Procs, Disturbs(p) PROVE Kept
    BY <2>4 DEF Disturbs, BlockingFails, Crash
  <2> HIDE DEF Kept
  <2>5. QED
    BY <1>1, <2>1, <2>2, <2>3, <2>4 DEF Next
<1>2. IInv /\ [Next]_vars => [Kept]_vars
  BY <1>1
<1>3. QED
  BY <1>2, ReviewInvariance, PTL DEF Spec, DecisionsAreFinal

-----------------------------------------------------------------------------
\* A step that touches neither verdicts nor facts is invisible at the gate.
LEMMA Unseen ==
    ASSUME \A c \in Cands : cand'[c].verdict = cand[c].verdict,
           \A c \in Cands : fact'[c].writes = fact[c].writes
    PROVE  UNCHANGED Gate!gateVars
BY DEF Gate!gateVars

\* The reviewers' steps are decisions of the gate, or invisible.
LEMMA ReviewersJudge == IInv /\ Reviewers => [Gate!GateNext]_(Gate!gateVars)
<1> SUFFICES ASSUME IInv, Reviewers PROVE [Gate!GateNext]_(Gate!gateVars)
  OBVIOUS
<1>0. cand \in [Cands -> CandRow]
  BY DEF IInv, TypeOK
<1>1. ASSUME NEW c \in Cands, Enqueue(c) \/ TakeNext(c) PROVE UNCHANGED Gate!gateVars
  BY <1>0, <1>1, Unseen DEF Enqueue, TakeNext, Status, CandRow
<1>2. ASSUME NEW c \in Cands, NEW v \in {"approved", "rejected"}, Decide(c, v)
      PROVE  Gate!GateNext
  <2>1. cand[c].verdict # "rejected" /\ fact[c].writes = 0
    BY <1>2 DEF Decide, MayBeDecided, IInv, AppliedExactlyOnce, ApprovalStands
  <2>2. [d \in Cands |-> cand'[d].verdict] = [[d \in Cands |-> cand[d].verdict] EXCEPT ![c] = v]
    BY <1>0, <1>2 DEF Decide, CandRow
  <2>3. [d \in Cands |-> fact'[d].writes] = [d \in Cands |-> fact[d].writes]
    BY <1>2 DEF Decide
  <2>4. Gate!Judge(c, v)
    BY <2>1, <2>2, <2>3 DEF Gate!Judge, Gate!Open
  <2>5. QED
    BY <2>4 DEF Gate!GateNext
<1>3. QED
  BY <1>1, <1>2 DEF Reviewers

\* A process writes through the gate when its transaction commits, and is
\* invisible otherwise.
LEMMA ProcessesWrite ==
    ASSUME IInv, NEW p \in Procs, Starts(p) \/ Proceeds(p) \/ Disturbs(p)
    PROVE  [Gate!GateNext]_(Gate!gateVars)
<1>0. cand \in [Cands -> CandRow] /\ fact \in [Cands -> Fact] /\ proc \in [Procs -> ProcState]
  BY DEF IInv, TypeOK
<1>1. ASSUME NEW c \in Cands, c = proc[p].item, Applies(p) PROVE Gate!GateNext
  <2>1. cand[c].reviewed # 0
    BY <1>1 DEF Applies, IInv, HandledWasReviewed
  <2>2. cand[c].verdict = "approved" /\ fact[c].writes = 0
    BY <1>0, <1>1, <2>1
       DEF Applies, MayBeApplied, IInv, AppliedExactlyOnce, ApprovalStands, CandRow, Verdicts
  <2>3. [d \in Cands |-> cand'[d].verdict] = [d \in Cands |-> cand[d].verdict]
    BY <1>0, <1>1, <2>1 DEF Applies, Status, CandRow
  <2>4. [d \in Cands |-> fact'[d].writes] = [[d \in Cands |-> fact[d].writes] EXCEPT ![c] = 1]
    <3>1. fact'[c].writes = 1
      BY <1>0, <1>1, <2>1, <2>2 DEF Applies, Fact
    <3>2. \A d \in Cands : d # c => fact'[d].writes = fact[d].writes
      BY <1>0, <1>1, <2>1 DEF Applies
    <3>3. QED
      BY <2>1, <3>1, <3>2
  <2>5. Gate!Write(c)
    BY <2>1, <2>2, <2>3, <2>4 DEF Gate!Write, Gate!Open
  <2>6. QED
    BY <2>5 DEF Gate!GateNext
<1>2. CASE FindsBlocker(p) \/ BlocksAfterError(p)
  <2>1. proc[p].item \in Cands
    BY <1>2 DEF FindsBlocker, BlocksAfterError, IInv, TypeOK, ProcState
  <2>2. QED
    BY <1>0, <1>2, <2>1, Unseen DEF FindsBlocker, BlocksAfterError, Status, CandRow
<1>3. ASSUME NEW C \in SUBSET Cands, ClaimBatch(p, C) PROVE UNCHANGED Gate!gateVars
  BY <1>0, <1>3, Unseen DEF ClaimBatch, CandRow
<1>4. CASE UNCHANGED <<cand, fact>>
  BY <1>4, Unseen
<1>5. Applies(p) => proc[p].item \in Cands
  BY <1>0 DEF Applies, IInv, TypeOK, ProcState
<1>6. QED
  BY <1>1, <1>2, <1>3, <1>4, <1>5
     DEF Starts, Proceeds, Disturbs, ApplyOne, NextItem, ReadItem, Refuses, Throws,
         BlockingFails, Crash

\* The review queue implements the gate, whatever its processes go through.
THEOREM QueueImplementsGate == Spec => ImplementsGate
<1>1. Init => Gate!GateInit
  BY DEF Init, Gate!GateInit
<1>2. IInv /\ [Next]_vars => [Gate!GateNext]_(Gate!gateVars)
  <2>1. CASE UNCHANGED vars
    BY <2>1, Unseen DEF vars
  <2>2. QED
    BY <2>1, ReviewersJudge, ProcessesWrite DEF Next
<1>3. QED
  BY <1>1, <1>2, ReviewInvariance, PTL DEF Spec, ImplementsGate, Gate!GateSpec

-----------------------------------------------------------------------------
\* The batches that settle what they claim (ReviewQueueLive) take no step the
\* queue does not allow, so that all of the above holds of them.
THEOREM LiveIsOrdinary == LiveSpec => Spec
<1>1. LiveInit => Init
  BY DEF LiveInit
<1>2. [LiveNext]_liveVars => [Next]_vars
  BY DEF LiveNext, liveVars, CalmsDown, Next
<1>3. QED
  BY <1>1, <1>2, PTL DEF LiveSpec, Spec

-----------------------------------------------------------------------------
\* A process without work is no batch, and what a batch has claimed was decided.
ClaimedWasReviewed ==
    /\ \A p \in Procs : proc[p].pc = "idle" /\ proc[p].todo = {} => proc[p].mode = "one"
    /\ \A p \in Procs : \A c \in Claimed(p) : cand[c].reviewed # 0

\* No step clears reviewed_at.
LEMMA ReviewedStays ==
    ASSUME IInv, Next, NEW c \in Cands, cand[c].reviewed # 0
    PROVE  cand'[c].reviewed # 0
<1>0. cand \in [Cands -> CandRow] /\ cand[c].reviewed \in Nat
  BY DEF IInv, TypeOK, CandRow
<1>1. ASSUME NEW d, NEW s, Status(d, s) PROVE cand'[c].reviewed # 0
  BY <1>0, <1>1 DEF Status, CandRow
<1>2. ASSUME NEW d \in Cands, NEW v \in {"approved", "rejected"}, Decide(d, v)
      PROVE  cand'[c].reviewed # 0
  BY <1>0, <1>2 DEF Decide, CandRow
<1>3. ASSUME NEW p \in Procs, NEW C \in SUBSET Cands, ClaimBatch(p, C) PROVE cand'[c].reviewed # 0
  BY <1>0, <1>3 DEF ClaimBatch, CandRow
<1>4. CASE UNCHANGED cand
  BY <1>4
<1>5. QED
  BY <1>1, <1>2, <1>3, <1>4
     DEF Next, Reviewers, Starts, Proceeds, Disturbs, Enqueue, TakeNext, ApplyOne, NextItem, ReadItem,
         Applies, FindsBlocker, Refuses, Throws, BlocksAfterError, BlockingFails, Crash

\* A process that only changes its program counter keeps its claims, one that
\* leaves an item keeps all but the item.
LEMMA DoneClaims ==
    ASSUME IInv, NEW p \in Procs, proc[p].pc # "idle", Done(p) \/ Catches(p)
    PROVE  /\ proc'[p].pc = "idle" /\ proc'[p].todo = {} => proc'[p].mode = "one"
           /\ Claimed(p)' \subseteq Claimed(p)
           /\ Claimed(p) \ {proc[p].item} \subseteq Claimed(p)'
           /\ Catches(p) => Claimed(p)' = Claimed(p)
<1>0. proc \in [Procs -> ProcState] /\ proc[p] \in ProcState
  BY DEF IInv, TypeOK
<1>1. CASE Done(p)
  <2>1. /\ proc'[p].item = NoCand /\ proc'[p].todo = proc[p].todo /\ proc'[p].pc = "idle"
        /\ proc'[p].mode = IF proc[p].todo = {} THEN "one" ELSE proc[p].mode
    BY <1>0, <1>1 DEF Done, ProcState
  <2>2. ~Catches(p)
    BY <1>0, <2>1 DEF Catches, ProcState
  <2>3. QED
    BY <2>1, <2>2 DEF Claimed
<1>2. CASE Catches(p)
  <2>1. /\ proc'[p].item = proc[p].item /\ proc'[p].todo = proc[p].todo /\ proc'[p].pc = "catching"
        /\ proc'[p].mode = proc[p].mode
    BY <1>0, <1>2 DEF Catches, ProcState
  <2>2. QED
    BY <2>1 DEF Claimed
<1>3. QED
  BY <1>1, <1>2

\* What a process goes on with it has claimed before, and what it lets go of it
\* has settled.
LEMMA ProceedsClaims ==
    ASSUME IInv, ClaimedWasReviewed, NEW p \in Procs, Proceeds(p)
    PROVE  /\ proc'[p].pc = "idle" /\ proc'[p].todo = {} => proc'[p].mode = "one"
           /\ Claimed(p)' \subseteq Claimed(p)
           /\ \A c \in Claimed(p) \ Claimed(p)' : cand'[c].status # "in_review"
<1> DEFINE Goal == /\ proc'[p].pc = "idle" /\ proc'[p].todo = {} => proc'[p].mode = "one"
                   /\ Claimed(p)' \subseteq Claimed(p)
                   /\ \A c \in Claimed(p) \ Claimed(p)' : cand'[c].status # "in_review"
<1> SUFFICES Goal
  OBVIOUS
<1>0. /\ proc \in [Procs -> ProcState] /\ proc[p] \in ProcState
      /\ cand \in [Cands -> CandRow] /\ NoCand \notin Cands
  BY ReviewAssumption DEF IInv, TypeOK
<1>1. ASSUME NEW c \in Cands, NextItem(p, c) PROVE Goal
  <2>1. proc[p].item = NoCand
    BY <1>1 DEF NextItem, IInv, TypeOK
  <2>2. /\ proc'[p].item = c /\ proc'[p].todo = proc[p].todo \ {c} /\ proc'[p].mode = proc[p].mode
        /\ proc'[p].pc = "reading" /\ c \in proc[p].todo
    BY <1>0, <1>1 DEF NextItem, ProcState
  <2>3. Claimed(p)' = Claimed(p)
    BY <1>0, <2>1, <2>2 DEF Claimed
  <2>4. QED
    BY <2>2, <2>3
<1>2. ASSUME proc[p].pc # "idle", Done(p) \/ Catches(p),
             Done(p) /\ proc[p].item \in Claimed(p) => cand'[proc[p].item].status # "in_review"
      PROVE  Goal
  BY <1>2, DoneClaims
<1>3. ASSUME proc[p].item \in Claimed(p)
      PROVE  /\ proc[p].item \in Cands /\ proc[p].mode = "batch"
             /\ cand[proc[p].item].reviewed # 0
  BY <1>0, <1>3 DEF Claimed, ClaimedWasReviewed, ProcState
<1>4. CASE ReadItem(p)
  <2>1. CASE IsApplicable(cand[proc[p].item])
    <3>1. /\ proc'[p].item = proc[p].item /\ proc'[p].todo = proc[p].todo
          /\ proc'[p].mode = proc[p].mode /\ proc'[p].pc = "applying"
      BY <1>0, <1>4, <2>1 DEF ReadItem, ProcState
    <3>2. Claimed(p)' = Claimed(p)
      BY <3>1 DEF Claimed
    <3>3. QED
      BY <3>1, <3>2
  <2>2. CASE ~IsApplicable(cand[proc[p].item])
    BY <1>2, <1>3, <1>4, <2>2 DEF ReadItem, IsApplicable
  <2>3. QED
    BY <2>1, <2>2
<1>5. ASSUME NEW s \in {"applied", "blocked"}, Status(proc[p].item, s),
             proc[p].pc # "idle", Done(p) \/ Catches(p)
      PROVE  Goal
  <2>1. proc[p].item \in Claimed(p) => cand'[proc[p].item].status # "in_review"
    BY <1>0, <1>3, <1>5 DEF Status, CandRow
  <2>2. QED
    BY <1>2, <1>5, <2>1
<1>6. CASE Applies(p) \/ FindsBlocker(p)
  BY <1>5, <1>6 DEF Applies, FindsBlocker
<1>7. CASE Refuses(p)
  BY <1>2, <1>3, <1>7 DEF Refuses, IsApplicable
<1>8. CASE Throws(p)
  BY <1>8, DoneClaims DEF Throws
<1>9. CASE BlocksAfterError(p)
  <2>1. CASE proc[p].mode = "batch" /\ MayBeBlocked(cand[proc[p].item])
    BY <1>5, <1>9, <2>1 DEF BlocksAfterError
  <2>2. CASE ~(proc[p].mode = "batch" /\ MayBeBlocked(cand[proc[p].item]))
    BY <1>2, <1>3, <1>9, <2>2 DEF BlocksAfterError, MayBeBlocked
  <2>3. QED
    BY <2>1, <2>2
<1> HIDE DEF Goal
<1>10. QED
  BY <1>1, <1>4, <1>6, <1>7, <1>8, <1>9 DEF Proceeds

\* A process starts without claims, and claims what was approved.
LEMMA StartsClaims ==
    ASSUME IInv, ClaimedWasReviewed, NEW p \in Procs, Starts(p)
    PROVE  /\ proc'[p].pc = "idle" /\ proc'[p].todo = {} => proc'[p].mode = "one"
           /\ Claimed(p) = {}
           /\ \A c \in Claimed(p)' : c \in Cands /\ cand[c].status = "approved"
<1>0. /\ proc \in [Procs -> ProcState] /\ proc[p] \in ProcState
      /\ proc[p].pc = "idle" /\ proc[p].todo = {} => proc[p].item = NoCand /\ proc[p].mode = "one"
  BY DEF IInv, TypeOK, ClaimedWasReviewed
<1>1. ASSUME NEW c \in Cands, ApplyOne(p, c)
      PROVE  proc'[p].pc = "reading" /\ Claimed(p) = {} /\ Claimed(p)' = {}
  BY <1>0, <1>1 DEF ApplyOne, Claimed, ProcState
<1>2. ASSUME NEW C \in SUBSET Cands, ClaimBatch(p, C)
      PROVE  proc'[p].todo # {} /\ Claimed(p) = {} /\ \A c \in Claimed(p)' : c \in Cands /\ cand[c].status = "approved"
  <2>1. proc'[p].todo = C /\ proc'[p].item = NoCand
    BY <1>0, <1>2 DEF ClaimBatch, ProcState
  <2>2. QED
    BY <1>0, <1>2, <2>1 DEF ClaimBatch, Claimed
<1>3. QED
  BY <1>1, <1>2 DEF Starts

\* The other processes keep what they do.
LEMMA OthersKeep ==
    ASSUME IInv, NEW p \in Procs, Starts(p) \/ Proceeds(p) \/ Disturbs(p), NEW q \in Procs \ {p}
    PROVE  proc'[q] = proc[q] /\ Claimed(q)' = Claimed(q)
<1>1. proc'[q] = proc[q]
  BY DEF IInv, TypeOK, Starts, Proceeds, Disturbs, ApplyOne, ClaimBatch, NextItem, ReadItem, Applies, FindsBlocker,
         Refuses, Throws, BlocksAfterError, BlockingFails, Crash, Done, Catches
<1>2. QED
  BY <1>1 DEF Claimed

LEMMA ClaimedStaysReviewed == IInv /\ ClaimedWasReviewed /\ [Next]_vars => ClaimedWasReviewed'
<1> SUFFICES ASSUME IInv, ClaimedWasReviewed, [Next]_vars PROVE ClaimedWasReviewed'
  OBVIOUS
<1>a. \A p \in Procs : Claimed(p) \in SUBSET Cands
  BY DEF Claimed, IInv, TypeOK, ProcState
<1>b. \A c \in Cands : cand[c].status = "approved" => cand[c].reviewed # 0
  BY DEF IInv, ApprovalStands
<1>1. ASSUME NEW p \in Procs, Starts(p) \/ Proceeds(p) \/ Disturbs(p) PROVE ClaimedWasReviewed'
  <2>0. Next
    BY <1>1 DEF Next
  <2>1. /\ proc'[p].pc = "idle" /\ proc'[p].todo = {} => proc'[p].mode = "one"
        /\ Claimed(p)' \subseteq Claimed(p) \/ \A c \in Claimed(p)' : c \in Cands /\ cand[c].status = "approved"
    <3>1. CASE Starts(p)
      BY <3>1, StartsClaims
    <3>2. CASE Proceeds(p)
      BY <3>2, ProceedsClaims
    <3>3. CASE BlockingFails(p)
      BY <3>3, DoneClaims DEF BlockingFails
    <3>4. CASE Crash(p)
      <4>1. proc'[p] = IdleProc
        BY <3>4 DEF Crash, IInv, TypeOK
      <4>2. QED
        BY <4>1 DEF Claimed, IdleProc
    <3>5. QED
      BY <1>1, <3>1, <3>2, <3>3, <3>4 DEF Disturbs
  <2>2. \A q \in Procs \ {p} : proc'[q] = proc[q] /\ Claimed(q)' = Claimed(q)
    BY <1>1, OthersKeep
  <2>3. \A c \in Claimed(p)' : cand'[c].reviewed # 0
    BY <1>a, <1>b, <2>0, <2>1, ReviewedStays DEF ClaimedWasReviewed
  <2>4. \A q \in Procs \ {p} : \A c \in Claimed(q)' : cand'[c].reviewed # 0
    BY <1>a, <2>0, <2>2, ReviewedStays DEF ClaimedWasReviewed
  <2>5. QED
    BY <2>1, <2>2, <2>3, <2>4 DEF ClaimedWasReviewed
<1>2. CASE Reviewers
  <2>1. proc' = proc /\ Next
    BY <1>2 DEF Reviewers, Enqueue, TakeNext, Decide, Next
  <2>2. \A q \in Procs : Claimed(q)' = Claimed(q)
    BY <2>1 DEF Claimed
  <2>3. QED
    BY <1>a, <2>1, <2>2, ReviewedStays DEF ClaimedWasReviewed
<1>3. CASE UNCHANGED vars
  BY <1>3 DEF vars, ClaimedWasReviewed, Claimed
<1>4. QED
  BY <1>1, <1>2, <1>3 DEF Next

\* Once nothing disturbs the batches, none drops a candidate it has claimed: what
\* it lets go of is applied, blocked or decided anew, or claimed by another.
THEOREM NoClaimIsDropped == LiveSpec => LetsGoOnlyOfSettled
<1> DEFINE Kept == calm => \A c \in Cands :
               (\E p \in Procs : c \in Claimed(p)) /\ cand'[c].status = "in_review"
                   => \E p \in Procs : c \in Claimed(p)'
<1>1. ASSUME IInv, ClaimedWasReviewed, LiveNext PROVE Kept
  <2> SUFFICES ASSUME calm, NEW c \in Cands, NEW p \in Procs, c \in Claimed(p), c \notin Claimed(p)'
               PROVE  cand'[c].status # "in_review"
    OBVIOUS
  <2>1. PICK q \in Procs : Starts(q) \/ Proceeds(q)
    <3>1. Reviewers => Claimed(p)' = Claimed(p)
      BY DEF Reviewers, Enqueue, TakeNext, Decide, Claimed
    <3>2. QED
      BY <1>1, <3>1 DEF LiveNext, CalmsDown
  <2>2. q = p
    BY <1>1, <2>1, OthersKeep
  <2>3. Proceeds(p)
    BY <1>1, <2>1, <2>2, StartsClaims
  <2>4. QED
    BY <1>1, <2>3, ProceedsClaims
<1>2. IInv /\ ClaimedWasReviewed /\ [LiveNext]_liveVars => [Kept]_liveVars
  BY <1>1
<1>3. Init => ClaimedWasReviewed
  BY ReviewAssumption DEF Init, IdleProc, ClaimedWasReviewed, Claimed
<1>4. Spec => []ClaimedWasReviewed
  BY <1>3, ClaimedStaysReviewed, ReviewInvariance, PTL DEF Spec
<1>5. QED
  BY <1>2, <1>4, ReviewInvariance, LiveIsOrdinary, PTL DEF LiveSpec, LetsGoOnlyOfSettled
=============================================================================
