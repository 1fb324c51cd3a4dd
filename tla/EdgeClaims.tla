----------------------------- MODULE EdgeClaims -----------------------------
(***************************************************************************)
(* The claims made from fact edges.  Builders list the claimable edges and *)
(* then write claims in batches, each in a transaction of its own, while   *)
(* evidence is added, edges are deprecated, and people edit, contest and   *)
(* retire the claims.  What a batch or a handler reads in its transaction  *)
(* is taken to be unchanged when it writes.                                *)
(***************************************************************************)
EXTENDS FactStore, FiniteSets

CONSTANTS
    Builders,  \* the builds that may run at the same time
    Reviews    \* approved reviews of a relation that disappeared from its source

VARIABLES
    claim,    \* the row of each edge's claim
    role,     \* claim_evidence: the role of each evidence row in the claim
    unknown,  \* the unknowns linked to the claim, by what they were opened for
    builder   \* the rows each build has listed and not yet written

claims == <<claim, role, unknown>>
vars == <<facts, claims, builder>>

-----------------------------------------------------------------------------
\* What a refresh writes: the level and the primary evidence it has listed,
\* and the evidence its confidence is fused from.  The text and the confidence
\* that a person may set by hand are left out.
Content == [level : 0..5, primary : 0..MaxEvidence, basis : SUBSET Places]

NoContent == [level |-> 0, primary |-> 0, basis |-> {}]

\* edited is last_human_edit_at.
Claim == [status : {"none", "active", "superseded", "rejected"}, edited : {"yes", "no"}, content : Content]

NoClaim == [status |-> "none", edited |-> "no", content |-> NoContent]

Roles == {"none", "primary", "supporting", "contradicting"}

\* Claims are contested by evidence and by reviewed removals.
Contests == Places \cup Reviews

Listed == [level : 0..5, primary : Places]

Init == /\ FactInit
        /\ claim = [e \in Edges |-> NoClaim]
        /\ role = [e \in Edges |-> [k \in Places |-> "none"]]
        /\ unknown = [e \in Edges |-> [c \in Contests |-> "none"]]
        /\ builder = [b \in Builders |-> <<>>]

-----------------------------------------------------------------------------
Inactive(e) == claim[e].status \in {"superseded", "rejected"}

Protected(e) == Inactive(e) \/ claim[e].edited = "yes"

\* listClaimableFactEdges, outside of any transaction; its LIMIT (500) is taken
\* to be no less than the number of claimable edges.
\* A build is the function from the edges left to write to their listed rows.
ListClaimable(b) ==
    /\ builder[b] = <<>>
    /\ \E e \in Edges : Claimable(e)
    /\ builder' = [builder EXCEPT ![b] =
           [e \in {d \in Edges : Claimable(d)} |-> [level |-> edge[e].level, primary |-> edge[e].primary]]]
    /\ UNCHANGED <<facts, claims>>

ContentOf(e, row) ==
    [level |-> row.level, primary |-> row.primary, basis |-> Citable(evidence[e])]

\* Variant for ClaimsCatchUp: ON CONFLICT DO NOTHING.
UpsertedClaimOnce(e, row) ==
    IF claim[e].status # "none" THEN claim[e]
    ELSE [status |-> "active", edited |-> "no", content |-> ContentOf(e, row)]

\* Variant for HandsOff: the claims a person has edited are not spared.
UpsertedClaimOverEdits(e, row) ==
    IF Inactive(e) THEN claim[e]
    ELSE [status |-> "active", edited |-> "no", content |-> ContentOf(e, row)]

\* upsertClaim
UpsertedClaim(e, row) ==
    IF Protected(e) THEN claim[e]
    ELSE [status |-> "active", edited |-> "no", content |-> ContentOf(e, row)]

\* linkClaimEvidence for every contribution, whatever role it had.
LinkedRoles(e, row) ==
    [k \in Places |-> IF k \notin Citable(evidence[e]) THEN role[e][k]
                      ELSE IF k = row.primary THEN "primary" ELSE "supporting"]

Rest(b, B) == [e \in DOMAIN builder[b] \ B |-> builder[b][e]]

\* The next batch B is listed, and all of its primary evidence is still live.
BuildBatch(b, B) ==
    /\ B # {} /\ B \subseteq DOMAIN builder[b]
    /\ \A e \in B : builder[b][e].primary \in Citable(evidence[e])
    /\ claim' = [e \in Edges |-> IF e \in B THEN UpsertedClaim(e, builder[b][e]) ELSE claim[e]]
    /\ role' = [e \in Edges |-> IF e \in B THEN LinkedRoles(e, builder[b][e]) ELSE role[e]]
    /\ builder' = [builder EXCEPT ![b] = Rest(b, B)]
    /\ UNCHANGED <<facts, unknown>>

\* The primary evidence of an edge was superseded since it was listed: the
\* batch is rolled back and the build ends, as it does in a crash.
BuildThrows(b) ==
    /\ \E e \in DOMAIN builder[b] : builder[b][e].primary \notin Citable(evidence[e])
    /\ builder' = [builder EXCEPT ![b] = <<>>]
    /\ UNCHANGED <<facts, claims>>

Crash(b) ==
    /\ builder[b] # <<>>
    /\ builder' = [builder EXCEPT ![b] = <<>>]
    /\ UNCHANGED <<facts, claims>>

-----------------------------------------------------------------------------
\* markClaimHumanEdited
EditClaim(e) ==
    /\ claim[e].status = "active"
    /\ claim' = [claim EXCEPT ![e].edited = "yes"]
    /\ UNCHANGED <<facts, role, unknown, builder>>

\* supersede_claim and reject_claim of resolveClaimLifecycle; the claim that
\* supersedes is one of those not modelled.
RetireClaim(e) ==
    /\ claim[e].status = "active"
    /\ \E s \in {"superseded", "rejected"} : claim' = [claim EXCEPT ![e].status = s]
    /\ UNCHANGED <<facts, role, unknown, builder>>

\* upsertUnknownItem
Reopened(status) == IF status = "resolved" THEN "resolved" ELSE "open"

\* Variant for ConflictStands: the evidence is linked without an unknown.
LinkContradictionOnly(e, k) ==
    /\ claim[e].status = "active"
    /\ k \in Live(evidence[e])
    /\ role' = [role EXCEPT ![e][k] = "contradicting"]
    /\ UNCHANGED <<facts, claim, unknown, builder>>

\* linkContradictingEvidenceToClaim, with the unknown's default id.  Only
\* evidence of the claim's own edge is modelled: a refresh changes its role.
LinkContradiction(e, k) ==
    /\ claim[e].status = "active"
    /\ k \in Live(evidence[e])
    /\ role' = [role EXCEPT ![e][k] = "contradicting"]
    /\ unknown' = [unknown EXCEPT ![e][k] = Reopened(unknown[e][k])]
    /\ UNCHANGED <<facts, claim, builder>>

\* upsertSemanticChangeClaimDraft for a *_REMOVED change: its unknown blocks
\* the claim that listActiveClaimsForSemanticChange finds.
AcknowledgeRemoval(e, r) ==
    /\ claim[e].status = "active"
    /\ edge[e].validity = "current" /\ edge[e].inferred = "no"
    /\ unknown[e][r] = "none"
    /\ unknown' = [unknown EXCEPT ![e][r] = "open"]
    /\ UNCHANGED <<facts, claim, role, builder>>

\* confirm_claim_valid of resolveClaimConflictReview; its other actions change
\* nothing but the record of changes.
ConfirmClaim(e, c) ==
    /\ claim[e].status = "active"
    /\ unknown[e][c] = "open"
    /\ unknown' = [unknown EXCEPT ![e][c] = "resolved"]
    /\ UNCHANGED <<facts, claim, role, builder>>

-----------------------------------------------------------------------------
Builds(b) == \/ ListClaimable(b) \/ BuildThrows(b)
             \/ \E B \in SUBSET Edges : BuildBatch(b, B)

Intervenes(e) ==
    \/ EditClaim(e) \/ RetireClaim(e)
    \/ \E k \in Places : LinkContradiction(e, k)
    \/ \E r \in Reviews : AcknowledgeRemoval(e, r)
    \/ \E c \in Contests : ConfirmClaim(e, c)

StoreStep(e) == ChangesFacts(e) /\ UNCHANGED <<claims, builder>>

Next == \/ \E b \in Builders : Builds(b) \/ Crash(b)
        \/ \E e \in Edges : Intervenes(e) \/ StoreStep(e)

Spec == Init /\ [][Next]_vars

-----------------------------------------------------------------------------
Contradicted(e) == \E k \in Places : role[e][k] = "contradicting"

SomeUnknown(e, status) == \E c \in Contests : unknown[e][c] = status

\* adjudicateClaimConflict: the first rule that matches.
Adjudication(e) ==
    CASE Inactive(e) -> IF Contradicted(e) \/ SomeUnknown(e, "open") \/ SomeUnknown(e, "resolved")
                        THEN "resolved_conflict" ELSE "none"
      [] OTHER -> IF SomeUnknown(e, "open") THEN "open_conflict"
                  ELSE IF Contradicted(e) /\ ~SomeUnknown(e, "resolved") THEN "contradicting_evidence"
                  ELSE IF SomeUnknown(e, "resolved") THEN "resolved_conflict" ELSE "none"

-----------------------------------------------------------------------------
TypeOK == /\ FactTypeOK
          /\ claim \in [Edges -> Claim]
          /\ role \in [Edges -> [Places -> Roles]]
          /\ unknown \in [Edges -> [Contests -> {"none", "open", "resolved"}]]
          /\ builder \in [Builders -> UNION {[S -> Listed] : S \in SUBSET Edges}]

\* A retired claim is not revived, and neither it nor a claim edited by hand
\* gets another content, whichever builds are under way.
HandsOff ==
    [][\A e \in Edges :
          /\ Inactive(e) => claim'[e] = claim[e]
          /\ claim[e].edited = "yes" => claim'[e].edited = "yes" /\ claim'[e].content = claim[e].content]_vars

\* A contested claim counts as contested until a reviewer has confirmed it or
\* it is retired, and its conflict is never forgotten: refreshing the claim
\* cites the contradicting evidence as support again, but the unknown stays.
ConflictStands ==
    [][\A e \in Edges :
          /\ Adjudication(e) # "none" => Adjudication(e)' # "none"
          /\ Adjudication(e) \in {"open_conflict", "contradicting_evidence"} /\ ~Inactive(e)' =>
                 \/ Adjudication(e)' \in {"open_conflict", "contradicting_evidence"}
                 \/ \E c \in Contests : ConfirmClaim(e, c)]_vars
=============================================================================
