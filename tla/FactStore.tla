------------------------------ MODULE FactStore ------------------------------
(***************************************************************************)
(* Fact edges and the evidence they rest on, as applyApprovedCandidateToSql *)
(* and deprecateEdge leave them.  Both transactions lock the row of the    *)
(* edge before they write, so each is one step.                            *)
(***************************************************************************)
EXTENDS Naturals, Sequences

CONSTANTS
    Edges,       \* the identities subject, object, relation and component
    Origins,     \* what evidence is extracted from: a document, by an extractor
    Levels,      \* the evidence levels candidates are scored at
    MaxEvidence  \* bound: evidence rows of an edge

ASSUME FactAssumption == /\ Levels \subseteq 1..5
                         /\ MaxEvidence \in Nat \ {0}

VARIABLES
    edge,     \* the row of each edge
    evidence  \* the evidence rows of each edge, oldest first

facts == <<edge, evidence>>

-----------------------------------------------------------------------------
\* primary_evidence_id, superseded_by and the row of an edge refer to evidence
\* by its place; 0 is NULL.
Places == 1..MaxEvidence

Edge == [validity : {"absent", "current", "deprecated"}, level : 0..5,
         inferred : {"yes", "no"}, primary : 0..MaxEvidence]

Evidence == [origin : Origins, level : Levels, by : 0..MaxEvidence]

AbsentEdge == [validity |-> "absent", level |-> 0, inferred |-> "no", primary |-> 0]

FactInit == /\ edge = [e \in Edges |-> AbsentEdge]
            /\ evidence = [e \in Edges |-> <<>>]

-----------------------------------------------------------------------------
\* The scorer calls a candidate inferred up to level 3.
Inferred(level) == IF level <= 3 THEN "yes" ELSE "no"

Live(E) == {k \in DOMAIN E : E[k].by = 0}

\* Variant for PrimaryIsBest: superseded evidence is not left out.
BestOfAll(E) == {k \in DOMAIN E : \A j \in DOMAIN E : E[j].level <= E[k].level}

\* Confidence and age, which break the tie between equal levels, are left out.
Best(E) == {k \in Live(E) : \A j \in Live(E) : E[j].level <= E[k].level}

\* Variant for SupersededByItsOrigin: all of the edge's evidence is superseded.
SupersedeAll(E, origin, n) ==
    [k \in DOMAIN E |-> IF E[k].by = 0 THEN [E[k] EXCEPT !.by = n] ELSE E[k]]

\* Variant for TypeOK: the new row is taken to be one place further.
SupersedeOneOff(E, origin, n) ==
    [k \in DOMAIN E |-> IF E[k].origin = origin /\ E[k].by = 0 THEN [E[k] EXCEPT !.by = n + 1] ELSE E[k]]

\* supersedeOlderEvidence: the n-th row replaces what the same extractor found
\* in the same document.
Supersede(E, origin, n) ==
    [k \in DOMAIN E |-> IF E[k].origin = origin /\ E[k].by = 0 THEN [E[k] EXCEPT !.by = n] ELSE E[k]]

WithNewest(E, origin, level) ==
    Append(Supersede(E, origin, Len(E) + 1), [origin |-> origin, level |-> level, by |-> 0])

\* Variant for ListedIsCitable: is_inferred keeps its value on conflict.
UpsertedEdgeKeepsInferred(old, level, primary) ==
    [validity |-> "current", level |-> IF old.level > level THEN old.level ELSE level,
     inferred |-> IF old.validity = "absent" THEN Inferred(level) ELSE old.inferred, primary |-> primary]

\* Variant for LevelIsHighest: the level is that of the newest evidence.
UpsertedEdgeOfNewest(old, level, primary) ==
    [validity |-> "current", level |-> level, inferred |-> Inferred(level), primary |-> primary]

\* upsertCurrentEdge, and the primary evidence set after it.
UpsertedEdge(old, level, primary) ==
    [validity |-> "current", level |-> IF old.level > level THEN old.level ELSE level,
     inferred |-> Inferred(level), primary |-> primary]

\* A candidate for a deprecated edge throws and leaves everything as it was.
ApplyCandidate(e, origin, level) ==
    LET E == WithNewest(evidence[e], origin, level)
    IN  /\ edge[e].validity # "deprecated"
        /\ Len(evidence[e]) < MaxEvidence
        /\ evidence' = [evidence EXCEPT ![e] = E]
        /\ \E k \in Best(E) : edge' = [edge EXCEPT ![e] = UpsertedEdge(edge[e], level, k)]

DeprecateEdge(e) ==
    /\ edge[e].validity = "current"
    /\ edge' = [edge EXCEPT ![e].validity = "deprecated"]
    /\ UNCHANGED evidence

ChangesFacts(e) ==
    \/ \E origin \in Origins, level \in Levels : ApplyCandidate(e, origin, level)
    \/ DeprecateEdge(e)

-----------------------------------------------------------------------------
FactTypeOK == /\ edge \in [Edges -> Edge]
              /\ evidence \in [Edges -> Seq(Evidence)]
              /\ \A e \in Edges : Len(evidence[e]) <= MaxEvidence

\* listClaimableFactEdges with the default min_evidence_level.
Claimable(e) == /\ edge[e].validity = "current"
                /\ edge[e].level >= 4
                /\ edge[e].inferred = "no"
                /\ edge[e].primary # 0

\* listCurrentEvidenceForEdge: the evidence a claim is made from.
Citable(E) == {k \in Live(E) : Inferred(E[k].level) = "no"}

-----------------------------------------------------------------------------
\* Each applied candidate leaves one more row of evidence, so their number is
\* the version of the edge.
Register == INSTANCE EdgeRegister WITH
    row <- [e \in Edges |-> [validity |-> edge[e].validity, version |-> Len(evidence[e])]]

\* Whatever candidates arrive in whatever order, an edge and its evidence change
\* as the register of edges does: no evidence is added without a write of the
\* edge, and a deprecated edge neither changes nor gathers evidence.
ImplementsRegister == Register!RegisterSpec

\* Evidence is superseded only by newer evidence of its own origin, and each
\* origin that ever supported an edge has exactly one live row: what one
\* document says is neither lost nor counted twice.
SupersededByItsOrigin ==
    \A e \in Edges :
        LET E == evidence[e]
        IN  /\ \A k \in DOMAIN E : E[k].by # 0 =>
                   E[k].by > k /\ E[k].by \in DOMAIN E /\ E[E[k].by].origin = E[k].origin
            /\ \A k, j \in Live(E) : E[k].origin = E[j].origin => k = j
            /\ \A k \in DOMAIN E : \E j \in Live(E) : E[j].origin = E[k].origin

\* A current edge cites the best of its live evidence, and a deprecated one
\* keeps citing what it cited last.
PrimaryIsBest ==
    \A e \in Edges :
        LET E == evidence[e]
            p == edge[e].primary
        IN  edge[e].validity # "absent" => p \in Live(E) /\ \A j \in Live(E) : E[j].level <= E[p].level

\* The primary evidence of every edge the claim builder lists is among the
\* evidence it will cite.  Otherwise the build would throw at this edge in every
\* run, and no edge listed after it would ever get a claim.
ListedIsCitable == \A e \in Edges : Claimable(e) => edge[e].primary \in Citable(evidence[e])

\* The level of an edge is the highest of all its evidence, superseded or not.
LevelIsHighest ==
    \A e \in Edges :
        LET E == evidence[e]
        IN  edge[e].validity # "absent" =>
                /\ \A k \in DOMAIN E : E[k].level <= edge[e].level
                /\ \E k \in DOMAIN E : E[k].level = edge[e].level
=============================================================================
