-------------------------- MODULE EdgeClaims_proofs --------------------------
(***************************************************************************)
(* Facts and claims for any number of edges, builds and evidence rows.     *)
(* All that is proved of an edge follows from what one lemma says of its   *)
(* evidence after a candidate was applied; the invariant adds that the     *)
(* newest evidence of an edge that is no inference is disclosed, and that  *)
(* a claim is edited by hand only after it was made.                       *)
(***************************************************************************)
EXTENDS EdgeClaimsLive, SequenceTheorems, TLAPS

-----------------------------------------------------------------------------
\* A current edge that is not inferred has live evidence that is not inferred:
\* the candidate which wrote is_inferred last, or what replaced it.
DisclosedIsLive ==
    \A e \in Edges : edge[e].validity = "current" /\ edge[e].inferred = "no" =>
        \E k \in Live(evidence[e]) : evidence[e][k].level > 3

\* An edge that was never written has no evidence.
AbsentIsBare == \A e \in Edges : edge[e].validity = "absent" => edge[e].level = 0 /\ evidence[e] = <<>>

FactInv == /\ FactTypeOK
           /\ AbsentIsBare
           /\ SupersededByItsOrigin
           /\ PrimaryIsBest
           /\ LevelIsHighest
           /\ DisclosedIsLive

-----------------------------------------------------------------------------
\* Levels can be compared.
LEMMA LevelsAreNumbers == ASSUME NEW l \in Levels PROVE l \in Nat /\ l <= 5
BY FactAssumption

\* The rows of an edge after a candidate: one more, live and last; the live
\* rows of the same origin point to it, and nothing else has changed.
LEMMA NewestRow ==
    ASSUME NEW E \in Seq(Evidence), Len(E) < MaxEvidence,
           NEW origin \in Origins, NEW level \in Levels,
           NEW F, F = WithNewest(E, origin, level)
    PROVE  /\ F \in Seq(Evidence)
           /\ Len(F) = Len(E) + 1
           /\ Len(E) \in Nat
           /\ DOMAIN E = 1..Len(E) /\ DOMAIN F = 1..(Len(E) + 1)
           /\ F[Len(E) + 1] = [origin |-> origin, level |-> level, by |-> 0]
           /\ \A k \in 1..Len(E) :
                  /\ F[k].origin = E[k].origin
                  /\ F[k].level = E[k].level
                  /\ F[k].by = IF E[k].origin = origin /\ E[k].by = 0 THEN Len(E) + 1 ELSE E[k].by
<1> DEFINE n == Len(E) + 1
           S == Supersede(E, origin, n)
           new == [origin |-> origin, level |-> level, by |-> 0]
<1>1. Len(E) \in Nat /\ DOMAIN E = 1..Len(E) /\ n \in 0..MaxEvidence
  BY LenProperties, FactAssumption
<1>2. S = [k \in 1..Len(E) |-> IF E[k].origin = origin /\ E[k].by = 0 THEN [E[k] EXCEPT !.by = n] ELSE E[k]]
  BY <1>1 DEF Supersede
<1>3. \A k \in 1..Len(E) : E[k] \in Evidence
  BY ElementOfSeq
<1>4. \A k \in 1..Len(E) : [E[k] EXCEPT !.by = n] \in Evidence
  BY <1>1, <1>3 DEF Evidence
<1>5. S \in [1..Len(E) -> Evidence]
  BY <1>2, <1>3, <1>4
<1>6. S \in Seq(Evidence) /\ Len(S) = Len(E)
  BY <1>1, <1>5
<1>7. new \in Evidence
  BY <1>1, FactAssumption DEF Evidence
<1>8. F = Append(S, new)
  BY DEF WithNewest
<1> HIDE DEF S, new
<1>9. /\ F \in Seq(Evidence) /\ Len(F) = Len(E) + 1
      /\ \A k \in 1..Len(E) : F[k] = S[k]
      /\ F[Len(E) + 1] = new
  BY <1>1, <1>6, <1>7, <1>8
<1>10. DOMAIN F = 1..(Len(E) + 1)
  BY <1>9, LenProperties
<1>11. \A k \in 1..Len(E) :
                  /\ S[k].origin = E[k].origin
                  /\ S[k].level = E[k].level
                  /\ S[k].by = IF E[k].origin = origin /\ E[k].by = 0 THEN Len(E) + 1 ELSE E[k].by
  BY <1>1, <1>2, <1>3 DEF Evidence
<1>12. QED
  BY <1>1, <1>9, <1>10, <1>11 DEF new

-----------------------------------------------------------------------------
\* No edges, no evidence.
LEMMA FactInitGood == FactInit => FactInv
<1> SUFFICES ASSUME FactInit PROVE FactInv
  OBVIOUS
<1>1. \A e \in Edges : edge[e] = AbsentEdge /\ evidence[e] = <<>>
  BY DEF FactInit
<1>2. FactTypeOK
  BY FactAssumption, EmptySeq DEF FactInit, FactTypeOK, Edge, AbsentEdge
<1>3. QED
  BY <1>1, <1>2 DEF FactInv, AbsentIsBare, SupersededByItsOrigin, PrimaryIsBest, LevelIsHighest,
                    DisclosedIsLive, Live, AbsentEdge

\* An applied candidate keeps the invariant: what was live of its origin is
\* superseded by it, and it is itself live.
LEMMA ApplyKeeps ==
    ASSUME FactInv, NEW e \in Edges, NEW origin \in Origins, NEW level \in Levels,
           ApplyCandidate(e, origin, level)
    PROVE  FactInv'
<1> DEFINE E == evidence[e]
           F == WithNewest(E, origin, level)
           n == Len(E) + 1
<1>1. E \in Seq(Evidence) /\ Len(E) < MaxEvidence /\ edge[e] \in Edge
  BY DEF FactInv, FactTypeOK, ApplyCandidate
<1>2. PICK p \in Best(F) : edge' = [edge EXCEPT ![e] = UpsertedEdge(edge[e], level, p)]
  BY DEF ApplyCandidate
<1>3. evidence'[e] = F /\ evidence' = [evidence EXCEPT ![e] = F]
  BY DEF ApplyCandidate, FactInv, FactTypeOK
<1>4. \A d \in Edges \ {e} : evidence'[d] = evidence[d] /\ edge'[d] = edge[d]
  BY <1>2, <1>3
<1>5. /\ F \in Seq(Evidence) /\ Len(F) = n
      /\ Len(E) \in Nat /\ DOMAIN E = 1..Len(E) /\ DOMAIN F = 1..n
      /\ F[n] = [origin |-> origin, level |-> level, by |-> 0]
      /\ \A k \in 1..Len(E) :
             /\ F[k].origin = E[k].origin
             /\ F[k].level = E[k].level
             /\ F[k].by = IF E[k].origin = origin /\ E[k].by = 0 THEN n ELSE E[k].by
  BY <1>1, NewestRow
<1> HIDE DEF F
<1>6. \A k \in 1..Len(E) : E[k] \in Evidence
  BY <1>1, ElementOfSeq
<1>7. level \in Nat /\ MaxEvidence \in Nat /\ level <= 5
  BY FactAssumption
<1>8. /\ edge'[e].validity = "current" /\ edge'[e].primary = p
      /\ edge'[e].inferred = Inferred(level)
      /\ edge'[e].level = IF edge[e].level > level THEN edge[e].level ELSE level
      /\ edge' \in [Edges -> Edge]
  <2>1. p \in 0..MaxEvidence
    BY <1>1, <1>5, <1>7 DEF Best, Live
  <2>2. edge[e].level \in 0..5
    BY <1>1 DEF Edge
  <2>3. UpsertedEdge(edge[e], level, p) \in Edge
    BY <1>7, <2>1, <2>2 DEF UpsertedEdge, Edge, Inferred
  <2>4. edge \in [Edges -> Edge]
    BY DEF FactInv, FactTypeOK
  <2>5. edge'[e] = UpsertedEdge(edge[e], level, p)
    BY <1>2, <2>4
  <2>6. QED
    BY <1>2, <2>3, <2>4, <2>5 DEF UpsertedEdge
<1>9. FactTypeOK' /\ AbsentIsBare'
  <2>1. evidence' \in [Edges -> Seq(Evidence)]
    BY <1>3, <1>5 DEF FactInv, FactTypeOK
  <2>2. \A d \in Edges : Len(evidence'[d]) <= MaxEvidence
    BY <1>1, <1>3, <1>4, <1>5, <1>7 DEF FactInv, FactTypeOK
  <2>3. AbsentIsBare'
    BY <1>4, <1>8 DEF FactInv, AbsentIsBare
  <2>4. QED
    BY <1>8, <2>1, <2>2, <2>3 DEF FactTypeOK
<1>10. Live(F) = {k \in Live(E) : E[k].origin # origin} \cup {n}
  BY <1>5, <1>6 DEF Live, Evidence
<1>11. SupersededByItsOrigin'
  <2> SUFFICES ASSUME NEW d \in Edges
      PROVE  LET D == evidence'[d]
             IN  /\ \A k \in DOMAIN D : D[k].by # 0 =>
                        D[k].by > k /\ D[k].by \in DOMAIN D /\ D[D[k].by].origin = D[k].origin
                 /\ \A k, j \in Live(D) : D[k].origin = D[j].origin => k = j
                 /\ \A k \in DOMAIN D : \E j \in Live(D) : D[j].origin = D[k].origin
    BY DEF SupersededByItsOrigin
  <2>1. CASE d # e
    BY <1>4, <2>1 DEF FactInv, SupersededByItsOrigin
  <2>2. CASE d = e
    <3>1. /\ \A k \in DOMAIN E : E[k].by # 0 =>
                 E[k].by > k /\ E[k].by \in DOMAIN E /\ E[E[k].by].origin = E[k].origin
          /\ \A k, j \in Live(E) : E[k].origin = E[j].origin => k = j
          /\ \A k \in DOMAIN E : \E j \in Live(E) : E[j].origin = E[k].origin
      BY DEF FactInv, SupersededByItsOrigin
    <3>2. ASSUME NEW k \in DOMAIN F, F[k].by # 0
          PROVE  F[k].by > k /\ F[k].by \in DOMAIN F /\ F[F[k].by].origin = F[k].origin
      <4>1. k \in 1..Len(E)
        BY <1>5, <3>2
      <4>2. CASE E[k].origin = origin /\ E[k].by = 0
        BY <1>5, <4>1, <4>2
      <4>3. CASE ~(E[k].origin = origin /\ E[k].by = 0)
        <5>1. F[k].by = E[k].by /\ E[k].by # 0
          BY <1>5, <3>2, <4>1, <4>3
        <5>2. E[k].by > k /\ E[k].by \in 1..Len(E) /\ E[E[k].by].origin = E[k].origin
          BY <1>5, <3>1, <4>1, <5>1
        <5>3. QED
          BY <1>5, <4>1, <5>1, <5>2
      <4>4. QED
        BY <4>2, <4>3
    <3>3. \A k, j \in Live(F) : F[k].origin = F[j].origin => k = j
      BY <1>5, <1>10, <3>1 DEF Live
    <3>4. \A k \in DOMAIN F : \E j \in Live(F) : F[j].origin = F[k].origin
      BY <1>5, <1>10, <3>1 DEF Live
    <3>5. QED
      BY <1>3, <2>2, <3>2, <3>3, <3>4
  <2>3. QED
    BY <2>1, <2>2
<1>12. PrimaryIsBest'
  BY <1>3, <1>4, <1>8 DEF FactInv, PrimaryIsBest, Best
<1>13. LevelIsHighest'
  <2> SUFFICES ASSUME NEW d \in Edges, edge'[d].validity # "absent"
      PROVE  /\ \A k \in DOMAIN evidence'[d] : evidence'[d][k].level <= edge'[d].level
             /\ \E k \in DOMAIN evidence'[d] : evidence'[d][k].level = edge'[d].level
    BY DEF LevelIsHighest
  <2>1. CASE d # e
    BY <1>4, <2>1 DEF FactInv, LevelIsHighest
  <2>2. CASE d = e
    <3> DEFINE high == edge[e].level
    <3>1. /\ \A k \in 1..Len(E) : E[k].level <= high
          /\ high # 0 => \E k \in 1..Len(E) : E[k].level = high
          /\ high \in Nat /\ \A k \in 1..Len(E) : E[k].level \in Nat
      <4>1. edge[e].validity # "absent" => /\ \A k \in 1..Len(E) : E[k].level <= high
                                           /\ \E k \in 1..Len(E) : E[k].level = high
        BY <1>5 DEF FactInv, LevelIsHighest
      <4>2. edge[e].validity = "absent" => high = 0 /\ Len(E) = 0
        BY EmptySeq DEF FactInv, AbsentIsBare
      <4>3. high \in Nat
        BY <1>1 DEF Edge
      <4>4. \A k \in 1..Len(E) : E[k].level \in Levels
        BY <1>6 DEF Evidence
      <4>5. \A k \in 1..Len(E) : E[k].level \in Nat
        BY <4>4, LevelsAreNumbers
      <4>6. QED
        BY <4>1, <4>2, <4>3, <4>5
    <3>2. \A k \in 1..n : F[k].level <= edge'[e].level
      <4>1. \A k \in 1..Len(E) : F[k].level = E[k].level
        BY <1>5
      <4>2. F[n].level = level
        BY <1>5
      <4>3. edge'[e].level = (IF high > level THEN high ELSE level)
        BY <1>8
      <4> HIDE DEF high, E
      <4>4. \A k \in 1..Len(E) : F[k].level <= edge'[e].level
        BY <1>7, <3>1, <4>1, <4>3
      <4>5. QED
        BY <1>5, <1>7, <3>1, <4>2, <4>3, <4>4
    <3>3. \E k \in 1..n : F[k].level = edge'[e].level
      <4>1. CASE edge[e].level > level
        BY <1>5, <1>7, <1>8, <3>1, <4>1
      <4>2. CASE ~(edge[e].level > level)
        BY <1>5, <1>7, <1>8, <4>2
      <4>3. QED
        BY <4>1, <4>2
    <3>4. QED
      BY <1>3, <1>5, <2>2, <3>2, <3>3
  <2>3. QED
    BY <2>1, <2>2
<1>14. DisclosedIsLive'
  <2> SUFFICES ASSUME NEW d \in Edges, edge'[d].validity = "current", edge'[d].inferred = "no"
      PROVE  \E k \in Live(evidence'[d]) : evidence'[d][k].level > 3
    BY DEF DisclosedIsLive
  <2>1. CASE d # e
    BY <1>4, <2>1 DEF FactInv, DisclosedIsLive
  <2>2. CASE d = e
    BY <1>3, <1>5, <1>7, <1>8, <1>10, <2>2 DEF Inferred
  <2>3. QED
    BY <2>1, <2>2
<1>15. QED
  BY <1>9, <1>11, <1>12, <1>13, <1>14 DEF FactInv

\* A deprecated edge keeps its level, its evidence and what it cites.
LEMMA DeprecateKeeps ==
    ASSUME FactInv, NEW e \in Edges, DeprecateEdge(e)
    PROVE  FactInv'
<1>1. edge' = [edge EXCEPT ![e].validity = "deprecated"] /\ evidence' = evidence /\ edge[e].validity = "current"
  BY DEF DeprecateEdge
<1>2. edge[e] \in Edge
  BY DEF FactInv, FactTypeOK
<1>3. [edge[e] EXCEPT !.validity = "deprecated"] \in Edge
  BY <1>2 DEF Edge
<1>4. FactTypeOK'
  BY <1>1, <1>3 DEF FactInv, FactTypeOK
<1>5. ASSUME NEW d \in Edges
      PROVE  /\ edge'[d].level = edge[d].level
             /\ edge'[d].primary = edge[d].primary
             /\ edge'[d].inferred = edge[d].inferred
             /\ \/ edge'[d].validity = edge[d].validity
                \/ edge'[d].validity = "deprecated" /\ edge[d].validity = "current"
  <2>1. edge \in [Edges -> Edge]
    BY DEF FactInv, FactTypeOK
  <2>2. CASE d = e
    <3>1. edge'[d] = [edge[e] EXCEPT !.validity = "deprecated"]
      BY <1>1, <2>1, <2>2
    <3>2. QED
      BY <1>1, <1>2, <2>2, <3>1 DEF Edge
  <2>3. CASE d # e
    BY <1>1, <2>1, <2>3
  <2>4. QED
    BY <2>2, <2>3
<1>6. QED
  BY <1>1, <1>4, <1>5 DEF FactInv, AbsentIsBare, SupersededByItsOrigin, PrimaryIsBest, LevelIsHighest, DisclosedIsLive

\* What is listed can be cited.
LEMMA GoodIsCitable == FactInv => ListedIsCitable
<1> SUFFICES ASSUME FactInv, NEW e \in Edges, Claimable(e)
             PROVE  edge[e].primary \in Citable(evidence[e])
  BY DEF ListedIsCitable
<1> DEFINE E == evidence[e]
<1>1. E \in Seq(Evidence)
  BY DEF FactInv, FactTypeOK
<1>2. PICK k \in Live(E) : E[k].level > 3
  BY DEF FactInv, DisclosedIsLive, Claimable
<1>3. edge[e].primary \in Live(E) /\ \A j \in Live(E) : E[j].level <= E[edge[e].primary].level
  BY DEF FactInv, PrimaryIsBest, Claimable
<1>4. \A j \in Live(E) : E[j].level \in Nat
  <2> SUFFICES ASSUME NEW j \in Live(E) PROVE E[j].level \in Nat
    OBVIOUS
  <2>1. j \in 1..Len(E)
    BY <1>1, LenProperties DEF Live
  <2>2. E[j] \in Evidence
    BY <1>1, <2>1, ElementOfSeq
  <2>3. E[j].level \in Levels
    BY <2>2 DEF Evidence
  <2>4. QED
    BY <2>3, LevelsAreNumbers
<1>5. E[edge[e].primary].level > 3
  BY <1>2, <1>3, <1>4
<1>6. QED
  BY <1>3, <1>4, <1>5 DEF Citable, Inferred

\* A change of the facts of an edge keeps the invariant.
LEMMA FactsKeep == FactInv /\ [\E e \in Edges : ChangesFacts(e)]_facts => FactInv'
<1> SUFFICES ASSUME FactInv, [\E e \in Edges : ChangesFacts(e)]_facts PROVE FactInv'
  OBVIOUS
<1>1. ASSUME NEW e \in Edges, ChangesFacts(e) PROVE FactInv'
  BY <1>1, ApplyKeeps, DeprecateKeeps DEF ChangesFacts
<1>2. CASE UNCHANGED facts
  BY <1>2 DEF facts, FactInv, FactTypeOK, AbsentIsBare, SupersededByItsOrigin, PrimaryIsBest,
              LevelIsHighest, DisclosedIsLive
<1>3. QED
  BY <1>1, <1>2

\* What a step of the specification does to the facts.
LEMMA StepsChangeFacts == [Next]_vars => [\E e \in Edges : ChangesFacts(e)]_facts
<1> SUFFICES ASSUME [Next]_vars PROVE [\E e \in Edges : ChangesFacts(e)]_facts
  OBVIOUS
<1>1. ASSUME NEW b \in Builders, Builds(b) \/ Crash(b) PROVE UNCHANGED facts
  BY <1>1 DEF Builds, ListClaimable, BuildThrows, BuildBatch, Crash, facts
<1>2. ASSUME NEW e \in Edges, Intervenes(e) PROVE UNCHANGED facts
  BY <1>2 DEF Intervenes, EditClaim, RetireClaim, LinkContradiction, AcknowledgeRemoval, ConfirmClaim, facts
<1>3. ASSUME NEW e \in Edges, StoreStep(e) PROVE ChangesFacts(e)
  BY <1>3 DEF StoreStep
<1>4. CASE UNCHANGED vars
  BY <1>4 DEF vars, facts
<1>5. QED
  BY <1>1, <1>2, <1>3, <1>4 DEF Next

\* The facts are sound in every state.
LEMMA FactsSound == Spec => []FactInv
<1>1. Init => FactInv
  BY FactInitGood DEF Init
<1>2. FactInv /\ [Next]_vars => FactInv'
  BY FactsKeep, StepsChangeFacts
<1>3. QED
  BY <1>1, <1>2, PTL DEF Spec

\* What a document says of an edge is superseded by what the same extractor
\* finds in it later, and by nothing else; it counts once.
THEOREM EvidenceOfEachOrigin == Spec => []SupersededByItsOrigin
<1>1. FactInv => SupersededByItsOrigin
  BY DEF FactInv
<1>2. QED
  BY <1>1, FactsSound, PTL

\* An edge cites the best evidence that is not superseded.
THEOREM PrimaryEvidence == Spec => []PrimaryIsBest
<1>1. FactInv => PrimaryIsBest
  BY DEF FactInv
<1>2. QED
  BY <1>1, FactsSound, PTL

\* The level of an edge is the highest of its evidence.
THEOREM LevelOfEdge == Spec => []LevelIsHighest
<1>1. FactInv => LevelIsHighest
  BY DEF FactInv
<1>2. QED
  BY <1>1, FactsSound, PTL

\* The claim builder never lists an edge it cannot cite.
THEOREM BuildableEdges == Spec => []ListedIsCitable
<1>1. QED
  BY GoodIsCitable, FactsSound, PTL

-----------------------------------------------------------------------------
ClaimTypeOK == /\ claim \in [Edges -> Claim]
               /\ role \in [Edges -> [Places -> Roles]]
               /\ unknown \in [Edges -> [Contests -> {"none", "open", "resolved"}]]
               /\ builder \in [Builders -> UNION {[S -> Listed] : S \in SUBSET Edges}]

\* A build that has nothing left to write.
LEMMA NothingListed == <<>> \in UNION {[S -> Listed] : S \in SUBSET Edges}
<1>1. <<>> \in [{} -> Listed]
  BY EmptySeq
<1>2. {} \in SUBSET Edges
  OBVIOUS
<1>3. QED
  BY <1>1, <1>2

\* What is listed of claimable edges has the type of a build.
LEMMA ListingTypes ==
    ASSUME FactInv, NEW L, L = [e \in {d \in Edges : Claimable(d)} |-> [level |-> edge[e].level, primary |-> edge[e].primary]]
    PROVE  L \in UNION {[S -> Listed] : S \in SUBSET Edges}
<1> DEFINE S == {d \in Edges : Claimable(d)}
<1>1. ASSUME NEW e \in S PROVE [level |-> edge[e].level, primary |-> edge[e].primary] \in Listed
  <2>1. edge[e].level \in 0..5 /\ edge[e].primary \in 0..MaxEvidence /\ edge[e].primary # 0
    BY DEF FactInv, FactTypeOK, Edge, Claimable
  <2>2. edge[e].primary \in Places
    BY <2>1, FactAssumption DEF Places
  <2>3. QED
    BY <2>1, <2>2 DEF Listed
<1>2. L \in [S -> Listed]
  BY <1>1
<1>3. S \in SUBSET Edges
  OBVIOUS
<1>4. QED
  BY <1>2, <1>3

\* What a build writes of a row it has listed is a claim.
LEMMA WrittenTypes ==
    ASSUME FactInv, ClaimTypeOK, NEW e \in Edges, NEW row \in Listed
    PROVE  /\ UpsertedClaim(e, row) \in Claim
           /\ LinkedRoles(e, row) \in [Places -> Roles]
<1>1. Citable(evidence[e]) \in SUBSET Places
  <2>1. evidence[e] \in Seq(Evidence) /\ Len(evidence[e]) <= MaxEvidence
    BY DEF FactInv, FactTypeOK
  <2>2. QED
    BY <2>1, LenProperties, FactAssumption DEF Citable, Live, Places
<1>2. ContentOf(e, row) \in Content
  <2>1. row.level \in 0..5 /\ row.primary \in 0..MaxEvidence
    BY FactAssumption DEF Listed, Places
  <2>2. QED
    BY <1>1, <2>1 DEF ContentOf, Content
<1>3. UpsertedClaim(e, row) \in Claim
  BY <1>2 DEF ClaimTypeOK, UpsertedClaim, Claim
<1>4. LinkedRoles(e, row) \in [Places -> Roles]
  BY DEF ClaimTypeOK, LinkedRoles, Roles
<1>5. QED
  BY <1>3, <1>4

\* The claims made of a batch, and what is left of the build.
LEMMA BatchTypes ==
    ASSUME FactInv, ClaimTypeOK, NEW b \in Builders, NEW B \in SUBSET Edges, BuildBatch(b, B)
    PROVE  ClaimTypeOK'
<1>1. PICK S \in SUBSET Edges : builder[b] \in [S -> Listed]
  BY DEF ClaimTypeOK
<1>2. \A e \in B : builder[b][e] \in Listed
  BY <1>1 DEF BuildBatch
<1>3. claim' \in [Edges -> Claim] /\ role' \in [Edges -> [Places -> Roles]]
  <2>1. \A e \in B : /\ UpsertedClaim(e, builder[b][e]) \in Claim
                     /\ LinkedRoles(e, builder[b][e]) \in [Places -> Roles]
    BY <1>2, WrittenTypes
  <2>2. QED
    BY <2>1 DEF BuildBatch, ClaimTypeOK
<1>4. Rest(b, B) \in [S \ B -> Listed]
  BY <1>1 DEF Rest
<1>5. S \ B \in SUBSET Edges
  OBVIOUS
<1>6. Rest(b, B) \in UNION {[T -> Listed] : T \in SUBSET Edges}
  BY <1>4, <1>5
<1>7. QED
  BY <1>3, <1>6 DEF BuildBatch, ClaimTypeOK

\* Every step keeps the types of the claims.
LEMMA ClaimsKeepTypes == FactInv /\ ClaimTypeOK /\ [Next]_vars => ClaimTypeOK'
<1> SUFFICES ASSUME FactInv, ClaimTypeOK, [Next]_vars PROVE ClaimTypeOK'
  OBVIOUS
<1>1. ASSUME NEW b \in Builders, Builds(b) \/ Crash(b) PROVE ClaimTypeOK'
  <2>1. CASE ListClaimable(b)
    BY <2>1, ListingTypes DEF ListClaimable, ClaimTypeOK, claims
  <2>2. CASE BuildThrows(b) \/ Crash(b)
    BY <2>2, NothingListed DEF BuildThrows, Crash, ClaimTypeOK, claims
  <2>3. CASE \E B \in SUBSET Edges : BuildBatch(b, B)
    BY <2>3, BatchTypes
  <2>4. QED
    BY <1>1, <2>1, <2>2, <2>3 DEF Builds
<1>2. ASSUME NEW e \in Edges, Intervenes(e) PROVE ClaimTypeOK'
  <2>0. claim[e] \in Claim
    BY DEF ClaimTypeOK
  <2>1. CASE EditClaim(e)
    <3>1. [claim[e] EXCEPT !.edited = "yes"] \in Claim
      BY <2>0 DEF Claim
    <3>2. QED
      BY <2>1, <3>1 DEF EditClaim, ClaimTypeOK
  <2>2. CASE RetireClaim(e)
    <3>1. \A s \in {"superseded", "rejected"} : [claim[e] EXCEPT !.status = s] \in Claim
      BY <2>0 DEF Claim
    <3>2. QED
      BY <2>2, <3>1 DEF RetireClaim, ClaimTypeOK
  <2>3. ASSUME NEW k \in Places, LinkContradiction(e, k) PROVE ClaimTypeOK'
    BY <2>3 DEF LinkContradiction, Reopened, ClaimTypeOK, Roles
  <2>4. ASSUME NEW r \in Reviews, AcknowledgeRemoval(e, r) PROVE ClaimTypeOK'
    BY <2>4 DEF AcknowledgeRemoval, ClaimTypeOK
  <2>5. ASSUME NEW c \in Contests, ConfirmClaim(e, c) PROVE ClaimTypeOK'
    BY <2>5 DEF ConfirmClaim, ClaimTypeOK
  <2>6. QED
    BY <1>2, <2>1, <2>2, <2>3, <2>4, <2>5 DEF Intervenes
<1>3. ASSUME NEW e \in Edges, StoreStep(e) PROVE ClaimTypeOK'
  BY <1>3 DEF StoreStep, claims, ClaimTypeOK
<1>4. CASE UNCHANGED vars
  BY <1>4 DEF vars, claims, ClaimTypeOK
<1>5. QED
  BY <1>1, <1>2, <1>3, <1>4 DEF Next

IInv == FactInv /\ ClaimTypeOK

\* Facts and claims have their types, and the facts are sound.
LEMMA Sound == Spec => []IInv
<1>1. Init => ClaimTypeOK
  <2> SUFFICES ASSUME Init PROVE ClaimTypeOK
    OBVIOUS
  <2>1. NoClaim \in Claim
    BY FactAssumption DEF Claim, NoClaim, Content, NoContent
  <2>2. builder \in [Builders -> UNION {[S -> Listed] : S \in SUBSET Edges}]
    BY NothingListed DEF Init
  <2>3. QED
    BY <2>1, <2>2 DEF Init, ClaimTypeOK, Roles
<1>2. Init => FactInv
  BY FactInitGood DEF Init
<1>3. IInv /\ [Next]_vars => IInv'
  BY FactsKeep, StepsChangeFacts, ClaimsKeepTypes DEF IInv
<1>4. Init => IInv
  BY <1>1, <1>2 DEF IInv
<1>5. QED
  BY <1>3, <1>4, PTL DEF Spec

\* Type correctness of facts, claims and builds.
THEOREM ClaimTypes == Spec => []TypeOK
<1>1. IInv => TypeOK
  BY DEF IInv, FactInv, ClaimTypeOK, TypeOK
<1>2. QED
  BY <1>1, Sound, PTL

-----------------------------------------------------------------------------
\* No build touches a retired claim or one edited by hand, and nobody else
\* changes what it says.
THEOREM HandsOffClaims == Spec => HandsOff
<1> DEFINE Spared(e) == /\ Inactive(e) => claim'[e] = claim[e]
                        /\ claim[e].edited = "yes" =>
                               claim'[e].edited = "yes" /\ claim'[e].content = claim[e].content
<1>1. ASSUME IInv, [Next]_vars, NEW e \in Edges PROVE Spared(e)
  <2>1. claim \in [Edges -> Claim]
    BY <1>1 DEF IInv, ClaimTypeOK
  <2>2. ASSUME NEW b \in Builders, Builds(b) \/ Crash(b) PROVE Spared(e)
    BY <2>2 DEF Builds, ListClaimable, BuildThrows, BuildBatch, Crash, claims, UpsertedClaim, Protected, Inactive
  <2>3. ASSUME NEW d \in Edges, Intervenes(d) PROVE Spared(e)
    <3>1. CASE EditClaim(d)
      BY <2>1, <3>1 DEF EditClaim, Inactive, Claim
    <3>2. CASE RetireClaim(d)
      BY <2>1, <3>2 DEF RetireClaim, Inactive, Claim
    <3>3. CASE claim' = claim
      BY <3>3 DEF Inactive
    <3>4. QED
      BY <2>3, <3>1, <3>2, <3>3 DEF Intervenes, LinkContradiction, AcknowledgeRemoval, ConfirmClaim
  <2>4. CASE claim' = claim
    BY <2>4 DEF Inactive
  <2>5. QED
    BY <1>1, <2>2, <2>3, <2>4 DEF Next, StoreStep, claims, vars
<1>2. IInv /\ [Next]_vars => [\A e \in Edges : Spared(e)]_vars
  BY <1>1
<1>3. QED
  BY <1>2, Sound, PTL DEF Spec, HandsOff

-----------------------------------------------------------------------------
\* Evidence that contradicts a claim was linked together with an unknown.
ContestIsRecorded ==
    \A e \in Edges : \A k \in Places : role[e][k] = "contradicting" => unknown[e][k] # "none"

\* The unknowns alone decide how a claim is judged.
LEMMA JudgedByUnknowns ==
    IInv /\ ContestIsRecorded =>
        \A e \in Edges :
            /\ Adjudication(e) = "none" <=> \A c \in Contests : unknown[e][c] = "none"
            /\ Adjudication(e) \in {"open_conflict", "contradicting_evidence"} <=>
                  ~Inactive(e) /\ \E c \in Contests : unknown[e][c] = "open"
<1> SUFFICES ASSUME IInv, ContestIsRecorded, NEW e \in Edges
    PROVE  /\ Adjudication(e) = "none" <=> \A c \in Contests : unknown[e][c] = "none"
           /\ Adjudication(e) \in {"open_conflict", "contradicting_evidence"} <=>
                  ~Inactive(e) /\ \E c \in Contests : unknown[e][c] = "open"
  OBVIOUS
<1>1. \A c \in Contests : unknown[e][c] \in {"none", "open", "resolved"}
  BY DEF IInv, ClaimTypeOK
<1>2. Contradicted(e) => SomeUnknown(e, "open") \/ SomeUnknown(e, "resolved")
  BY <1>1 DEF ContestIsRecorded, Contradicted, SomeUnknown, Contests
<1>3. (\A c \in Contests : unknown[e][c] = "none") <=> ~SomeUnknown(e, "open") /\ ~SomeUnknown(e, "resolved")
  BY <1>1 DEF SomeUnknown
<1>4. (\E c \in Contests : unknown[e][c] = "open") <=> SomeUnknown(e, "open")
  BY DEF SomeUnknown
<1>5. CASE Inactive(e)
  BY <1>2, <1>3, <1>4, <1>5 DEF Adjudication
<1>6. CASE ~Inactive(e)
  BY <1>2, <1>3, <1>4, <1>6 DEF Adjudication
<1>7. QED
  BY <1>5, <1>6

\* Unknowns are opened and resolved, never removed, and an open one is
\* resolved only by a reviewer who confirms the claim.
LEMMA UnknownsStay ==
    ASSUME IInv, [Next]_vars, NEW e \in Edges, NEW c \in Contests
    PROVE  /\ unknown[e][c] # "none" => unknown'[e][c] # "none"
           /\ unknown[e][c] = "open" => unknown'[e][c] = "open" \/ ConfirmClaim(e, c)
<1>1. unknown \in [Edges -> [Contests -> {"none", "open", "resolved"}]]
  BY DEF IInv, ClaimTypeOK
<1>2. CASE unknown' = unknown
  BY <1>2
<1>3. ASSUME NEW d \in Edges, NEW k \in Places, LinkContradiction(d, k)
      PROVE  /\ unknown[e][c] # "none" => unknown'[e][c] # "none"
             /\ unknown[e][c] = "open" => unknown'[e][c] = "open"
  BY <1>1, <1>3 DEF LinkContradiction, Reopened, Contests
<1>4. ASSUME NEW d \in Edges, NEW r \in Reviews, AcknowledgeRemoval(d, r)
      PROVE  /\ unknown[e][c] # "none" => unknown'[e][c] # "none"
             /\ unknown[e][c] = "open" => unknown'[e][c] = "open"
  BY <1>1, <1>4 DEF AcknowledgeRemoval, Contests
<1>5. ASSUME NEW d \in Edges, NEW x \in Contests, ConfirmClaim(d, x)
      PROVE  /\ unknown[e][c] # "none" => unknown'[e][c] # "none"
             /\ unknown[e][c] = "open" => unknown'[e][c] = "open" \/ ConfirmClaim(e, c)
  <2>1. unknown' = [unknown EXCEPT ![d][x] = "resolved"]
    BY <1>5 DEF ConfirmClaim
  <2>2. CASE d = e /\ x = c
    BY <1>1, <1>5, <2>1, <2>2
  <2>3. CASE ~(d = e /\ x = c)
    BY <1>1, <2>1, <2>3
  <2>4. QED
    BY <2>2, <2>3
<1>6. QED
  <2>1. ASSUME NEW b \in Builders, Builds(b) \/ Crash(b) PROVE unknown' = unknown
    BY <2>1 DEF Builds, ListClaimable, BuildThrows, BuildBatch, Crash, claims
  <2>2. ASSUME NEW d \in Edges, EditClaim(d) \/ RetireClaim(d) \/ StoreStep(d) PROVE unknown' = unknown
    BY <2>2 DEF EditClaim, RetireClaim, StoreStep, claims
  <2>3. UNCHANGED vars => unknown' = unknown
    BY DEF vars, claims
  <2>4. CASE \E d \in Edges, k \in Places : LinkContradiction(d, k)
    BY <1>3, <2>4
  <2>5. CASE \E d \in Edges, r \in Reviews : AcknowledgeRemoval(d, r)
    BY <1>4, <2>5
  <2>6. CASE \E d \in Edges, x \in Contests : ConfirmClaim(d, x)
    BY <1>5, <2>6
  <2>7. QED
    BY <1>2, <2>1, <2>2, <2>3, <2>4, <2>5, <2>6 DEF Next, Intervenes

\* Every contradiction stays recorded.
LEMMA ContestStaysRecorded == IInv /\ ContestIsRecorded /\ [Next]_vars => ContestIsRecorded'
<1> SUFFICES ASSUME IInv, ContestIsRecorded, [Next]_vars,
                    NEW e \in Edges, NEW k \in Places, role'[e][k] = "contradicting"
             PROVE  unknown'[e][k] # "none"
  BY DEF ContestIsRecorded
<1>1. role \in [Edges -> [Places -> Roles]] /\ unknown \in [Edges -> [Contests -> {"none", "open", "resolved"}]]
  BY DEF IInv, ClaimTypeOK
<1>2. k \in Contests
  BY DEF Contests
<1>3. CASE role[e][k] = "contradicting"
  BY <1>2, <1>3, UnknownsStay DEF ContestIsRecorded
<1>4. CASE role[e][k] # "contradicting"
  <2>1. ASSUME NEW b \in Builders, Builds(b) \/ Crash(b) PROVE FALSE
    BY <1>1, <1>4, <2>1 DEF Builds, ListClaimable, BuildThrows, BuildBatch, LinkedRoles, Crash, claims
  <2>2. ASSUME NEW d \in Edges, Intervenes(d) PROVE LinkContradiction(e, k)
    <3>1. PICK j \in Places : LinkContradiction(d, j)
      BY <1>4, <2>2 DEF Intervenes, EditClaim, RetireClaim, AcknowledgeRemoval, ConfirmClaim
    <3>2. role' = [role EXCEPT ![d][j] = "contradicting"]
      BY <3>1 DEF LinkContradiction
    <3>3. d = e /\ j = k
      BY <1>1, <1>4, <3>2
    <3>4. QED
      BY <3>1, <3>3
  <2>3. role' # role
    BY <1>4
  <2>4. LinkContradiction(e, k)
    BY <2>1, <2>2, <2>3 DEF Next, StoreStep, claims, vars
  <2>5. QED
    BY <1>1, <1>2, <2>4 DEF LinkContradiction, Reopened
<1>5. QED
  BY <1>3, <1>4

\* Whatever happens to a contested claim, it counts as contested until it is
\* confirmed or retired, and the conflict is never forgotten.
THEOREM ConflictsStand == Spec => ConflictStands
<1> DEFINE J == \A e \in Edges :
                  /\ Adjudication(e) = "none" <=> \A c \in Contests : unknown[e][c] = "none"
                  /\ Adjudication(e) \in {"open_conflict", "contradicting_evidence"} <=>
                        ~Inactive(e) /\ \E c \in Contests : unknown[e][c] = "open"
           Stands(e) ==
               /\ Adjudication(e) # "none" => Adjudication(e)' # "none"
               /\ Adjudication(e) \in {"open_conflict", "contradicting_evidence"} /\ ~Inactive(e)' =>
                      \/ Adjudication(e)' \in {"open_conflict", "contradicting_evidence"}
                      \/ \E c \in Contests : ConfirmClaim(e, c)
<1>1. Init => ContestIsRecorded
  BY DEF Init, ContestIsRecorded
<1>2. Spec => []ContestIsRecorded
  BY <1>1, ContestStaysRecorded, Sound, PTL DEF Spec
<1>3. IInv /\ ContestIsRecorded => J
  BY JudgedByUnknowns
<1>4. ASSUME IInv, [Next]_vars, J, J', NEW e \in Edges PROVE Stands(e)
  <2>1. /\ Adjudication(e)' = "none" <=> \A c \in Contests : unknown'[e][c] = "none"
        /\ Adjudication(e)' \in {"open_conflict", "contradicting_evidence"} <=>
              ~Inactive(e)' /\ \E c \in Contests : unknown'[e][c] = "open"
    BY <1>4
  <2>2. /\ Adjudication(e) = "none" <=> \A c \in Contests : unknown[e][c] = "none"
        /\ Adjudication(e) \in {"open_conflict", "contradicting_evidence"} <=>
              ~Inactive(e) /\ \E c \in Contests : unknown[e][c] = "open"
    BY <1>4
  <2>3. \A c \in Contests : /\ unknown[e][c] # "none" => unknown'[e][c] # "none"
                            /\ unknown[e][c] = "open" => unknown'[e][c] = "open" \/ ConfirmClaim(e, c)
    BY <1>4, UnknownsStay
  <2>4. QED
    BY <2>1, <2>2, <2>3
<1>5. IInv /\ J /\ J' /\ [Next]_vars => [\A e \in Edges : Stands(e)]_vars
  BY <1>4
<1>6. QED
  BY <1>2, <1>3, <1>5, Sound, PTL DEF Spec, ConflictStands

-----------------------------------------------------------------------------
\* An applied candidate is a write of the register: its evidence is one row more.
LEMMA AppliedIsWritten ==
    ASSUME FactTypeOK, NEW e \in Edges, NEW origin \in Origins, NEW level \in Levels,
           ApplyCandidate(e, origin, level)
    PROVE  Register!Write(e)
<1> DEFINE D == evidence[e]
           E == WithNewest(D, origin, level)
<1>1. D \in Seq(Evidence) /\ Len(D) < MaxEvidence
  BY DEF FactTypeOK, ApplyCandidate
<1>a. E = WithNewest(D, origin, level)
  OBVIOUS
<1> HIDE DEF D, E
<1>2. /\ E \in Seq(Evidence) /\ Len(E) = Len(D) + 1
      /\ Len(D) \in Nat /\ DOMAIN D = 1..Len(D) /\ DOMAIN E = 1..(Len(D) + 1)
      /\ E[Len(D) + 1] = [origin |-> origin, level |-> level, by |-> 0]
      /\ \A k \in 1..Len(D) :
             /\ E[k].origin = D[k].origin
             /\ E[k].level = D[k].level
             /\ E[k].by = IF D[k].origin = origin /\ D[k].by = 0 THEN Len(D) + 1 ELSE D[k].by
  BY <1>1, <1>a, NewestRow
<1> USE DEF D
<1>3. evidence' = [evidence EXCEPT ![e] = E] /\ edge[e].validity # "deprecated"
  BY DEF ApplyCandidate, E
<1>4. PICK k \in Best(E) : edge' = [edge EXCEPT ![e] = UpsertedEdge(edge[e], level, k)]
  BY DEF ApplyCandidate, E
<1>5. UpsertedEdge(edge[e], level, k).validity = "current"
  BY DEF UpsertedEdge
<1>6. \A d \in Edges : /\ edge'[d].validity = IF d = e THEN "current" ELSE edge[d].validity
                       /\ Len(evidence'[d]) = IF d = e THEN Len(evidence[e]) + 1 ELSE Len(evidence[d])
  BY <1>2, <1>3, <1>4, <1>5 DEF FactTypeOK
<1>7. QED
  BY <1>3, <1>6 DEF Register!Write

\* A deprecation leaves the evidence, and so retires the edge of the register.
LEMMA DeprecatedIsRetired ==
    ASSUME FactTypeOK, NEW e \in Edges, DeprecateEdge(e)
    PROVE  Register!Retire(e)
<1>1. \A d \in Edges : /\ edge'[d].validity = IF d = e THEN "deprecated" ELSE edge[d].validity
                       /\ evidence'[d] = evidence[d]
  BY DEF DeprecateEdge, FactTypeOK
<1>2. QED
  BY <1>1 DEF DeprecateEdge, Register!Retire

\* The facts change as the register of edges does: no evidence without a write of
\* its edge, and neither evidence nor a write once the edge is deprecated.
THEOREM FactsImplementRegister == Spec => ImplementsRegister
<1>1. Init => Register!RegisterInit
  BY DEF Init, FactInit, AbsentEdge, Register!RegisterInit, Register!NeverWritten
<1>2. FactInv /\ [Next]_vars => [Register!RegisterNext]_[e \in Edges |->
          [validity |-> edge[e].validity, version |-> Len(evidence[e])]]
  <2> SUFFICES ASSUME FactInv, [Next]_vars
               PROVE  \/ Register!RegisterNext
                      \/ UNCHANGED facts
    BY DEF facts
  <2>1. ASSUME NEW e \in Edges, ChangesFacts(e) PROVE Register!Write(e) \/ Register!Retire(e)
    BY <2>1, AppliedIsWritten, DeprecatedIsRetired DEF ChangesFacts, FactInv
  <2>2. QED
    BY <2>1, StepsChangeFacts DEF Register!RegisterNext
<1>3. QED
  BY <1>1, <1>2, FactsSound, PTL DEF Spec, ImplementsRegister, Register!RegisterSpec

-----------------------------------------------------------------------------
\* The builds that catch up (EdgeClaimsLive) take no step EdgeClaims does not
\* allow, so that all of the above holds of them.
THEOREM LiveIsOrdinary == LiveSpec => Spec
<1>1. LiveInit => Init
  BY DEF LiveInit
<1>2. [LiveNext]_liveVars => [Next]_vars
  BY DEF LiveNext, liveVars, CalmsDown, GoesOn, Next
<1>3. QED
  BY <1>1, <1>2, PTL DEF LiveSpec, Spec
=============================================================================
