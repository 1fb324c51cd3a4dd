--------------------------- MODULE EdgeClaimsLive ---------------------------
(***************************************************************************)
(* What repeated builds achieve once no evidence is added and nobody       *)
(* touches the claims.                                                     *)
(***************************************************************************)
EXTENDS EdgeClaims

VARIABLE calm  \* TRUE once the disturbances are over

liveVars == <<vars, calm>>

LiveInit == Init /\ calm = FALSE

CalmsDown == ~calm /\ calm' = TRUE /\ UNCHANGED vars

GoesOn(b) == Builds(b) /\ UNCHANGED calm

LiveNext ==
    \/ CalmsDown
    \/ \E b \in Builders : GoesOn(b)
    \/ /\ ~calm /\ UNCHANGED calm
       /\ (\E b \in Builders : Crash(b)) \/ \E e \in Edges : Intervenes(e) \/ StoreStep(e)

\* Builds are started again and again, and run to their end.
LiveSpec == /\ LiveInit
            /\ [][LiveNext]_liveVars
            /\ \A b \in Builders : WF_liveVars(GoesOn(b))

-----------------------------------------------------------------------------
UpToDate(e) ==
    /\ claim[e].status = "active"
    /\ claim[e].content = ContentOf(e, edge[e])
    /\ role[e] = LinkedRoles(e, edge[e])

\* A build that works from an old list may throw, or overwrite a newer claim
\* with what it listed; in the end every claimable edge has a claim with the
\* level and the evidence the edge has, if one list takes them all (at most 500).
ClaimsCatchUp ==
    \A e \in Edges : (calm /\ Claimable(e) /\ ~Protected(e)) ~> [](UpToDate(e))
=============================================================================
