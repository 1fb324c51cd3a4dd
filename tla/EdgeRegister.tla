---------------------------- MODULE EdgeRegister ----------------------------
(***************************************************************************)
(* What readers of the edges table may rely on, whoever writes it and      *)
(* whatever evidence is behind an edge: a row is overwritten until it is   *)
(* deprecated, and then never again.                                       *)
(***************************************************************************)
EXTENDS Naturals

CONSTANT Edges

VARIABLE row  \* the validity of each edge, and how often it was written

NeverWritten == [validity |-> "absent", version |-> 0]

RegisterInit == row = [e \in Edges |-> NeverWritten]

\* A candidate is applied.
Write(e) ==
    /\ row[e].validity # "deprecated"
    /\ row' = [row EXCEPT ![e] = [validity |-> "current", version |-> row[e].version + 1]]

\* The edge is deprecated.
Retire(e) ==
    /\ row[e].validity = "current"
    /\ row' = [row EXCEPT ![e] = [validity |-> "deprecated", version |-> row[e].version]]

RegisterNext == \E e \in Edges : Write(e) \/ Retire(e)

RegisterSpec == RegisterInit /\ [][RegisterNext]_row

-----------------------------------------------------------------------------
\* Version 0 is that of no written row: a reader that shows versions, and 0 for
\* an edge it does not show, never confuses the two.
WrittenIsNumbered ==
    \A e \in Edges : /\ row[e].version \in Nat
                     /\ row[e].validity = "absent" <=> row[e].version = 0
=============================================================================
