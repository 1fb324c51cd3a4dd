----------------------------- MODULE ReviewGate -----------------------------
(***************************************************************************)
(* What the review gate promises, without queues, claims and processes: a  *)
(* candidate becomes a fact at most once, only while its latest decision   *)
(* approves it, and a rejection closes it for good.                        *)
(***************************************************************************)
EXTENDS Naturals

CONSTANT Cands

VARIABLES
    verdict,  \* the latest decision on each candidate
    written   \* how many times its fact was written

gateVars == <<verdict, written>>

Open(c) == verdict[c] # "rejected" /\ written[c] = 0

GateInit == /\ verdict = [c \in Cands |-> "none"]
            /\ written = [c \in Cands |-> 0]

\* An approval can be renewed or withdrawn as long as nothing was written.
Judge(c, v) ==
    /\ Open(c)
    /\ verdict' = [verdict EXCEPT ![c] = v]
    /\ UNCHANGED written

Write(c) ==
    /\ Open(c) /\ verdict[c] = "approved"
    /\ written' = [written EXCEPT ![c] = 1]
    /\ UNCHANGED verdict

GateNext == \E c \in Cands : Write(c) \/ \E v \in {"approved", "rejected"} : Judge(c, v)

GateSpec == GateInit /\ [][GateNext]_gateVars
=============================================================================
