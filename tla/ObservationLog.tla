--------------------------- MODULE ObservationLog ---------------------------
(***************************************************************************)
(* What recording the checks of one source promises: each result is one    *)
(* indivisible entry of a log.  A document entry starts from the content   *)
(* of the previous entry about that document, and an outage, one or more   *)
(* failures in a row, is closed by exactly one recovery.                   *)
(***************************************************************************)
EXTENDS Naturals

CONSTANTS
    Items,       \* source_items of the source
    Shas,        \* contents, named by their hash
    NoSha,       \* "never seen"
    NoItem,
    MaxFailures  \* bound: failure_count is counted up to here

VARIABLES
    latest,    \* the content recorded last for each item
    failures,  \* failures since the last success
    event      \* the newest entry of the log

logVars == <<latest, failures, event>>

Kinds == {"DOCUMENT_NEW", "DOCUMENT_UNCHANGED", "DOCUMENT_CHANGED", "SOURCE_DEGRADED", "SOURCE_FAILED"}

\* A document entry with count > 0 comes with a SOURCE_RECOVERED entry.
Event == [kind : Kinds, item : Items \cup {NoItem},
          before : Shas \cup {NoSha}, after : Shas \cup {NoSha}, count : Nat]

NoEvent == [kind |-> "none"]

Classify(previous, next) ==
    IF previous = NoSha THEN "DOCUMENT_NEW"
    ELSE IF previous = next THEN "DOCUMENT_UNCHANGED" ELSE "DOCUMENT_CHANGED"

OneMore(n) == IF n < MaxFailures THEN n + 1 ELSE n

Init == /\ latest = [i \in Items |-> NoSha]
        /\ failures = 0
        /\ event = NoEvent

Observe(i, s) ==
    /\ latest' = [latest EXCEPT ![i] = s]
    /\ failures' = 0
    /\ event' = [kind |-> Classify(latest[i], s), item |-> i,
                 before |-> latest[i], after |-> s, count |-> failures]

Fail(kind) ==
    /\ failures' = OneMore(failures)
    /\ event' = [kind |-> kind, item |-> NoItem, before |-> NoSha, after |-> NoSha, count |-> failures]
    /\ UNCHANGED latest

Next == \/ \E i \in Items, s \in Shas : Observe(i, s)
        \/ \E kind \in {"SOURCE_DEGRADED", "SOURCE_FAILED"} : Fail(kind)

LogSpec == Init /\ [][Next]_logVars
=============================================================================
