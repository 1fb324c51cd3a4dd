-------------------------- MODULE SourceObservation --------------------------
(***************************************************************************)
(* Checking one source: runSourceAdapterCheck fetches the documents its    *)
(* adapter plans, one after another, and records what it finds; afterwards *)
(* the facts of the new and changed documents are promoted.  Any number of *)
(* processes (workers, manual checks, the pipeline) check the source at    *)
(* the same time.                                                          *)
(*                                                                         *)
(* The transaction of an observation is taken apart at the locks it waits  *)
(* for: the row of source_health, which ON CONFLICT DO UPDATE locks until  *)
(* the transaction ends, and the advisory lock of the item.                *)
(***************************************************************************)
EXTENDS Naturals, Sequences

CONSTANTS
    Items,       \* the documents of the source
    Plan,        \* the tasks adapter.plan yields, in order
    Partition,   \* the directory (prefix and year) of each item's snapshots
    Shas, NoSha, \* contents of documents, named by their hash
    Procs, NoProc,
    Readers,     \* the processes without a promoter: inline checks of a report
    NoItem,
    MaxFailures  \* bound: failure_count is counted up to here

ASSUME ObservationAssumption == /\ Plan \in Seq(Items) /\ Plan # <<>>
                                /\ Partition \in [Items -> Items]
                                /\ NoSha \notin Shas
                                /\ NoProc \notin Procs
                                /\ Readers \subseteq Procs
                                /\ MaxFailures \in Nat \ {0}

VARIABLES
    world,       \* external: what each document says, and whether it can be fetched
    snapshots,   \* the partitions in which the adapter has stored a snapshot
    failures,    \* source_health.failure_count
    latest,      \* source_items.latest_bytes_sha256
    event,       \* the newest source_change_events (with its SOURCE_RECOVERED)
    promoted,    \* the documents whose facts were promoted
    healthLock,  \* the transaction that holds the row of source_health
    itemLock,    \* the transaction that holds the advisory lock of each item
    proc         \* what each process remembers

db == <<failures, latest, event>>
locks == <<healthLock, itemLock>>
vars == <<world, snapshots, db, promoted, locks, proc>>

-----------------------------------------------------------------------------
Contents == Shas \cup {NoSha}
Documents == Items \X Shas  \* documents is unique in source_url and bytes_sha256

WorldItem == [sha : Shas, up : {"up", "down"}]

\* at is the place in Plan, got the content fetched; count and prev are what
\* the transaction has read of source_health and source_items; changed are the
\* summaries whose change_type is not DOCUMENT_UNCHANGED.
ProcState == [pc : {"idle", "fetching", "opening", "locked", "ready", "degrading", "failing", "promoting"},
              at : 1..Len(Plan), got : Contents, count : Nat, prev : Contents,
              changed : SUBSET Documents]

IdleProc == [pc |-> "idle", at |-> 1, got |-> NoSha, count |-> 0, prev |-> NoSha, changed |-> {}]

\* The log of these transactions; it names what an entry contains.
Log == INSTANCE ObservationLog

Init == /\ world \in [Items -> WorldItem]
        /\ snapshots = {}
        /\ Log!Init
        /\ promoted = {}
        /\ healthLock = NoProc
        /\ itemLock = [i \in Items |-> NoProc]
        /\ proc = [p \in Procs |-> IdleProc]

-----------------------------------------------------------------------------
Task(p) == Plan[proc[p].at]

Goes(p, pc) == proc' = [proc EXCEPT ![p].pc = pc]

\* The run promotes the facts of what it found, if anything changed and it has
\* a promoter.
Finished(p, changed) ==
    IF changed = {} \/ p \in Readers THEN IdleProc ELSE [IdleProc EXCEPT !.pc = "promoting", !.changed = changed]

\* Variant for TypeOK: the last task is followed by one more.
NextTaskOver(p, changed) ==
    [IdleProc EXCEPT !.pc = "fetching", !.at = proc[p].at + 1, !.changed = changed]

\* for await: the next task of the plan, or the end of the run.
NextTask(p, changed) ==
    IF proc[p].at = Len(Plan) THEN Finished(p, changed)
    ELSE [IdleProc EXCEPT !.pc = "fetching", !.at = proc[p].at + 1, !.changed = changed]

StartCheck(p) ==
    /\ proc[p].pc = "idle"
    /\ Goes(p, "fetching")
    /\ UNCHANGED <<world, snapshots, db, promoted, locks>>

\* adapter.fetch succeeds and leaves a snapshot behind; normalize succeeds.
FetchLive(p) ==
    /\ proc[p].pc = "fetching"
    /\ world[Task(p)].up = "up"
    /\ snapshots' = snapshots \cup {Partition[Task(p)]}
    /\ proc' = [proc EXCEPT ![p].pc = "opening", ![p].got = world[Task(p)].sha]
    /\ UNCHANGED <<world, db, promoted, locks>>

\* Variant for HealthSettles: the cached document counts as fetched.
FetchFallsBackSilently(p) ==
    /\ proc[p].pc = "fetching"
    /\ world[Task(p)].up = "down" /\ Partition[Task(p)] \in snapshots
    /\ proc' = [proc EXCEPT ![p].pc = "opening", ![p].got = world[Task(p)].sha]
    /\ UNCHANGED <<world, snapshots, db, promoted, locks>>

\* fetchOrLoadCachedSnapshot finds a snapshot in the partition, of whichever
\* document, and returns it marked as a fallback.
FetchFallsBack(p) ==
    /\ proc[p].pc = "fetching"
    /\ world[Task(p)].up = "down" /\ Partition[Task(p)] \in snapshots
    /\ Goes(p, "degrading")
    /\ UNCHANGED <<world, snapshots, db, promoted, locks>>

FetchThrows(p) ==
    /\ proc[p].pc = "fetching"
    /\ world[Task(p)].up = "down" /\ Partition[Task(p)] \notin snapshots
    /\ Goes(p, "failing")
    /\ UNCHANGED <<world, snapshots, db, promoted, locks>>

-----------------------------------------------------------------------------
\* Variant for ImplementsLog: the health row is read without being locked, as
\* ON CONFLICT DO NOTHING would.
OpenTransactionUnlocked(p) ==
    /\ proc[p].pc = "opening"
    /\ proc' = [proc EXCEPT ![p].pc = "locked", ![p].count = failures]
    /\ UNCHANGED <<world, snapshots, db, promoted, locks>>

\* ensureRegisteredSourceHealth waits for the row of source_health, keeps it
\* locked, and reads failure_count.
OpenTransaction(p) ==
    /\ proc[p].pc = "opening"
    /\ healthLock = NoProc
    /\ healthLock' = p
    /\ proc' = [proc EXCEPT ![p].pc = "locked", ![p].count = failures]
    /\ UNCHANGED <<world, snapshots, db, promoted, itemLock>>

\* lockSourceItemObservation and SELECT ... FOR UPDATE.
LockItem(p) ==
    /\ proc[p].pc = "locked"
    /\ itemLock[Task(p)] = NoProc
    /\ itemLock' = [itemLock EXCEPT ![Task(p)] = p]
    /\ proc' = [proc EXCEPT ![p].pc = "ready", ![p].prev = latest[Task(p)]]
    /\ UNCHANGED <<world, snapshots, db, promoted, healthLock>>

\* The end of p's transaction frees what it has locked.
Unlocks(p) ==
    /\ healthLock' = IF healthLock = p THEN NoProc ELSE healthLock
    /\ itemLock' = [i \in Items |-> IF itemLock[i] = p THEN NoProc ELSE itemLock[i]]

\* Variant for ItemsCatchUp: ON CONFLICT DO NOTHING on source_items.
LatestAfterKept(p) ==
    [latest EXCEPT ![Task(p)] = IF latest[Task(p)] = NoSha THEN proc[p].got ELSE latest[Task(p)]]

\* What the upsert of source_items leaves.
LatestAfter(p) == [latest EXCEPT ![Task(p)] = proc[p].got]

\* The rest of recordDocumentObservation, and the commit.
CommitObservation(p) ==
    LET kind == Log!Classify(proc[p].prev, proc[p].got)
        doc == <<Task(p), proc[p].got>>
    IN  /\ proc[p].pc = "ready"
        /\ latest' = LatestAfter(p)
        /\ failures' = 0
        /\ event' = [kind |-> kind, item |-> Task(p), before |-> proc[p].prev,
                     after |-> proc[p].got, count |-> proc[p].count]
        /\ proc' = [proc EXCEPT ![p] = NextTask(p, IF kind = "DOCUMENT_UNCHANGED" THEN proc[p].changed
                                                   ELSE proc[p].changed \cup {doc})]
        /\ Unlocks(p)
        /\ UNCHANGED <<world, snapshots, promoted>>

\* recordSourceFailure and recordSourceDegraded take only the lock on the
\* health row, and read and write it while they hold it.
RecordsFailure(kind) ==
    /\ healthLock = NoProc
    /\ failures' = Log!OneMore(failures)
    /\ event' = [kind |-> kind, item |-> NoItem, before |-> NoSha, after |-> NoSha, count |-> failures]
    /\ UNCHANGED <<world, snapshots, latest, promoted, locks>>

\* The run skips a document it could not fetch fresh.
Degrade(p) ==
    /\ proc[p].pc = "degrading"
    /\ RecordsFailure("SOURCE_DEGRADED")
    /\ proc' = [proc EXCEPT ![p] = NextTask(p, proc[p].changed)]

\* The catch block records the failure and throws the error again: the later
\* tasks, and the summaries of the earlier ones, are lost.
RecordFailure(p) ==
    /\ proc[p].pc = "failing"
    /\ RecordsFailure("SOURCE_FAILED")
    /\ proc' = [proc EXCEPT ![p] = IdleProc]

\* promoteSourceCheckFacts, one document at a time; a failure is only logged.
PromotesNext(p, d) ==
    /\ proc[p].pc = "promoting"
    /\ d \in proc[p].changed
    /\ proc' = [proc EXCEPT ![p] = Finished(p, proc[p].changed \ {d})]
    /\ UNCHANGED <<world, snapshots, db, locks>>

Promote(p, d) == PromotesNext(p, d) /\ promoted' = promoted \cup {d}

PromotionFails(p, d) == PromotesNext(p, d) /\ UNCHANGED promoted

\* backfillDocumentFacts: an operator who has upgraded the extractors has the
\* stored documents promoted again (db reextract-facts).
Reextract(i) ==
    /\ latest[i] # NoSha
    /\ promoted' = promoted \cup {<<i, latest[i]>>}
    /\ UNCHANGED <<world, snapshots, db, locks, proc>>

-----------------------------------------------------------------------------
\* Parsing, or a statement of the transaction, fails: the transaction is
\* rolled back and the run goes to its catch block.
Throws(p) ==
    /\ proc[p].pc \in {"fetching", "opening", "locked", "ready", "degrading"}
    /\ Goes(p, "failing")
    /\ Unlocks(p)
    /\ UNCHANGED <<world, snapshots, db, promoted>>

FailureIsLost(p) ==
    /\ proc[p].pc = "failing"
    /\ proc' = [proc EXCEPT ![p] = IdleProc]
    /\ UNCHANGED <<world, snapshots, db, promoted, locks>>

Crash(p) ==
    /\ proc[p].pc # "idle"
    /\ proc' = [proc EXCEPT ![p] = IdleProc]
    /\ Unlocks(p)
    /\ UNCHANGED <<world, snapshots, db, promoted>>

WorldChanges(i) ==
    /\ \E w \in WorldItem : w # world[i] /\ world' = [world EXCEPT ![i] = w]
    /\ UNCHANGED <<snapshots, db, promoted, locks, proc>>

Proceeds(p) ==
    \/ FetchLive(p) \/ FetchFallsBack(p) \/ FetchThrows(p)
    \/ OpenTransaction(p) \/ LockItem(p) \/ CommitObservation(p)
    \/ Degrade(p) \/ RecordFailure(p)
    \/ \E d \in Documents : Promote(p, d)

Disturbs(p) ==
    \/ Throws(p) \/ FailureIsLost(p) \/ Crash(p)
    \/ \E d \in Documents : PromotionFails(p, d)

Next == \/ \E p \in Procs : StartCheck(p) \/ Proceeds(p) \/ Disturbs(p)
        \/ \E i \in Items : WorldChanges(i) \/ Reextract(i)

Spec == Init /\ [][Next]_vars

-----------------------------------------------------------------------------
\* Every variable has the type its columns and fields allow.
TypeOK == /\ world \in [Items -> WorldItem]
          /\ snapshots \in SUBSET Items
          /\ failures \in Nat
          /\ latest \in [Items -> Contents]
          /\ event \in Log!Event \cup {Log!NoEvent}
          /\ promoted \in SUBSET Documents
          /\ healthLock \in Procs \cup {NoProc}
          /\ itemLock \in [Items -> Procs \cup {NoProc}]
          /\ proc \in [Procs -> ProcState]

\* However many checks overlap, the rows they write read as if each check had
\* recorded its result at once: every change event starts where the previous
\* one ended, and an outage is closed by one SOURCE_RECOVERED, which names the
\* failures counted by then.
ImplementsLog == Log!LogSpec

\* Locks are nested, and none is left behind: a row is locked only by a check
\* within its transaction, and the lock of an item only by the one that holds
\* the health row.  So no two overlapping checks of a source wait for each
\* other's locks, and none finds a lock of the dead.  The row of documents is
\* left out: saveNormalizedDocumentTx locks it first in the same transaction,
\* before the health row, so it is one more lock around these two.
LocksAreNested ==
    /\ healthLock # NoProc => proc[healthLock].pc \in {"locked", "ready"}
    /\ \A i \in Items : itemLock[i] # NoProc =>
           itemLock[i] = healthLock /\ proc[healthLock].pc = "ready" /\ i = Task(healthLock)
=============================================================================
