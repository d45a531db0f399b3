----------------------------- MODULE AuditChain -----------------------------
(***************************************************************************)
(* The audit history: AuditService.record (packages/audit/src/index.ts)    *)
(* over PrismaAuditSink.append (apps/api/src/prisma-ports.ts), called from *)
(* every API process at once.                                              *)
(*                                                                         *)
(* append is one transaction: it takes an advisory lock, reads the row with *)
(* the highest sequence, inserts its own row with the next sequence and the *)
(* hash of the row read, and commits.  A hash covers the event's unique id, *)
(* so the model writes the id where the code writes the row's hash.  Ids    *)
(* are numbered in the order of record's calls, which is that of createdAt. *)
(*                                                                         *)
(* Definitions that stand right before another and are used nowhere are    *)
(* the faulty variants the properties are tried against.                   *)
(***************************************************************************)
EXTENDS Integers, FiniteSets

CONSTANTS
    Writers,    \* callers of AuditService.record
    NoWriter,   \* the advisory lock is free
    Legacy,     \* rows the evidence-v1 migration numbered
    MaxEvents   \* bound on the events recorded

ASSUME NoWriterAssumption == NoWriter \notin Writers
ASSUME LegacyAssumption == Legacy \in Nat
ASSUME MaxEventsAssumption == MaxEvents \in Nat

VARIABLES
    table,     \* the committed rows of AuditEvent
    lock,      \* the writer whose transaction holds the advisory lock
    writer,    \* writer[w]: where the append of w is and what it holds
    recorded,  \* number of ids given out, those of the legacy rows included
    before     \* before[e]: rows committed when event e was recorded (history)

vars == <<table, lock, writer, recorded, before>>

-----------------------------------------------------------------------------
Ids == 1 .. Legacy + MaxEvents

\* previous is previousEventHash, 0 for null.
Row == [id : Ids, sequence : Nat, previous : Nat]

Transaction == [at : {"idle", "locking", "reading", "inserting", "committing"},
                id : Nat, sequence : Nat, previous : Nat]
Idle == [at |-> "idle", id |-> 0, sequence |-> 0, previous |-> 0]

Holding == {"reading", "inserting", "committing"}

TypeOK ==
    /\ table \subseteq Row
    /\ lock \in Writers \cup {NoWriter}
    /\ writer \in [Writers -> Transaction]
    /\ recorded \in Legacy .. Legacy + MaxEvents
    /\ before \in [Ids -> SUBSET Ids]
    /\ \A w \in Writers : lock = w <=> writer[w].at \in Holding

\* The migration numbers the rows it finds in the order of createdAt and
\* chains their hashes by id; previousEventHash stays null, because the update
\* reads the column it is just filling.
LegacyRows == {[id |-> i, sequence |-> i, previous |-> 0] : i \in 1 .. Legacy}

Init ==
    /\ table = LegacyRows
    /\ lock = NoWriter
    /\ writer = [w \in Writers |-> Idle]
    /\ recorded = Legacy
    /\ before = [e \in Ids |-> {}]

-----------------------------------------------------------------------------
\* record fixes the event's id and createdAt, then opens the transaction.
Record(w) ==
    /\ writer[w].at = "idle"
    /\ recorded < Legacy + MaxEvents
    /\ recorded' = recorded + 1
    /\ writer' = [writer EXCEPT ![w] = [Idle EXCEPT !.at = "locking", !.id = recorded + 1]]
    /\ before' = [before EXCEPT ![recorded + 1] = {r.id : r \in table}]
    /\ UNCHANGED <<table, lock>>

\* pg_advisory_xact_lock waits for the transaction that holds the lock to end.
LockUnawaited(w) ==
    /\ writer[w].at = "locking"
    /\ lock' = w
    /\ writer' = [writer EXCEPT ![w].at = "reading"]
    /\ UNCHANGED <<table, recorded, before>>

Lock(w) ==
    /\ writer[w].at = "locking"
    /\ lock = NoWriter
    /\ lock' = w
    /\ writer' = [writer EXCEPT ![w].at = "reading"]
    /\ UNCHANGED <<table, recorded, before>>

\* The committed row the next one is chained to: orderBy sequence desc.
LatestByTime == {r \in table : \A s \in table : s.id <= r.id}
Latest == {r \in table : \A s \in table : s.sequence <= r.sequence}

ReadPrevious(w) ==
    /\ writer[w].at = "reading"
    /\ \/ /\ table = {}
          /\ writer' = [writer EXCEPT ![w] = [@ EXCEPT !.at = "inserting", !.sequence = 1]]
       \/ \E r \in Latest :
             writer' = [writer EXCEPT ![w] =
                [@ EXCEPT !.at = "inserting", !.sequence = r.sequence + 1, !.previous = r.id]]
    /\ UNCHANGED <<table, lock, recorded, before>>

\* The row is inserted in the transaction: nobody else sees it yet.
Insert(w) ==
    /\ writer[w].at = "inserting"
    /\ writer' = [writer EXCEPT ![w].at = "committing"]
    /\ UNCHANGED <<table, lock, recorded, before>>

WrittenUnlinked(w) == [id |-> writer[w].id, sequence |-> writer[w].sequence, previous |-> 0]
Written(w) == [id |-> writer[w].id, sequence |-> writer[w].sequence,
               previous |-> writer[w].previous]

\* The commit shows the row and releases the lock; record returns.
Commit(w) ==
    /\ writer[w].at = "committing"
    /\ table' = table \cup {Written(w)}
    /\ lock' = NoWriter
    /\ writer' = [writer EXCEPT ![w] = Idle]
    /\ UNCHANGED <<recorded, before>>

\* The transaction is rolled back, by an error, a transaction timeout (also
\* while it waits for the lock) or the death of the process: its lock goes
\* with it and the event is not recorded.
AbortKeepingLock(w) ==
    /\ writer[w].at # "idle"
    /\ writer' = [writer EXCEPT ![w] = Idle]
    /\ UNCHANGED <<table, lock, recorded, before>>

Abort(w) ==
    /\ writer[w].at # "idle"
    /\ lock' = IF lock = w THEN NoWriter ELSE lock
    /\ writer' = [writer EXCEPT ![w] = Idle]
    /\ UNCHANGED <<table, recorded, before>>

Statement(w) == ReadPrevious(w) \/ Insert(w) \/ Commit(w)

Next == \E w \in Writers : Record(w) \/ Lock(w) \/ Statement(w) \/ Abort(w)

Spec == Init /\ [][Next]_vars

\* A transaction that holds the lock goes on; the database queues those that
\* wait for it, so none of them is passed over for ever.
FairSpec == Spec /\ \A w \in Writers : WF_vars(Statement(w)) /\ SF_vars(Lock(w))

-----------------------------------------------------------------------------
(* Properties *)

\* The sequence numbers are 1, 2, 3, ... without a gap or a repetition,
\* whatever transactions were rolled back: one hole or fork and the history
\* could not be told from one that lost an event.
SequencesGapless ==
    {r.sequence : r \in table} = 1 .. Cardinality(table)

\* Every row the service appended names the hash of the row right before it;
\* only the first row and the migrated ones name none.
ChainLinked ==
    \A r \in table : r.id > Legacy =>
        IF r.sequence = 1 THEN r.previous = 0
        ELSE \E s \in table : s.sequence = r.sequence - 1 /\ s.id = r.previous

\* An event recorded after another one was committed comes after it in the
\* chain: the chain never contradicts cause and effect between processes.
ChainKeepsCausality ==
    \A r, s \in table : s.id \in before[r.id] => s.sequence < r.sequence

\* The table, read in the order of its sequence numbers, is an append-only log.
RowsAt(i) == {r \in table : r.sequence = i}
IdAt(i) == IF RowsAt(i) = {} THEN 0 ELSE (CHOOSE r \in RowsAt(i) : TRUE).id
Chained == [i \in 1 .. Cardinality(table) |-> IdAt(i)]

Promise == INSTANCE AuditLog WITH
    EventIds <- Ids,
    Inherited <- [i \in 1 .. Legacy |-> i],
    log <- Chained

ImplementsLog == Promise!Log

\* Every call of record ends: no transaction waits for the lock for ever.
EveryRecordEnds ==
    \A w \in Writers : writer[w].at # "idle" ~> writer[w].at = "idle"
=============================================================================
