--------------------------- MODULE PipelineStages ---------------------------
(***************************************************************************)
(* The pipeline stages: PipelineStageFacade (apps/api/src/service-layer.ts) *)
(* over PrismaPipelineStageReadPort (prisma-ports.ts).                     *)
(*                                                                         *)
(* sequence is a unique column.  PostgreSQL checks a unique index row by   *)
(* row, not at commit, and reorder is a transaction of one UPDATE per id,  *)
(* so its intermediate states meet the index, the locks of other calls,    *)
(* and deadlocks with them.  Every caller makes one call.                  *)
(*                                                                         *)
(* Definitions that stand right before another and are used nowhere are    *)
(* the faulty variants the properties are tried against.                   *)
(***************************************************************************)
EXTENDS Integers, FiniteSets, Sequences, Relation

CONSTANTS
    Callers,      \* requests in flight
    Stages,       \* ids; a deleted id never comes back
    MaxSequence,  \* bound on the sequence numbers of inputs
    MaxLength     \* bound on the length of orderedIds

ASSUME MaxSequenceAssumption == MaxSequence \in Nat
ASSUME MaxLengthAssumption == MaxLength \in 1 .. MaxSequence + 1

VARIABLES
    order,   \* order[s]: the committed sequence of stage s, Unborn or Gone
    call,    \* call[h]: the statements of h's transaction and how far it is
    logged   \* callers whose audit event is recorded

vars == <<order, call, logged>>

-----------------------------------------------------------------------------
Sequence == 0 .. MaxSequence
Unborn == -1
Gone == -2
Keep == -3      \* an update that leaves sequence alone

Live == {s \in Stages : order[s] \in Sequence}

Operations == {"create", "update", "delete", "reorder"}
Ended == {"ok", "missing", "refused", "lost"}
Statement == [id : Stages, sequence : Sequence \cup {Keep}]

\* done counts the statements executed, written is what they wrote and nobody
\* else sees yet; the transaction is open from the first lock to the last
\* statement.
Call == [op : Operations,
         at : {"idle", "locking", "placing", "auditing"} \cup Ended,
         statements : Seq(Statement), done : Nat,
         written : [Stages -> Sequence \cup {Keep}]]
Idle == [op |-> "update", at |-> "idle", statements |-> <<>>, done |-> 0,
         written |-> [s \in Stages |-> Keep]]

Unique(o) ==
    \A s, t \in Stages : s # t /\ o[s] \in Sequence => o[s] # o[t]

\* No two stages ever share a position, whatever calls overlap: the board and
\* list() (orderBy sequence) always have one order.
TypeOK ==
    /\ order \in [Stages -> Sequence \cup {Unborn, Gone}]
    /\ Unique(order)
    /\ call \in [Callers -> Call]
    /\ logged \subseteq Callers

Init ==
    /\ order \in {o \in [Stages -> Sequence \cup {Unborn}] : Unique(o)}
    /\ call = [h \in Callers |-> Idle]
    /\ logged = {}

-----------------------------------------------------------------------------
\* The statement h is at.
Current(h) == call[h].statements[call[h].done + 1]

\* Rows h has locked.  The row of the current statement is locked before its new
\* index entry is tried.
Held(h) ==
    IF call[h].at \in {"locking", "placing"} /\ call[h].op # "create"
    THEN {call[h].statements[i].id :
            i \in 1 .. call[h].done + (IF call[h].at = "placing" THEN 1 ELSE 0)}
    ELSE {}

\* Index entries that others must wait for: those h has left and those it took.
Claims(h) ==
    {order[s] : s \in Held(h)}
    \cup {call[h].statements[i].sequence : i \in {j \in 1 .. call[h].done : Held(h) # {}}}

WaitsFor(h) ==
    {g \in Callers \ {h} :
        \/ call[h].at = "locking" /\ Current(h).id \in Held(g)
        \/ call[h].at = "placing" /\ Current(h).sequence \in Claims(g)}

Waits == [p \in Callers \X Callers |-> p[2] \in WaitsFor(p[1])]
Deadlocked(h) == TransitiveClosure(Waits, Callers)[h, h]

\* The table with what a transaction wrote in place of what was committed.
Overlaid(written) == [s \in Stages |-> IF written[s] = Keep THEN order[s] ELSE written[s]]

\* Another row has the number, as h's transaction sees the table.
TakenByNobody(h) == FALSE
Taken(h) ==
    \E s \in Stages \ {Current(h).id} : Overlaid(call[h].written)[s] = Current(h).sequence

-----------------------------------------------------------------------------
Begin(h, op, statements) ==
    /\ call[h].at = "idle"
    /\ call' = [call EXCEPT ![h] =
           [Idle EXCEPT !.op = op, !.statements = statements,
                        !.at = IF op = "create" THEN "placing" ELSE "locking"]]
    /\ UNCHANGED <<order, logged>>

\* The new row gets a fresh id, which no call in flight can name.
CreateStage(h) ==
    \E s \in Stages, n \in Sequence :
        /\ order[s] = Unborn
        /\ \A g \in Callers : \A i \in DOMAIN call[g].statements : call[g].statements[i].id # s
        /\ Begin(h, "create", <<[id |-> s, sequence |-> n]>>)

UpdateStage(h) ==
    \E s \in Stages, n \in Sequence \cup {Keep} :
        Begin(h, "update", <<[id |-> s, sequence |-> n]>>)

DeleteStage(h) ==
    \E s \in Stages : Begin(h, "delete", <<[id |-> s, sequence |-> Keep]>>)

\* reorderPipelineStagesSchema asks for at least one id, not for distinct ones.
ReorderStages(h) ==
    \E n \in 1 .. MaxLength : \E ids \in [1 .. n -> Stages] :
        Begin(h, "reorder", [i \in 1 .. n |-> [id |-> ids[i], sequence |-> i - 1]])

-----------------------------------------------------------------------------
Goto(h, point) == call' = [call EXCEPT ![h].at = point]

\* A statement is done; after the last one the transaction commits.
Written(h) == [call[h].written EXCEPT ![Current(h).id] = Current(h).sequence]
After(h) == IF call[h].done + 1 = Len(call[h].statements) THEN "auditing" ELSE "locking"

Advance(h) ==
    call' = [call EXCEPT ![h] = [@ EXCEPT !.done = call[h].done + 1,
                                          !.written = Written(h), !.at = After(h)]]

ProceedUnbatched(h) == Advance(h) /\ order' = Overlaid(Written(h))
Proceed(h) ==
    /\ Advance(h)
    /\ order' = IF After(h) = "auditing" THEN Overlaid(Written(h)) ELSE order

\* UPDATE or DELETE finds its row once nobody else has it locked.  A missing
\* row is null (404) for a single statement and fails a whole reorder.
Lock(h) ==
    /\ call[h].at = "locking"
    /\ WaitsFor(h) = {}
    /\ \/ /\ Current(h).id \notin Live
          /\ Goto(h, IF call[h].op = "reorder" THEN "refused" ELSE "missing")
          /\ UNCHANGED order
       \/ /\ Current(h).id \in Live
          /\ call[h].op = "delete"
          /\ order' = [order EXCEPT ![Current(h).id] = Gone]
          /\ Goto(h, "auditing")
       \/ /\ Current(h).id \in Live
          /\ call[h].op # "delete"
          /\ Current(h).sequence = Keep
          /\ Proceed(h)
       \/ /\ Current(h).id \in Live
          /\ call[h].op # "delete"
          /\ Current(h).sequence # Keep
          /\ Goto(h, "placing")
          /\ UNCHANGED order
    /\ UNCHANGED logged

\* The index entry is put in place, unless another row has the number.
PlaceRetrying(h) ==
    /\ call[h].at = "placing"
    /\ WaitsFor(h) = {}
    /\ IF Taken(h)
       THEN Goto(h, "locking") /\ UNCHANGED order
       ELSE Proceed(h)
    /\ UNCHANGED logged
Place(h) ==
    /\ call[h].at = "placing"
    /\ WaitsFor(h) = {}
    /\ IF Taken(h)
       THEN Goto(h, "refused") /\ UNCHANGED order
       ELSE Proceed(h)
    /\ UNCHANGED logged

\* PostgreSQL ends a deadlock by failing one of the statements in it.
Abort(h) ==
    /\ Deadlocked(h)
    /\ Goto(h, "refused")
    /\ UNCHANGED <<order, logged>>

\* auditSafely: the answer is the same if the event cannot be recorded.
Audit(h) ==
    /\ call[h].at = "auditing"
    /\ Goto(h, "ok")
    /\ logged' \in {logged, logged \cup {h}}
    /\ UNCHANGED order

\* The process dies or a statement fails for another reason (name and stage
\* are unique as well): an open transaction is rolled back.
Lose(h) ==
    /\ call[h].at \in {"locking", "placing", "auditing"}
    /\ Goto(h, "lost")
    /\ UNCHANGED <<order, logged>>

Step(h) == Lock(h) \/ Place(h) \/ Abort(h) \/ Audit(h)

Next ==
    \E h \in Callers :
        \/ CreateStage(h) \/ UpdateStage(h) \/ DeleteStage(h) \/ ReorderStages(h)
        \/ Step(h) \/ Lose(h)

Spec == Init /\ [][Next]_vars
FairSpec == Spec /\ \A h \in Callers : WF_vars(Step(h))

-----------------------------------------------------------------------------
\* A reorder takes effect as a whole or not at all, and touches only the stages
\* it lists: no step of any call leaves a part of one in the table.
Effect(h, s) ==
    LET mine == {i \in DOMAIN call[h].statements : call[h].statements[i].id = s}
        last == CHOOSE i \in mine : \A j \in mine : j <= i
    IN  IF mine = {} THEN order[s]
        ELSE IF call[h].op = "delete" THEN Gone
        ELSE IF call[h].statements[last].sequence = Keep THEN order[s]
        ELSE call[h].statements[last].sequence
ChangesAreWholeCalls ==
    [][order' # order =>
         \E h \in Callers : /\ call[h].at # "auditing" /\ call'[h].at = "auditing"
                            /\ order' = [s \in Stages |-> Effect(h, s)]]_vars

\* Nobody waits for ever on row locks or index entries, two reorders in
\* opposite directions included.
EveryCallEnds ==
    \A h \in Callers : call[h].at # "idle" ~> call[h].at \in Ended

\* service-layer.spec.ts:820-829: reorderStages([second, first]) answers with
\* the new order.  Here: a reorder that lists each stage of the table exactly
\* once, and that nobody disturbs, is not refused.
UndisturbedReorderSucceeds ==
    \A h \in Callers :
        /\ call[h].op = "reorder"
        /\ \A g \in Callers \ {h} : call[g].at = "idle"
        /\ Len(call[h].statements) = Cardinality(Live)
        /\ {call[h].statements[i].id : i \in DOMAIN call[h].statements} = Live
        => call[h].at # "refused"
=============================================================================
