------------------------ MODULE PipelineStagesProofs ------------------------
(***************************************************************************)
(* Theorems about the pipeline stages, for any callers, stages and         *)
(* positions and reorders of any length: positions are unique whatever     *)
(* transactions overlap, and changes are those of whole calls.             *)
(***************************************************************************)
EXTENDS PipelineStages, TLAPS

Open(h) == call[h].at \in {"locking", "placing"}

\* What the place of a call with an open transaction says of its statements.
Shape(c) ==
    c.at \in {"locking", "placing"} =>
        /\ c.done < Len(c.statements)
        /\ c.op # "reorder" => Len(c.statements) = 1
        /\ c.op \in {"reorder", "create"} =>
              \A i \in 1 .. Len(c.statements) : c.statements[i].sequence # Keep
        /\ c.at = "locking" => c.op # "create"
        /\ c.at = "placing" =>
              c.op # "delete" /\ c.statements[c.done + 1].sequence # Keep

\* Of each row, a transaction has written what its last statement on it says.
LastWord(c, s) ==
    \/ /\ c.written[s] = Keep
       /\ \A i \in 1 .. c.done : c.statements[i].id # s
    \/ \E i \in 1 .. c.done :
          /\ c.statements[i].id = s /\ c.statements[i].sequence = c.written[s]
          /\ \A j \in i + 1 .. c.done : c.statements[j].id # s

CallSound(c) == Shape(c) /\ (c.at \in {"locking", "placing"} => \A s \in Stages : LastWord(c, s))

\* Rows that are locked are there, and are locked once.
LocksApart ==
    /\ \A h \in Callers : Held(h) \subseteq Live
    /\ \A g, h \in Callers : g # h => Held(g) \cap Held(h) = {}

Borning(h) == call[h].at = "placing" /\ call[h].op = "create"

\* A row that is being created is nobody else's.
BirthsApart ==
    /\ \A h \in Callers : Borning(h) => order[Current(h).id] = Unborn
    /\ \A g, h \in Callers : g # h /\ Borning(g) /\ Borning(h) => Current(g).id # Current(h).id

\* A position that a transaction has taken is nobody else's.
PositionsApart(g) ==
    \A s \in Stages : call[g].written[s] # Keep =>
        /\ \A t \in Stages \ Held(g) : order[t] # call[g].written[s]
        /\ \A h \in Callers \ {g} : Open(h) =>
              \A t \in Stages : call[h].written[t] # call[g].written[s]

ViewsUnique(g) == Unique(Overlaid(call[g].written))

Inv ==
    /\ TypeOK
    /\ \A h \in Callers : CallSound(call[h])
    /\ LocksApart
    /\ BirthsApart
    /\ \A g \in Callers : Open(g) => PositionsApart(g) /\ ViewsUnique(g)

-----------------------------------------------------------------------------
\* Everybody but h stays where they are.
Others(h) ==
    /\ call' = [call EXCEPT ![h] = call'[h]] /\ call'[h] \in Call
    /\ \A g \in Callers : g # h => call'[g] = call[g]

\* The shapes of the steps: a call begins, ends or waits for its audit event
\* without a change, deletes a row, locks one, writes one, or commits.
Starts(h) ==
    /\ Others(h) /\ call[h].at = "idle" /\ order' = order
    /\ call'[h].written = [s \in Stages |-> Keep] /\ call'[h].done = 0
    /\ call'[h].at = (IF call'[h].op = "create" THEN "placing" ELSE "locking")
    /\ Shape(call'[h])
    /\ call'[h].op = "create" =>
          /\ order[call'[h].statements[1].id] = Unborn
          /\ \A g \in Callers : \A i \in DOMAIN call[g].statements :
                call[g].statements[i].id # call'[h].statements[1].id

Quits(h) ==
    /\ Others(h) /\ order' = order
    /\ call'[h].at \in Ended \cup {"auditing"}

Deletes(h) ==
    /\ Others(h) /\ call[h].at = "locking" /\ WaitsFor(h) = {} /\ Current(h).id \in Live
    /\ call[h].op = "delete"
    /\ order' = [order EXCEPT ![Current(h).id] = Gone]
    /\ call'[h] = [call[h] EXCEPT !.at = "auditing"]

Locks(h) ==
    /\ Others(h) /\ call[h].at = "locking" /\ WaitsFor(h) = {} /\ Current(h).id \in Live
    /\ call[h].op # "delete" /\ Current(h).sequence # Keep
    /\ order' = order
    /\ call'[h] = [call[h] EXCEPT !.at = "placing"]

Writes(h) ==
    /\ Others(h) /\ call[h].at = "placing" /\ WaitsFor(h) = {} /\ ~Taken(h)
    /\ Proceed(h)

Shaped(h) == Starts(h) \/ Quits(h) \/ Deletes(h) \/ Locks(h) \/ Writes(h)

LEMMA Replaced ==
    ASSUME TypeOK, NEW h \in Callers, NEW c \in Call, call' = [call EXCEPT ![h] = c]
    PROVE  call'[h] = c /\ Others(h)
  BY DEF TypeOK, Others

LEMMA GotoFacts ==
    ASSUME TypeOK, NEW h \in Callers,
           NEW point \in {"locking", "placing", "auditing"} \cup Ended, Goto(h, point)
    PROVE  /\ Others(h) /\ call'[h] = [call[h] EXCEPT !.at = point]
           /\ call'[h].at = point /\ call'[h].op = call[h].op
           /\ call'[h].statements = call[h].statements /\ call'[h].done = call[h].done
           /\ call'[h].written = call[h].written
  <1> DEFINE c == [call[h] EXCEPT !.at = point]
  <1>1. call[h] \in Call
    BY DEF TypeOK
  <1>2. /\ c \in Call /\ c.at = point /\ c.op = call[h].op /\ c.statements = call[h].statements
        /\ c.done = call[h].done /\ c.written = call[h].written
    BY <1>1 DEF Call
  <1>3. call' = [call EXCEPT ![h] = c]
    BY DEF Goto
  <1> HIDE DEF c
  <1>4. call'[h] = c /\ Others(h)
    BY <1>2, <1>3, Replaced
  <1> QED BY <1>2, <1>4 DEF c

LEMMA WrittenType ==
    ASSUME TypeOK, NEW h \in Callers, Open(h), CallSound(call[h])
    PROVE  /\ call[h] \in Call /\ Current(h) \in Statement
           /\ Written(h) \in [Stages -> Sequence \cup {Keep}]
           /\ Overlaid(Written(h)) \in [Stages -> Sequence \cup {Unborn, Gone}]
           /\ After(h) \in {"auditing", "locking"}
  <1>1. call[h] \in Call
    BY DEF TypeOK
  <1>2. call[h].statements \in Seq(Statement) /\ call[h].done + 1 \in 1 .. Len(call[h].statements)
    BY <1>1 DEF CallSound, Shape, Open, Call
  <1>3. Current(h) \in Statement
    BY <1>2 DEF Current
  <1>4. Current(h).id \in Stages /\ Current(h).sequence \in Sequence \cup {Keep}
    BY <1>3 DEF Statement
  <1>5. Written(h) \in [Stages -> Sequence \cup {Keep}]
    BY <1>1, <1>4 DEF Written, Call
  <1>6. Overlaid(Written(h)) \in [Stages -> Sequence \cup {Unborn, Gone}]
    BY <1>5 DEF Overlaid, TypeOK
  <1> QED BY <1>1, <1>3, <1>5, <1>6 DEF After

\* The call as it is after a statement of it.
LEMMA AdvanceFacts ==
    ASSUME TypeOK, NEW h \in Callers, Open(h), CallSound(call[h]), Advance(h)
    PROVE  /\ Others(h)
           /\ call'[h].at = After(h) /\ call'[h].op = call[h].op
           /\ call'[h].statements = call[h].statements /\ call'[h].done = call[h].done + 1
           /\ call'[h].written = Written(h)
  <1>0. /\ call[h] \in Call /\ Written(h) \in [Stages -> Sequence \cup {Keep}]
        /\ After(h) \in {"auditing", "locking"} /\ call[h].done + 1 \in Nat
    BY WrittenType DEF Call
  <1> DEFINE c == [call[h] EXCEPT !.done = call[h].done + 1, !.written = Written(h), !.at = After(h)]
  <1>1. /\ c \in Call /\ c.at = After(h) /\ c.op = call[h].op
        /\ c.statements = call[h].statements /\ c.done = call[h].done + 1 /\ c.written = Written(h)
    BY <1>0 DEF Call
  <1>2. call' = [call EXCEPT ![h] = c]
    BY DEF Advance
  <1> HIDE DEF c
  <1>3. call'[h] = c /\ Others(h)
    BY <1>1, <1>2, Replaced
  <1> QED BY <1>1, <1>3

\* The call a caller begins.
LEMMA BeginStarts ==
    ASSUME TypeOK, NEW h \in Callers, NEW op \in Operations, NEW l \in Seq(Statement),
           Begin(h, op, l), Len(l) > 0, op # "reorder" => Len(l) = 1,
           op \in {"reorder", "create"} => \A i \in 1 .. Len(l) : l[i].sequence # Keep,
           op = "create" =>
              /\ order[l[1].id] = Unborn
              /\ \A g \in Callers : \A i \in DOMAIN call[g].statements :
                    call[g].statements[i].id # l[1].id
    PROVE  Starts(h)
  <1> DEFINE point == IF op = "create" THEN "placing" ELSE "locking"
             c == [Idle EXCEPT !.op = op, !.statements = l, !.at = point]
  <1>1. /\ c.op = op /\ c.statements = l /\ c.at = point /\ c.done = 0
        /\ c.written = [s \in Stages |-> Keep] /\ c \in Call
    BY DEF Idle, Call
  <1>2. call' = [call EXCEPT ![h] = c] /\ call[h].at = "idle" /\ order' = order
    BY DEF Begin
  <1> HIDE DEF c
  <1>3. call'[h] = c /\ Others(h)
    BY <1>1, <1>2, Replaced
  <1>4. point \in {"locking", "placing"} /\ (point = "locking" => op # "create")
        /\ (point = "placing" => op = "create")
    OBVIOUS
  <1>5. Shape(c)
    BY <1>1, <1>4 DEF Shape
  <1> QED BY <1>1, <1>2, <1>3, <1>5 DEF Starts

LEMMA StepShapes ==
    ASSUME Inv, [Next]_vars
    PROVE  \/ order' = order /\ call' = call
           \/ \E h \in Callers : Shaped(h)
  <1> USE DEF Inv
  <1>1. ASSUME NEW h \in Callers, CreateStage(h) PROVE Starts(h)
    <2>1. PICK s \in Stages, n \in Sequence :
             /\ order[s] = Unborn
             /\ \A g \in Callers : \A i \in DOMAIN call[g].statements : call[g].statements[i].id # s
             /\ Begin(h, "create", <<[id |-> s, sequence |-> n]>>)
      BY <1>1 DEF CreateStage
    <2> DEFINE l == <<[id |-> s, sequence |-> n]>>
    <2>2. /\ l \in Seq(Statement) /\ Len(l) = 1 /\ l[1].id = s
          /\ \A i \in 1 .. Len(l) : l[i].sequence # Keep
      BY MaxSequenceAssumption DEF Statement, Sequence, Keep
    <2> HIDE DEF l
    <2>3. Begin(h, "create", l)
      BY <2>1 DEF l
    <2>4. \A g \in Callers : \A i \in DOMAIN call[g].statements : call[g].statements[i].id # l[1].id
      BY <2>1, <2>2
    <2>5. order[l[1].id] = Unborn /\ "create" \in Operations
      BY <2>1, <2>2 DEF Operations
    <2> QED BY <2>2, <2>3, <2>4, <2>5, BeginStarts
  <1>2. ASSUME NEW h \in Callers, UpdateStage(h) \/ DeleteStage(h) PROVE Starts(h)
    <2>1. PICK s \in Stages, n \in Sequence \cup {Keep}, op \in {"update", "delete"} :
             Begin(h, op, <<[id |-> s, sequence |-> n]>>)
      BY <1>2 DEF UpdateStage, DeleteStage
    <2> DEFINE l == <<[id |-> s, sequence |-> n]>>
    <2>2. l \in Seq(Statement) /\ Len(l) = 1
      BY DEF Statement
    <2> HIDE DEF l
    <2>3. Begin(h, op, l)
      BY <2>1 DEF l
    <2> QED BY <2>2, <2>3, BeginStarts DEF Operations
  <1>3. ASSUME NEW h \in Callers, ReorderStages(h) PROVE Starts(h)
    <2>0. PICK n \in 1 .. MaxLength : \E ids \in [1 .. n -> Stages] :
             Begin(h, "reorder", [i \in 1 .. n |-> [id |-> ids[i], sequence |-> i - 1]])
      BY <1>3 DEF ReorderStages
    <2>1. PICK ids \in [1 .. n -> Stages] :
             Begin(h, "reorder", [i \in 1 .. n |-> [id |-> ids[i], sequence |-> i - 1]])
      BY <2>0
    <2> DEFINE l == [i \in 1 .. n |-> [id |-> ids[i], sequence |-> i - 1]]
    <2>2. n \in Nat /\ n > 0 /\ n <= MaxSequence + 1
      BY MaxSequenceAssumption, MaxLengthAssumption
    <2>3. \A i \in 1 .. n : i - 1 \in Sequence /\ i - 1 # Keep
      BY <2>2, MaxSequenceAssumption DEF Sequence, Keep
    <2>4. \A i \in 1 .. n : [id |-> ids[i], sequence |-> i - 1] \in Statement
      BY <2>1, <2>3 DEF Statement
    <2>5. l \in Seq(Statement) /\ Len(l) = n
      BY <2>2, <2>4
    <2>6. \A i \in 1 .. Len(l) : l[i].sequence # Keep
      BY <2>3, <2>5
    <2>7. Begin(h, "reorder", l)
      BY <2>1
    <2> HIDE DEF l
    <2> QED BY <2>2, <2>5, <2>6, <2>7, BeginStarts DEF Operations
  <1>4. ASSUME NEW h \in Callers, Lock(h) PROVE Shaped(h)
    <2>1. call[h].at = "locking" /\ WaitsFor(h) = {}
      BY <1>4 DEF Lock
    <2>2. CASE \E point \in {"refused", "missing"} : Goto(h, point) /\ order' = order
      BY <2>1, <2>2, GotoFacts DEF Shaped, Quits, Ended
    <2>3. CASE /\ Current(h).id \in Live /\ call[h].op = "delete"
               /\ order' = [order EXCEPT ![Current(h).id] = Gone] /\ Goto(h, "auditing")
      BY <2>1, <2>3, GotoFacts DEF Shaped, Deletes
    <2>4. CASE /\ Current(h).id \in Live /\ call[h].op # "delete" /\ Current(h).sequence = Keep
               /\ Proceed(h)
      <3>1. call[h].op = "update" /\ Len(call[h].statements) = 1 /\ call[h].done = 0
        <4>1. call[h] \in Call /\ Shape(call[h])
          BY DEF TypeOK, CallSound
        <4>2. call[h].done \in Nat /\ call[h].done < Len(call[h].statements)
              /\ call[h].statements \in Seq(Statement)
          BY <2>1, <4>1 DEF Shape, Call
        <4>3. call[h].op \notin {"reorder", "create"}
          <5>1. call[h].done + 1 \in 1 .. Len(call[h].statements)
            BY <4>2
          <5>2. call[h].statements[call[h].done + 1].sequence = Keep
            BY <2>4 DEF Current
          <5> QED BY <2>1, <4>1, <5>1, <5>2 DEF Shape
        <4>4. Len(call[h].statements) = 1
          BY <2>1, <4>1, <4>3 DEF Shape
        <4>5. call[h].op = "update"
          BY <2>4, <4>1, <4>3 DEF Call, Operations
        <4> QED BY <4>2, <4>4, <4>5
      <3>2. After(h) = "auditing"
        BY <3>1 DEF After
      <3>3. order' = Overlaid(Written(h)) /\ Advance(h)
        BY <2>4, <3>2 DEF Proceed
      <3>4. Written(h) = [s \in Stages |-> Keep]
        <4>1. \A s \in Stages : call[h].written[s] = Keep
          BY <2>1, <3>1 DEF CallSound, LastWord
        <4>2. call[h].written \in [Stages -> Sequence \cup {Keep}]
          BY DEF TypeOK, Call
        <4> QED BY <2>4, <4>1, <4>2 DEF Written
      <3>5. order' = order
        BY <3>3, <3>4 DEF Overlaid, TypeOK
      <3>6. Others(h) /\ call'[h].at = "auditing"
        BY <2>1, <3>2, <3>3, AdvanceFacts DEF Open
      <3> QED BY <3>5, <3>6 DEF Shaped, Quits
    <2>5. CASE /\ Current(h).id \in Live /\ call[h].op # "delete" /\ Current(h).sequence # Keep
               /\ Goto(h, "placing") /\ order' = order
      BY <2>1, <2>5, GotoFacts DEF Shaped, Locks
    <2> QED BY <1>4, <2>2, <2>3, <2>4, <2>5 DEF Lock
  <1>5. ASSUME NEW h \in Callers, Place(h) PROVE Shaped(h)
    <2>1. CASE Goto(h, "refused") /\ order' = order /\ call[h].at = "placing"
      BY <2>1, GotoFacts DEF Shaped, Quits, Ended
    <2>2. CASE ~Taken(h) /\ Proceed(h)
      <3>1. call[h].at = "placing" /\ WaitsFor(h) = {} /\ Open(h)
        BY <1>5 DEF Place, Open
      <3>2. Others(h)
        BY <2>2, <3>1, AdvanceFacts DEF Proceed
      <3> QED BY <2>2, <3>1, <3>2 DEF Shaped, Writes
    <2> QED BY <1>5, <2>1, <2>2 DEF Place
  <1>6. ASSUME NEW h \in Callers, Abort(h) \/ Audit(h) \/ Lose(h) PROVE Shaped(h)
    <2>1. PICK point \in {"refused", "ok", "lost"} : Goto(h, point) /\ order' = order
      BY <1>6 DEF Abort, Audit, Lose
    <2>2. Others(h) /\ call'[h].at \in Ended
      BY <2>1, GotoFacts DEF Ended
    <2> QED BY <2>1, <2>2 DEF Shaped, Quits
  <1> QED BY <1>1, <1>2, <1>3, <1>4, <1>5, <1>6 DEF Next, Step, Shaped, vars

-----------------------------------------------------------------------------
\* What a call with an open transaction holds.
LEMMA OpenFacts ==
    ASSUME Inv, NEW g \in Callers, Open(g)
    PROVE  /\ call[g] \in Call /\ call[g].done \in Nat
           /\ call[g].done + 1 \in 1 .. Len(call[g].statements)
           /\ Current(g) \in Statement
           /\ call[g].at = "placing" => Current(g).id \in Held(g) \/ Borning(g)
           /\ \A s \in Stages : call[g].written[s] # Keep =>
                 s \in Held(g) /\ call[g].written[s] \in Claims(g) \cap Sequence
  <1>1. call[g] \in Call /\ Shape(call[g]) /\ (\A s \in Stages : LastWord(call[g], s))
    BY DEF Inv, TypeOK, CallSound, Open
  <1>2. /\ call[g].done \in Nat /\ call[g].statements \in Seq(Statement)
        /\ call[g].done < Len(call[g].statements)
    BY <1>1 DEF Call, Shape, Open
  <1>3. call[g].done + 1 \in 1 .. Len(call[g].statements) /\ Current(g) \in Statement
    BY <1>2 DEF Current
  <1>4. call[g].at = "placing" => Current(g).id \in Held(g) \/ Borning(g)
    BY <1>2 DEF Held, Borning, Current
  <1>5. ASSUME NEW s \in Stages, call[g].written[s] # Keep
        PROVE  s \in Held(g) /\ call[g].written[s] \in Claims(g) \cap Sequence
    <2>1. PICK i \in 1 .. call[g].done :
             call[g].statements[i].id = s /\ call[g].statements[i].sequence = call[g].written[s]
      BY <1>1, <1>5 DEF LastWord
    <2>2. call[g].op # "create"
      BY <1>1, <1>2, <2>1 DEF Shape, Open
    <2>3. i \in 1 .. call[g].done + (IF call[g].at = "placing" THEN 1 ELSE 0)
      BY <1>2
    <2>4. s \in Held(g)
      BY <2>1, <2>2, <2>3 DEF Held, Open
    <2>5. call[g].written[s] \in Claims(g)
      BY <2>1, <2>4 DEF Claims
    <2>6. call[g].written[s] \in Sequence
      BY <1>1, <1>5 DEF Call
    <2> QED BY <2>4, <2>5, <2>6
  <1> QED BY <1>1, <1>2, <1>3, <1>4, <1>5

\* A position that is written is free, for everybody.
LEMMA NewPosition ==
    ASSUME Inv, NEW h \in Callers, call[h].at = "placing", WaitsFor(h) = {}, ~Taken(h)
    PROVE  /\ Current(h).sequence \in Sequence
           /\ \A t \in Stages : Written(h)[t] =
                 IF t = Current(h).id THEN Current(h).sequence ELSE call[h].written[t]
           /\ \A g \in Callers \ {h} : Open(g) =>
                 \A t \in Stages : call[g].written[t] # Current(h).sequence
           /\ \A t \in Stages \ (Held(h) \cup {Current(h).id}) : order[t] # Current(h).sequence
           /\ Unique(Overlaid(Written(h)))
  <1>1. Open(h)
    BY DEF Open
  <1>2. /\ call[h] \in Call /\ Shape(call[h]) /\ Current(h) \in Statement
    BY <1>1, OpenFacts DEF Inv, CallSound
  <1>3. Current(h).id \in Stages /\ Current(h).sequence \in Sequence
    BY <1>2 DEF Statement, Shape, Current
  <1>4. Current(h).sequence # Keep
    BY <1>3, MaxSequenceAssumption DEF Sequence, Keep
  <1>5. call[h].written \in [Stages -> Sequence \cup {Keep}]
    BY <1>2 DEF Call
  <1>6. \A t \in Stages : Written(h)[t] =
           IF t = Current(h).id THEN Current(h).sequence ELSE call[h].written[t]
    BY <1>3, <1>5 DEF Written
  <1>7. ASSUME NEW g \in Callers \ {h}, Open(g), NEW t \in Stages,
               call[g].written[t] = Current(h).sequence
        PROVE  FALSE
    <2>1. Current(h).sequence \in Claims(g)
      BY <1>4, <1>7, OpenFacts
    <2> QED BY <2>1 DEF WaitsFor
  <1>8. \A t \in Stages \ {Current(h).id} : Overlaid(call[h].written)[t] # Current(h).sequence
    BY DEF Taken
  <1>9. ASSUME NEW t \in Stages \ (Held(h) \cup {Current(h).id})
        PROVE  order[t] # Current(h).sequence
    <2>1. call[h].written[t] = Keep
      BY <1>1, OpenFacts
    <2> QED BY <1>8, <2>1 DEF Overlaid
  <1>10. Unique(Overlaid(Written(h)))
    <2>1. Unique(Overlaid(call[h].written))
      BY <1>1 DEF Inv, ViewsUnique
    <2>2. \A t \in Stages : Overlaid(Written(h))[t] =
             IF t = Current(h).id THEN Current(h).sequence ELSE Overlaid(call[h].written)[t]
      BY <1>4, <1>6 DEF Overlaid
    <2> QED BY <1>3, <1>8, <2>1, <2>2 DEF Unique
  <1> QED BY <1>3, <1>6, <1>7, <1>9, <1>10

\* Only h's own place differs after a step of h.
LEMMA Bystanders ==
    ASSUME TypeOK, NEW h \in Callers, Others(h)
    PROVE  /\ call' \in [Callers -> Call]
           /\ \A g \in Callers \ {h} :
                 /\ call'[g] = call[g] /\ Held(g)' = Held(g) /\ Current(g)' = Current(g)
                 /\ (Open(g)' <=> Open(g)) /\ (Borning(g)' <=> Borning(g))
  <1>1. call' \in [Callers -> Call]
    BY DEF TypeOK, Others
  <1>2. ASSUME NEW g \in Callers \ {h}
        PROVE  /\ call'[g] = call[g] /\ Held(g)' = Held(g) /\ Current(g)' = Current(g)
               /\ (Open(g)' <=> Open(g)) /\ (Borning(g)' <=> Borning(g))
    <2>1. call'[g] = call[g]
      BY DEF Others
    <2> QED BY <2>1 DEF Held, Current, Open, Borning
  <1> QED BY <1>1, <1>2

LEMMA QuitsKeepsInv ==
    ASSUME Inv, logged' \subseteq Callers, NEW h \in Callers, Quits(h)
    PROVE  Inv'
  <1>1. TypeOK /\ Others(h) /\ order' = order
    BY DEF Inv, Quits
  <1>2. ~Open(h)' /\ ~Borning(h)' /\ Held(h)' = {}
    BY DEF Quits, Ended, Open, Borning, Held
  <1>3. TypeOK'
    BY <1>1, Bystanders DEF TypeOK, Unique
  <1>4. (\A g \in Callers : CallSound(call[g]))'
    <2>1. CallSound(call'[h])
      BY DEF Quits, Ended, CallSound, Shape
    <2> QED BY <1>1, <2>1, Bystanders DEF Inv
  <1>5. LocksApart'
    BY <1>1, <1>2, Bystanders DEF Inv, LocksApart, Live
  <1>6. BirthsApart'
    BY <1>1, <1>2, Bystanders DEF Inv, BirthsApart
  <1>7. (\A g \in Callers : Open(g) => PositionsApart(g) /\ ViewsUnique(g))'
    <2> SUFFICES ASSUME NEW g \in Callers \ {h}, Open(g)
                 PROVE  PositionsApart(g)' /\ ViewsUnique(g)'
      BY <1>1, <1>2, Bystanders
    <2>1. PositionsApart(g) /\ ViewsUnique(g)
      BY DEF Inv
    <2>2. PositionsApart(g)'
      BY <1>1, <1>2, <2>1, Bystanders DEF PositionsApart
    <2>3. ViewsUnique(g)'
      BY <1>1, <2>1, Bystanders DEF ViewsUnique, Unique, Overlaid
    <2> QED BY <2>2, <2>3
  <1> QED BY <1>3, <1>4, <1>5, <1>6, <1>7 DEF Inv

LEMMA StartsKeepsInv ==
    ASSUME Inv, logged' \subseteq Callers, NEW h \in Callers, Starts(h)
    PROVE  Inv'
  <1>1. TypeOK /\ Others(h) /\ order' = order /\ call'[h] \in Call
    BY DEF Inv, Starts, Others
  <1>2. Open(h)' /\ Held(h)' = {} /\ \A s \in Stages : call'[h].written[s] = Keep
    BY DEF Starts, Open, Held
  <1>3. TypeOK'
    BY <1>1, Bystanders DEF TypeOK, Unique
  <1>4. (\A g \in Callers : CallSound(call[g]))'
    <2>1. CallSound(call'[h])
      BY DEF Starts, CallSound, LastWord
    <2> QED BY <1>1, <2>1, Bystanders DEF Inv
  <1>5. LocksApart'
    BY <1>1, <1>2, Bystanders DEF Inv, LocksApart, Live
  <1>6. BirthsApart'
    <2>1. ASSUME Borning(h)'
          PROVE  /\ order'[Current(h)'.id] = Unborn
                 /\ \A g \in Callers \ {h} : Borning(g) => Current(g).id # Current(h)'.id
      <3>1. Current(h)' = call'[h].statements[1]
        BY DEF Starts, Current
      <3>2. call'[h].op = "create"
        BY <2>1 DEF Borning
      <3>3. order'[Current(h)'.id] = Unborn
        BY <1>1, <3>1, <3>2 DEF Starts
      <3>4. ASSUME NEW g \in Callers \ {h}, Borning(g) PROVE Current(g).id # Current(h)'.id
        <4>1. call[g].done + 1 \in 1 .. Len(call[g].statements) /\ call[g].statements \in Seq(Statement)
          BY <3>4, OpenFacts DEF Open, Borning, Call
        <4>2. call[g].done + 1 \in DOMAIN call[g].statements
          BY <4>1
        <4> QED BY <3>1, <3>2, <4>2 DEF Starts, Current
      <3> QED BY <3>3, <3>4
    <2> QED BY <1>1, <2>1, Bystanders DEF Inv, BirthsApart
  <1>7. (\A g \in Callers : Open(g) => PositionsApart(g) /\ ViewsUnique(g))'
    <2>1. PositionsApart(h)' /\ ViewsUnique(h)'
      <3>1. Overlaid(call[h].written)' = [s \in Stages |-> order[s]]
        BY <1>1, <1>2 DEF Overlaid
      <3> QED BY <1>1, <1>2, <3>1 DEF PositionsApart, ViewsUnique, Unique, TypeOK
    <2>2. ASSUME NEW g \in Callers \ {h}, Open(g)
          PROVE  PositionsApart(g)' /\ ViewsUnique(g)'
      <3>1. PositionsApart(g) /\ ViewsUnique(g)
        BY <2>2 DEF Inv
      <3>2. PositionsApart(g)'
        BY <1>1, <1>2, <3>1, Bystanders DEF PositionsApart
      <3>3. ViewsUnique(g)'
        BY <1>1, <3>1, Bystanders DEF ViewsUnique, Unique, Overlaid
      <3> QED BY <3>2, <3>3
    <2> QED BY <1>1, <2>1, <2>2, Bystanders
  <1> QED BY <1>3, <1>4, <1>5, <1>6, <1>7 DEF Inv

LEMMA DeletesKeepsInv ==
    ASSUME Inv, logged' \subseteq Callers, NEW h \in Callers, Deletes(h)
    PROVE  Inv'
  <1> DEFINE d == Current(h).id
  <1>1. TypeOK /\ Others(h) /\ d \in Live /\ order' = [order EXCEPT ![d] = Gone]
    BY DEF Inv, Deletes
  <1>2. call[h] \in Call /\ ~Open(h)' /\ ~Borning(h)' /\ Held(h)' = {}
    BY DEF Deletes, Open, Borning, Held, Inv, TypeOK, Call
  <1>3. ASSUME NEW g \in Callers \ {h} PROVE d \notin Held(g)
    BY DEF Deletes, WaitsFor
  <1>4. d \in Stages /\ order[d] \in Sequence /\ Unborn \notin Sequence /\ Gone \notin Sequence
        /\ Gone # Keep /\ Keep \notin Sequence
    BY <1>1, MaxSequenceAssumption DEF Live, Sequence, Unborn, Gone, Keep
  <1>5. \A s \in Stages : order'[s] = IF s = d THEN Gone ELSE order[s]
    BY <1>1, <1>4 DEF TypeOK
  <1>6. TypeOK'
    <2>1. order' \in [Stages -> Sequence \cup {Unborn, Gone}]
      BY <1>1 DEF TypeOK
    <2>2. Unique(order')
      BY <1>1, <1>4, <1>5 DEF TypeOK, Unique
    <2> QED BY <1>1, <2>1, <2>2, Bystanders DEF TypeOK
  <1>7. (\A g \in Callers : CallSound(call[g]))'
    <2>1. CallSound(call'[h])
      BY <1>2 DEF Deletes, CallSound, Shape, Call
    <2> QED BY <1>1, <2>1, Bystanders DEF Inv
  <1>8. LocksApart'
    <2>1. \A g \in Callers : (Held(g) \subseteq Live)'
      BY <1>1, <1>2, <1>3, <1>5, Bystanders DEF Inv, LocksApart, Live
    <2> QED BY <1>1, <1>2, <2>1, Bystanders DEF Inv, LocksApart
  <1>9. BirthsApart'
    <2>1. ASSUME NEW g \in Callers \ {h}, Borning(g) PROVE order'[Current(g).id] = Unborn
      <3>1. Current(g).id \in Stages /\ order[Current(g).id] = Unborn
        BY <2>1, OpenFacts DEF Inv, BirthsApart, Borning, Open, Statement
      <3> QED BY <1>4, <1>5, <3>1
    <2> QED BY <1>1, <1>2, <2>1, Bystanders DEF Inv, BirthsApart
  <1>10. (\A g \in Callers : Open(g) => PositionsApart(g) /\ ViewsUnique(g))'
    <2> SUFFICES ASSUME NEW g \in Callers \ {h}, Open(g)
                 PROVE  PositionsApart(g)' /\ ViewsUnique(g)'
      BY <1>1, <1>2, Bystanders
    <2>1. PositionsApart(g) /\ ViewsUnique(g) /\ call[g].written \in [Stages -> Sequence \cup {Keep}]
      BY OpenFacts DEF Inv, Call
    <2>2. PositionsApart(g)'
      BY <1>1, <1>2, <1>4, <1>5, <2>1, Bystanders DEF PositionsApart
    <2>3. call'[g] = call[g]
      BY <1>1, Bystanders
    <2>4. \A s \in Stages : Overlaid(call[g].written)'[s] \in {Overlaid(call[g].written)[s], Gone}
      BY <1>5, <2>3 DEF Overlaid
    <2>5. ViewsUnique(g)'
      BY <1>4, <2>1, <2>4 DEF ViewsUnique, Unique
    <2> QED BY <2>2, <2>5
  <1> QED BY <1>6, <1>7, <1>8, <1>9, <1>10 DEF Inv

LEMMA LocksKeepsInv ==
    ASSUME Inv, logged' \subseteq Callers, NEW h \in Callers, Locks(h)
    PROVE  Inv'
  <1> DEFINE d == Current(h).id
  <1>1. TypeOK /\ Others(h) /\ d \in Live /\ order' = order /\ Open(h)
    BY DEF Inv, Locks, Open
  <1>2. /\ call[h] \in Call /\ call'[h].at = "placing" /\ call'[h].op = call[h].op
        /\ call'[h].statements = call[h].statements /\ call'[h].done = call[h].done
        /\ call'[h].written = call[h].written
    BY DEF Locks, Inv, TypeOK, Call
  <1>3. call[h].op \notin {"create", "delete"} /\ Open(h)' /\ ~Borning(h)'
    BY <1>1, <1>2 DEF Locks, Open, Borning, Inv, CallSound, Shape
  <1>4. Held(h)' = Held(h) \cup {d}
    <2>1. call[h].done \in Nat /\ call[h].at = "locking"
      BY <1>2 DEF Call, Locks
    <2>2. 1 .. call[h].done + 1 = (1 .. call[h].done) \cup {call[h].done + 1}
      BY <2>1
    <2>3. Held(h) = {call[h].statements[i].id : i \in 1 .. call[h].done}
      BY <1>3, <2>1 DEF Held
    <2>4. Held(h)' = {call[h].statements[i].id : i \in 1 .. call[h].done + 1}
      BY <1>2, <1>3 DEF Held
    <2> QED BY <2>2, <2>3, <2>4 DEF Current
  <1>5. \A g \in Callers \ {h} : d \notin Held(g)
    BY DEF Locks, WaitsFor
  <1>6. TypeOK'
    BY <1>1, Bystanders DEF TypeOK, Unique
  <1>7. (\A g \in Callers : CallSound(call[g]))'
    <2>1. CallSound(call[h])
      BY DEF Inv
    <2>2. Shape(call'[h])
      BY <1>2, <1>3, <2>1 DEF Locks, CallSound, Shape, Current
    <2>3. \A s \in Stages : LastWord(call'[h], s)
      BY <1>1, <1>2, <2>1 DEF CallSound, LastWord, Open
    <2> QED BY <1>1, <2>2, <2>3, Bystanders DEF Inv, CallSound
  <1>8. LocksApart'
    BY <1>1, <1>4, <1>5, Bystanders DEF Inv, LocksApart, Live
  <1>9. BirthsApart'
    BY <1>1, <1>3, Bystanders DEF Inv, BirthsApart
  <1>10. (\A g \in Callers : Open(g) => PositionsApart(g) /\ ViewsUnique(g))'
    <2> SUFFICES ASSUME NEW g \in Callers, Open(g)
                 PROVE  PositionsApart(g)' /\ ViewsUnique(g)'
      BY <1>1, Bystanders
    <2>1. PositionsApart(g) /\ ViewsUnique(g)
      BY DEF Inv
    <2>2. call'[g].written = call[g].written /\ Held(g) \subseteq Held(g)'
      BY <1>1, <1>2, <1>4, Bystanders
    <2>3. \A f \in Callers : (Open(f)' => Open(f)) /\ call'[f].written = call[f].written
      BY <1>1, <1>2, Bystanders
    <2>4. PositionsApart(g)'
      BY <1>1, <2>1, <2>2, <2>3 DEF PositionsApart
    <2>5. ViewsUnique(g)'
      BY <1>1, <2>1, <2>2 DEF ViewsUnique, Unique, Overlaid
    <2> QED BY <2>4, <2>5
  <1> QED BY <1>6, <1>7, <1>8, <1>9, <1>10 DEF Inv

\* What a statement leaves behind in the call, and in the table if it commits.
LEMMA WritesFacts ==
    ASSUME Inv, NEW h \in Callers, Writes(h)
    PROVE  /\ Others(h) /\ Open(h) /\ call[h].at = "placing"
           /\ call'[h].at = After(h) /\ call'[h].op = call[h].op
           /\ call'[h].statements = call[h].statements /\ call'[h].done = call[h].done + 1
           /\ call'[h].written = Written(h)
           /\ call'[h].at \in {"auditing", "locking"} /\ ~Borning(h)'
           /\ call[h].op # "delete"
           /\ call'[h].at = "locking" => order' = order /\ call[h].op # "create"
           /\ call'[h].at = "auditing" => order' = Overlaid(Written(h))
           /\ Held(h)' = IF call'[h].at = "locking" THEN Held(h) ELSE {}
  <1>1. TypeOK /\ Open(h) /\ call[h].at = "placing" /\ CallSound(call[h]) /\ Proceed(h) /\ Advance(h)
    BY DEF Inv, Writes, Open, Proceed
  <1>2. /\ Others(h) /\ call'[h].at = After(h) /\ call'[h].op = call[h].op
        /\ call'[h].statements = call[h].statements /\ call'[h].done = call[h].done + 1
        /\ call'[h].written = Written(h) /\ After(h) \in {"auditing", "locking"}
    BY <1>1, AdvanceFacts, WrittenType
  <1>3. call[h].op # "delete" /\ call[h].done \in Nat
    BY <1>1, WrittenType DEF CallSound, Shape, Call
  <1>4. After(h) = "locking" => call[h].op # "create"
    <2> SUFFICES ASSUME call[h].op = "create" PROVE After(h) # "locking"
      OBVIOUS
    <2>1. Len(call[h].statements) = 1 /\ call[h].done < Len(call[h].statements)
      BY <1>1 DEF CallSound, Shape
    <2>2. call[h].done + 1 = Len(call[h].statements)
      BY <1>3, <2>1
    <2> QED BY <2>2 DEF After
  <1>5. Held(h)' = IF call'[h].at = "locking" THEN Held(h) ELSE {}
    <2>1. CASE call'[h].at = "locking"
      <3>1. call[h].op # "create"
        BY <1>2, <1>4, <2>1
      <3>2. Held(h) = {call[h].statements[i].id : i \in 1 .. call[h].done + 1}
        BY <1>1, <3>1 DEF Held
      <3>3. Held(h)' = {call[h].statements[i].id : i \in 1 .. (call[h].done + 1) + 0}
        BY <1>2, <2>1, <3>1 DEF Held
      <3>4. (call[h].done + 1) + 0 = call[h].done + 1
        BY <1>3
      <3> QED BY <2>1, <3>2, <3>3, <3>4
    <2>2. CASE call'[h].at = "auditing"
      BY <2>2 DEF Held
    <2> QED BY <1>2, <2>1, <2>2
  <1> QED BY <1>1, <1>2, <1>3, <1>4, <1>5 DEF Proceed, Borning

\* After it, the call is sound.
LEMMA WritesCallSound ==
    ASSUME Inv, NEW h \in Callers, Writes(h)
    PROVE  CallSound(call'[h]) /\ \A s \in Stages : LastWord(call'[h], s)
  <1>1. /\ Others(h) /\ Open(h) /\ call'[h].op = call[h].op /\ call'[h].at = After(h)
        /\ call'[h].statements = call[h].statements /\ call'[h].done = call[h].done + 1
        /\ call'[h].written = Written(h) /\ call'[h].at \in {"auditing", "locking"}
        /\ call'[h].at = "locking" => call[h].op # "create"
    BY WritesFacts
  <1>2. CallSound(call[h]) /\ Shape(call[h]) /\ \A s \in Stages : LastWord(call[h], s)
    BY <1>1 DEF Inv, CallSound, Open
  <1>3. /\ call[h] \in Call /\ call[h].done \in Nat
        /\ call[h].done + 1 \in 1 .. Len(call[h].statements)
        /\ call[h].statements \in Seq(Statement)
    BY <1>1, OpenFacts DEF Call
  <1>4. \A t \in Stages : Written(h)[t] =
           IF t = Current(h).id THEN Current(h).sequence ELSE call[h].written[t]
    BY NewPosition DEF Writes
  <1>5. Shape(call'[h])
    <2>1. call'[h].at = "locking" => call[h].done + 1 < Len(call[h].statements)
      BY <1>1, <1>3 DEF After
    <2> QED BY <1>1, <1>2, <2>1 DEF Shape, Open
  <1>6. ASSUME NEW s \in Stages PROVE LastWord(call'[h], s)
    <2>1. 1 .. call[h].done + 1 = (1 .. call[h].done) \cup {call[h].done + 1}
      BY <1>3
    <2>2. CASE s = Current(h).id
      <3>1. call'[h].written[s] = call'[h].statements[call[h].done + 1].sequence
        BY <1>1, <1>4, <2>2 DEF Current
      <3>2. call'[h].statements[call[h].done + 1].id = s
        BY <1>1, <2>2 DEF Current
      <3>3. call[h].done + 1 \in 1 .. call'[h].done /\ (call[h].done + 1) + 1 .. call'[h].done = {}
        BY <1>1, <1>3
      <3> QED BY <3>1, <3>2, <3>3 DEF LastWord
    <2>3. CASE s # Current(h).id
      <3>1. call'[h].written[s] = call[h].written[s]
        BY <1>1, <1>4, <2>3
      <3>2. call'[h].statements[call[h].done + 1].id # s
        BY <1>1, <2>3 DEF Current
      <3>3. LastWord(call[h], s)
        BY <1>2
      <3>4. \A j \in 1 .. call'[h].done : j \in 1 .. call[h].done \/ j = call[h].done + 1
        BY <1>1, <2>1
      <3>5. CASE /\ call[h].written[s] = Keep
                 /\ \A i \in 1 .. call[h].done : call[h].statements[i].id # s
        BY <1>1, <3>1, <3>2, <3>4, <3>5 DEF LastWord
      <3>6. CASE \E i \in 1 .. call[h].done :
                    /\ call[h].statements[i].id = s /\ call[h].statements[i].sequence = call[h].written[s]
                    /\ \A j \in i + 1 .. call[h].done : call[h].statements[j].id # s
        <4>1. PICK i \in 1 .. call[h].done :
                    /\ call[h].statements[i].id = s /\ call[h].statements[i].sequence = call[h].written[s]
                    /\ \A j \in i + 1 .. call[h].done : call[h].statements[j].id # s
          BY <3>6
        <4>2. i \in 1 .. call'[h].done
          BY <1>1, <1>3
        <4>3. \A j \in i + 1 .. call'[h].done : j \in i + 1 .. call[h].done \/ j = call[h].done + 1
          BY <1>1, <1>3
        <4>4. \A j \in i + 1 .. call'[h].done : call'[h].statements[j].id # s
          BY <1>1, <3>2, <4>1, <4>3
        <4> QED BY <1>1, <3>1, <4>1, <4>2, <4>4 DEF LastWord
      <3> QED BY <3>3, <3>5, <3>6 DEF LastWord
    <2> QED BY <2>2, <2>3
  <1> QED BY <1>5, <1>6 DEF CallSound

LEMMA WritesKeepsInv ==
    ASSUME Inv, logged' \subseteq Callers, NEW h \in Callers, Writes(h)
    PROVE  Inv'
  <1> DEFINE d == Current(h).id
             n == Current(h).sequence
             w == Written(h)
  <1>1. /\ TypeOK /\ Others(h) /\ Open(h) /\ call[h].at = "placing" /\ call'[h].written = w
        /\ call'[h].at \in {"auditing", "locking"} /\ ~Borning(h)'
        /\ call'[h].at = "locking" => order' = order /\ call[h].op # "create"
        /\ call'[h].at = "auditing" => order' = Overlaid(w)
        /\ Held(h)' = IF call'[h].at = "locking" THEN Held(h) ELSE {}
    BY WritesFacts DEF Inv
  <1>2. /\ n \in Sequence
        /\ \A t \in Stages : w[t] = IF t = d THEN n ELSE call[h].written[t]
        /\ \A g \in Callers \ {h} : Open(g) => \A t \in Stages : call[g].written[t] # n
        /\ \A t \in Stages \ (Held(h) \cup {d}) : order[t] # n
        /\ Unique(Overlaid(w))
    BY NewPosition DEF Writes
  <1>3. /\ w \in [Stages -> Sequence \cup {Keep}]
        /\ Overlaid(w) \in [Stages -> Sequence \cup {Unborn, Gone}] /\ d \in Stages
    BY <1>1, WrittenType DEF Inv, Statement
  <1>4. d \in Held(h) \/ Borning(h)
    BY <1>1, OpenFacts
  <1>5. \A t \in Stages : w[t] # Keep => t \in Held(h) \cup {d}
    BY <1>1, <1>2, OpenFacts
  <1>6. Keep \notin Sequence /\ Unborn \notin Sequence /\ Gone \notin Sequence
    BY MaxSequenceAssumption DEF Sequence, Unborn, Gone, Keep
  <1>7. \A t \in Stages : order'[t] = order[t] \/ (w[t] # Keep /\ order'[t] = w[t] /\ w[t] \in Sequence)
    BY <1>1, <1>3 DEF Overlaid
  <1>8. \A g \in Callers \ {h} : Held(g) \subseteq Live /\ Held(g) \cap Held(h) = {} /\ d \notin Held(g)
    BY <1>4, <1>6 DEF Inv, LocksApart, BirthsApart, Live
  <1>9. PositionsApart(h) /\ ViewsUnique(h)
    BY <1>1 DEF Inv
  <1> HIDE DEF d, n, w
  <1>10. TypeOK'
    <2>1. order' \in [Stages -> Sequence \cup {Unborn, Gone}] /\ Unique(order')
      BY <1>1, <1>2, <1>3 DEF TypeOK
    <2> QED BY <1>1, <2>1, Bystanders DEF TypeOK
  <1>11. (\A g \in Callers : CallSound(call[g]))'
    BY <1>1, WritesCallSound, Bystanders DEF Inv
  <1>12. LocksApart'
    <2>1. \A g \in Callers \ {h} : (Held(g) \subseteq Live)'
      BY <1>1, <1>7, <1>8, Bystanders DEF Live
    <2>2. (Held(h) \subseteq Live)'
      BY <1>1 DEF Inv, LocksApart, Live
    <2> QED BY <1>1, <1>8, <2>1, <2>2, Bystanders DEF Inv, LocksApart
  <1>13. BirthsApart'
    <2>1. ASSUME NEW g \in Callers \ {h}, Borning(g) PROVE order'[Current(g).id] = Unborn
      <3>1. Current(g).id \in Stages /\ order[Current(g).id] = Unborn
        BY <2>1, OpenFacts DEF Inv, BirthsApart, Borning, Open, Statement
      <3>2. Current(g).id \notin Held(h)
        BY <1>6, <3>1 DEF Inv, LocksApart, Live
      <3>3. Current(g).id # d
        BY <1>4, <2>1, <3>2 DEF Inv, BirthsApart, d
      <3> QED BY <1>5, <1>7, <3>1, <3>2, <3>3
    <2> QED BY <1>1, <2>1, Bystanders DEF Inv, BirthsApart
  <1>14. ASSUME NEW g \in Callers \ {h}, Open(g)
         PROVE  PositionsApart(g)' /\ ViewsUnique(g)'
    <2>1. /\ PositionsApart(g) /\ ViewsUnique(g)
          /\ \A s \in Stages : call[g].written[s] # Keep => s \in Held(g)
      BY <1>14, OpenFacts DEF Inv
    <2>2. call'[g] = call[g] /\ Held(g)' = Held(g)
      BY <1>1, Bystanders
    <2>3. ASSUME NEW s \in Stages, call[g].written[s] # Keep, NEW t \in Stages
          PROVE  w[t] # call[g].written[s]
      BY <1>1, <1>2, <1>14, <2>1, <2>3 DEF PositionsApart
    <2>4. ASSUME NEW s \in Stages, call[g].written[s] # Keep, NEW t \in Stages \ Held(g)
          PROVE  order'[t] # call[g].written[s]
      BY <1>7, <2>1, <2>3, <2>4 DEF PositionsApart
    <2>5. PositionsApart(g)'
      <3>1. ASSUME NEW s \in Stages, call[g].written[s] # Keep, NEW f \in Callers \ {g}, Open(f)',
                   NEW t \in Stages
            PROVE  call'[f].written[t] # call[g].written[s]
        <4>1. CASE f = h
          BY <1>1, <2>3, <3>1, <4>1
        <4>2. CASE f # h
          BY <1>1, <2>1, <3>1, <4>2, Bystanders DEF PositionsApart
        <4> QED BY <4>1, <4>2
      <3> QED BY <2>2, <2>4, <3>1 DEF PositionsApart
    <2>6. \A t \in Held(g) \cap Stages : order'[t] = order[t]
      BY <1>5, <1>7, <1>8
    <2>7. ViewsUnique(g)'
      <3> DEFINE v == call[g].written
                 o == Overlaid(v)
      <3>1. Overlaid(call[g].written)' = [s \in Stages |-> IF v[s] = Keep THEN order'[s] ELSE v[s]]
        BY <2>2 DEF Overlaid
      <3>2. Unique(o)
        BY <2>1 DEF ViewsUnique
      <3>3. \A s \in Held(g) \cap Stages : o[s] = IF v[s] = Keep THEN order'[s] ELSE v[s]
        BY <2>6 DEF Overlaid
      <3>4. Unique(order')
        BY <1>10 DEF TypeOK
      <3>5. ASSUME NEW s \in Stages, NEW t \in Stages, s # t, v[s] # Keep, v[t] = Keep
            PROVE  v[s] # order'[t]
        <4>1. CASE t \in Held(g)
          <5>1. o[s] = v[s] /\ o[t] = order'[t] /\ s \in Held(g)
            BY <2>1, <3>3, <3>5, <4>1
          <5>2. v[s] \in Sequence
            BY <1>14, <3>5, OpenFacts
          <5> HIDE DEF o, v
          <5> QED BY <3>2, <3>5, <5>1, <5>2 DEF Unique
        <4>2. CASE t \notin Held(g)
          BY <2>4, <3>5, <4>2
        <4> QED BY <4>1, <4>2
      <3>6. ASSUME NEW s \in Stages, NEW t \in Stages, s # t, v[s] # Keep, v[t] # Keep
            PROVE  v[s] # v[t]
        <4>1. o[s] = v[s] /\ o[t] = v[t]
          BY <3>6 DEF Overlaid
        <4>2. v[s] \in Sequence
          BY <1>14, <3>6, OpenFacts
        <4> HIDE DEF o, v
        <4> QED BY <3>2, <3>6, <4>1, <4>2 DEF Unique
      <3> HIDE DEF v, o
      <3> QED BY <3>1, <3>4, <3>5, <3>6 DEF ViewsUnique, Unique
    <2> QED BY <2>5, <2>7
  <1>15. Open(h)' => PositionsApart(h)' /\ ViewsUnique(h)'
    <2> SUFFICES ASSUME Open(h)' PROVE PositionsApart(h)' /\ ViewsUnique(h)'
      OBVIOUS
    <2>1. order' = order /\ Held(h)' = Held(h) /\ d \in Held(h)
      BY <1>1, <1>4 DEF Open, Borning
    <2>2. ASSUME NEW s \in Stages, w[s] # Keep, NEW t \in Stages \ Held(h)
          PROVE  order[t] # w[s]
      BY <1>2, <1>9, <2>1, <2>2 DEF PositionsApart
    <2>3. ASSUME NEW s \in Stages, w[s] # Keep, NEW g \in Callers \ {h}, Open(g), NEW t \in Stages
          PROVE  call[g].written[t] # w[s]
      BY <1>2, <1>9, <2>3 DEF PositionsApart
    <2>4. PositionsApart(h)'
      BY <1>1, <2>1, <2>2, <2>3, Bystanders DEF PositionsApart
    <2>5. ViewsUnique(h)'
      BY <1>1, <1>2, <2>1 DEF ViewsUnique, Overlaid, Unique
    <2> QED BY <2>4, <2>5
  <1>16. (\A g \in Callers : Open(g) => PositionsApart(g) /\ ViewsUnique(g))'
    BY <1>1, <1>14, <1>15, Bystanders
  <1> QED BY <1>10, <1>11, <1>12, <1>13, <1>16 DEF Inv

-----------------------------------------------------------------------------
LEMMA InitInv == Init => Inv
  <1> SUFFICES ASSUME Init PROVE Inv
    OBVIOUS
  <1>1. Idle \in Call /\ Idle.at = "idle"
    BY DEF Idle, Call, Operations
  <1>2. TypeOK
    BY <1>1 DEF Init, TypeOK
  <1>3. \A h \in Callers : call[h].at = "idle"
    BY <1>1 DEF Init
  <1> QED BY <1>2, <1>3 DEF Inv, CallSound, Shape, LocksApart, Held, BirthsApart, Borning, Open

LEMMA StepInv == Inv /\ [Next]_vars => Inv'
  <1> SUFFICES ASSUME Inv, [Next]_vars PROVE Inv'
    OBVIOUS
  <1>1. logged' \subseteq Callers
    <2>1. logged \subseteq Callers
      BY DEF Inv, TypeOK
    <2>2. CASE UNCHANGED vars
      BY <2>1, <2>2 DEF vars
    <2>3. ASSUME NEW h \in Callers,
                 \/ CreateStage(h) \/ UpdateStage(h) \/ DeleteStage(h) \/ ReorderStages(h)
                 \/ Step(h) \/ Lose(h)
          PROVE  logged' \in {logged, logged \cup {h}}
      BY <2>3 DEF CreateStage, UpdateStage, DeleteStage, ReorderStages, Begin, Step, Lock, Place,
                  Abort, Audit, Lose
    <2> QED BY <2>1, <2>2, <2>3 DEF Next
  <1>2. CASE order' = order /\ call' = call
    <2>1. TypeOK'
      BY <1>1, <1>2 DEF Inv, TypeOK
    <2>2. (\A g \in Callers : CallSound(call[g]))'
      BY <1>2 DEF Inv
    <2>3. \A g \in Callers : Held(g)' = Held(g) /\ Current(g)' = Current(g)
                             /\ (Borning(g)' <=> Borning(g))
      BY <1>2 DEF Held, Current, Borning
    <2>4. LocksApart' /\ BirthsApart'
      BY <1>2, <2>3 DEF Inv, LocksApart, Live, BirthsApart
    <2>5. ASSUME NEW g \in Callers, Open(g)' PROVE PositionsApart(g)' /\ ViewsUnique(g)'
      BY <1>2, <2>3, <2>5 DEF Inv, PositionsApart, Open, ViewsUnique, Overlaid
    <2> QED BY <2>1, <2>2, <2>4, <2>5 DEF Inv
  <1>3. ASSUME NEW h \in Callers, Shaped(h) PROVE Inv'
    BY <1>1, <1>3, StartsKeepsInv, QuitsKeepsInv, DeletesKeepsInv, LocksKeepsInv, WritesKeepsInv
       DEF Shaped
  <1> QED BY <1>2, <1>3, StepShapes

LEMMA SpecInv == Spec => []Inv
  <1> QED BY InitInv, StepInv, PTL DEF Spec

\* Positions are unique in every state, for any number of stages and of
\* overlapping transactions: an entry of the index that a transaction took or
\* left is never handed to another before the transaction ends.
THEOREM TypeCorrect == Spec => []TypeOK
  <1>1. Inv => TypeOK
    BY DEF Inv
  <1> QED BY <1>1, SpecInv, PTL

\* What a transaction commits is the effect of all its statements in order.
LEMMA WritesWhole ==
    ASSUME Inv, NEW h \in Callers, Writes(h), call'[h].at = "auditing"
    PROVE  order' = [s \in Stages |-> Effect(h, s)]
  <1>1. /\ Open(h) /\ call'[h].statements = call[h].statements /\ call'[h].done = call[h].done + 1
        /\ call'[h].written = Written(h) /\ call'[h].at = After(h) /\ call[h].op # "delete"
        /\ order' = Overlaid(Written(h))
    BY WritesFacts
  <1>2. /\ call[h].statements \in Seq(Statement) /\ call'[h].done = Len(call[h].statements)
        /\ DOMAIN call[h].statements = 1 .. call'[h].done
        /\ Written(h) \in [Stages -> Sequence \cup {Keep}] /\ call'[h].done \in Nat
    BY <1>1, OpenFacts, WrittenType DEF After, Call, Inv
  <1>3. ASSUME NEW s \in Stages PROVE order'[s] = Effect(h, s)
    <2> DEFINE mine == {i \in DOMAIN call[h].statements : call[h].statements[i].id = s}
               last == CHOOSE i \in mine : \A j \in mine : j <= i
    <2>1. LastWord(call'[h], s)
      BY WritesCallSound
    <2>2. CASE mine = {}
      <3>1. Written(h)[s] = Keep
        BY <1>1, <1>2, <2>1, <2>2 DEF LastWord
      <3>2. order'[s] = order[s]
        BY <1>1, <3>1 DEF Overlaid
      <3> QED BY <2>2, <3>2 DEF Effect
    <2>3. CASE mine # {}
      <3>1. PICK i \in 1 .. call'[h].done :
               /\ call[h].statements[i].id = s /\ call[h].statements[i].sequence = Written(h)[s]
               /\ \A j \in i + 1 .. call'[h].done : call[h].statements[j].id # s
        BY <1>1, <1>2, <2>1, <2>3 DEF LastWord
      <3>2. i \in mine /\ \A j \in mine : j <= i
        BY <1>2, <3>1
      <3>3. last \in mine /\ \A j \in mine : j <= last
        <4> HIDE DEF mine
        <4> QED BY <3>2
      <3>4. last = i
        BY <1>2, <3>2, <3>3
      <3>5. Effect(h, s) = IF call[h].statements[last].sequence = Keep THEN order[s]
                           ELSE call[h].statements[last].sequence
        BY <1>1, <2>3 DEF Effect
      <3> HIDE DEF last, mine
      <3> QED BY <1>1, <3>1, <3>4, <3>5 DEF Overlaid
    <2> QED BY <2>2, <2>3
  <1>4. order' = [s \in Stages |-> order'[s]]
    BY <1>1 DEF Overlaid
  <1> QED BY <1>3, <1>4

LEMMA DeletesWhole ==
    ASSUME Inv, NEW h \in Callers, Deletes(h)
    PROVE  order' = [s \in Stages |-> Effect(h, s)]
  <1>1. Open(h) /\ call[h].at = "locking" /\ Shape(call[h]) /\ call[h].op = "delete"
    BY DEF Deletes, Open, Inv, CallSound
  <1>2. Len(call[h].statements) = 1 /\ call[h].statements \in Seq(Statement) /\ call[h].done = 0
    <2>1. /\ call[h].statements \in Seq(Statement) /\ call[h].done \in Nat
          /\ call[h].done < Len(call[h].statements)
      BY <1>1, OpenFacts DEF Shape, Call
    <2>2. Len(call[h].statements) = 1
      BY <1>1 DEF Shape
    <2> QED BY <2>1, <2>2
  <1>3. DOMAIN call[h].statements = {1} /\ Current(h) = call[h].statements[1]
    BY <1>2 DEF Current
  <1>4. order' = [order EXCEPT ![Current(h).id] = Gone] /\ order \in [Stages -> Sequence \cup {Unborn, Gone}]
    BY DEF Deletes, Inv, TypeOK
  <1>5. ASSUME NEW s \in Stages PROVE order'[s] = Effect(h, s)
    <2>1. CASE s = Current(h).id
      BY <1>1, <1>3, <1>4, <2>1 DEF Effect
    <2>2. CASE s # Current(h).id
      <3>1. {i \in DOMAIN call[h].statements : call[h].statements[i].id = s} = {}
        BY <1>3, <2>2
      <3> QED BY <1>4, <2>2, <3>1 DEF Effect
    <2> QED BY <2>1, <2>2
  <1>6. order' = [s \in Stages |-> order'[s]]
    BY <1>4
  <1> QED BY <1>5, <1>6

\* A step that changes the table commits one whole call: no part of a reorder is
\* ever in the table without the rest, for reorders of any length.
THEOREM WholeCalls == Spec => ChangesAreWholeCalls
  <1> DEFINE Whole == order' # order =>
                 \E h \in Callers : /\ call[h].at # "auditing" /\ call'[h].at = "auditing"
                                    /\ order' = [s \in Stages |-> Effect(h, s)]
  <1>1. Inv /\ [Next]_vars => [Whole]_vars
    <2> SUFFICES ASSUME Inv, [Next]_vars, order' # order PROVE Whole
      OBVIOUS
    <2>1. PICK h \in Callers : Deletes(h) \/ Writes(h)
      BY StepShapes DEF Shaped, Starts, Quits, Locks
    <2>2. CASE Deletes(h)
      <3>1. call[h].at # "auditing" /\ call'[h].at = "auditing"
        BY <2>2 DEF Deletes, Inv, TypeOK, Call
      <3> QED BY <2>2, <3>1, DeletesWhole
    <2>3. CASE Writes(h)
      <3>1. call[h].at # "auditing" /\ call'[h].at = "auditing"
        BY <2>3, WritesFacts
      <3> QED BY <2>3, <3>1, WritesWhole
    <2> QED BY <2>1, <2>2, <2>3
  <1> QED BY <1>1, SpecInv, PTL DEF Spec, ChangesAreWholeCalls
=============================================================================
