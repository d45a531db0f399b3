--------------------------- MODULE AuditChainProofs ---------------------------
(***************************************************************************)
(* Proofs about AuditChain, for any number of writers, migrated rows and   *)
(* events.                                                                 *)
(*                                                                         *)
(* The properties speak of the table alone and are not inductive.  Inv     *)
(* adds what a transaction knows: whoever has read the last row (Informed) *)
(* holds the lock, so that what it read is still the last row when it      *)
(* commits, and the ids in use (IdsApart) are those of different events.   *)
(***************************************************************************)
EXTENDS AuditChain, Sequences, FiniteSetTheorems, TLAPS

TableIds == {r.id : r \in table}

\* What the transaction of w has read of the table.
Informed(w) ==
    /\ writer[w].at \in {"locking", "reading"} => writer[w].previous = 0
    /\ writer[w].at \in {"inserting", "committing"} =>
          /\ writer[w].sequence = Cardinality(table) + 1
          /\ IF Cardinality(table) = 0 THEN writer[w].previous = 0
             ELSE \E s \in table : /\ s.sequence = Cardinality(table)
                                   /\ s.id = writer[w].previous

\* Events in flight have ids of their own, which no row and no history names.
IdsApart ==
    /\ \A w \in Writers : writer[w].at # "idle" =>
          writer[w].id \in Legacy + 1 .. recorded /\ writer[w].id \notin TableIds
    /\ \A v, w \in Writers :
          v # w /\ writer[v].at # "idle" /\ writer[w].at # "idle" => writer[v].id # writer[w].id
    /\ \A i \in TableIds : i <= recorded
    /\ \A e \in Ids : before[e] \subseteq TableIds

Inv ==
    /\ TypeOK
    /\ IsFiniteSet(table)
    /\ SequencesGapless
    /\ ChainLinked
    /\ ChainKeepsCausality
    /\ \A w \in Writers : Informed(w)
    /\ IdsApart

-----------------------------------------------------------------------------
\* A table without gaps or repetitions has a last row, and no row after it.
LEMMA LatestIsLast ==
    ASSUME TypeOK, IsFiniteSet(table), SequencesGapless, NEW r \in Latest
    PROVE  /\ r \in table
           /\ r.sequence = Cardinality(table)
           /\ Cardinality(table) # 0
<1> DEFINE n == Cardinality(table)
<1>1. n \in Nat
  BY FS_CardinalityType
<1>2. r \in table /\ \A s \in table : s.sequence <= r.sequence
  BY DEF Latest
<1>3. n # 0
  BY <1>2, FS_EmptySet
<1>4. {s.sequence : s \in table} = 1 .. n
  BY DEF SequencesGapless
<1> HIDE DEF n
<1>5. r.sequence \in 1 .. n
  BY <1>2, <1>4
<1>6. n \in {s.sequence : s \in table}
  BY <1>1, <1>3, <1>4
<1>7. PICK s \in table : s.sequence = n
  BY <1>6
<1>8. n <= r.sequence
  BY <1>2, <1>7
<1>9. r.sequence = n
  BY <1>1, <1>5, <1>8
<1>10. QED
  BY <1>2, <1>3, <1>9 DEF n

\* The migrated rows are as many as their numbers say.
LEMMA LegacyRowsCounted == IsFiniteSet(LegacyRows) /\ Cardinality(LegacyRows) = Legacy
<1> DEFINE f == [i \in 1 .. Legacy |-> [id |-> i, sequence |-> i, previous |-> 0]]
<1>1. f \in [1 .. Legacy -> LegacyRows]
  BY DEF LegacyRows
<1>2. \A i, j \in 1 .. Legacy : f[i] = f[j] => i = j
  <2> SUFFICES ASSUME NEW i \in 1 .. Legacy, NEW j \in 1 .. Legacy, f[i] = f[j] PROVE i = j
    OBVIOUS
  <2>1. f[i].id = i /\ f[j].id = j
    OBVIOUS
  <2>2. QED
    BY <2>1
<1>3. \A r \in LegacyRows : \E i \in 1 .. Legacy : f[i] = r
  BY DEF LegacyRows
<1> HIDE DEF f
<1>4. f \in Bijection(1 .. Legacy, LegacyRows)
  <2>1. f \in Injection(1 .. Legacy, LegacyRows)
    BY <1>1, <1>2 DEF Injection, IsInjective
  <2>2. f \in Surjection(1 .. Legacy, LegacyRows)
    BY <1>1, <1>3 DEF Surjection
  <2>3. QED
    BY <2>1, <2>2 DEF Bijection
<1>5. ExistsBijection(1 .. Legacy, LegacyRows)
  BY <1>4 DEF ExistsBijection
<1>6. IsFiniteSet(1 .. Legacy) /\ Cardinality(1 .. Legacy) = Legacy
  BY FS_Interval, LegacyAssumption
<1>7. QED
  BY <1>5, <1>6, FS_Bijection

LEMMA InitInv == Init => Inv
<1> SUFFICES ASSUME Init PROVE Inv
  OBVIOUS
<1>1. IsFiniteSet(table) /\ Cardinality(table) = Legacy
  BY LegacyRowsCounted DEF Init
<1>2. \A r \in table : /\ r \in Row
                       /\ r.id \in 1 .. Legacy
                       /\ r.sequence = r.id
                       /\ r.previous = 0
  BY LegacyAssumption, MaxEventsAssumption DEF Init, LegacyRows, Row, Ids
<1>3. \A i \in 1 .. Legacy : \E r \in table : r.sequence = i
  <2> SUFFICES ASSUME NEW i \in 1 .. Legacy PROVE \E r \in table : r.sequence = i
    OBVIOUS
  <2>1. [id |-> i, sequence |-> i, previous |-> 0] \in table
    BY DEF Init, LegacyRows
  <2>2. QED
    BY <2>1
<1>4. \A w \in Writers : writer[w].at = "idle"
  BY DEF Init, Idle
<1>5. TypeOK
  <2>1. writer \in [Writers -> Transaction]
    BY DEF Init, Idle, Transaction
  <2>2. recorded \in Legacy .. Legacy + MaxEvents
    BY LegacyAssumption, MaxEventsAssumption DEF Init
  <2>3. QED
    BY <1>2, <1>4, <2>1, <2>2, NoWriterAssumption DEF Init, TypeOK, Holding
<1>6. SequencesGapless
  BY <1>1, <1>2, <1>3 DEF SequencesGapless
<1>7. ChainLinked
  BY <1>2, LegacyAssumption DEF ChainLinked
<1>8. ChainKeepsCausality
  BY <1>2 DEF ChainKeepsCausality, Init, Row
<1>9. \A w \in Writers : Informed(w)
  BY <1>4 DEF Informed
<1>10. IdsApart
  BY <1>2, <1>4, LegacyAssumption DEF IdsApart, Init, TableIds
<1>11. QED
  BY <1>1, <1>5, <1>6, <1>7, <1>8, <1>9, <1>10 DEF Inv

-----------------------------------------------------------------------------
\* What record and append do before the commit leaves the table alone.
LEMMA RecordKeepsInv ==
    ASSUME Inv, NEW w \in Writers, Record(w) PROVE Inv'
<1> USE DEF Inv
<1> DEFINE e == recorded + 1
<1>1. /\ recorded \in Nat /\ recorded' = e /\ e \in Nat
      /\ e \in Ids /\ e \in Legacy + 1 .. Legacy + MaxEvents
  BY LegacyAssumption, MaxEventsAssumption DEF Record, TypeOK, Ids
<1> HIDE DEF e
<1>2. /\ writer[w].at = "idle" /\ writer' \in [Writers -> Transaction]
      /\ writer'[w].at = "locking" /\ writer'[w].id = e /\ writer'[w].previous = 0
      /\ \A v \in Writers \ {w} : writer'[v] = writer[v]
  BY <1>1 DEF Record, TypeOK, Idle, Transaction, e
<1>3. table' = table /\ lock' = lock /\ TableIds' = TableIds
  BY DEF Record, TableIds
<1>4. TableIds \subseteq Ids /\ \A i \in TableIds : i <= recorded
  BY DEF TypeOK, Row, TableIds, IdsApart
<1>5. before' \in [Ids -> SUBSET Ids] /\ \A d \in Ids : before'[d] \subseteq TableIds
  BY <1>1, <1>4 DEF Record, TypeOK, TableIds, IdsApart, e
<1>6. \A d \in Ids : d # e => before'[d] = before[d]
  BY DEF Record, TypeOK, e
<1>7. TypeOK'
  <2>1. \A v \in Writers : lock' = v <=> writer'[v].at \in Holding
    BY <1>2, <1>3 DEF TypeOK, Holding
  <2>2. recorded' \in Legacy .. Legacy + MaxEvents
    BY <1>1, LegacyAssumption, MaxEventsAssumption
  <2>3. QED
    BY <1>2, <1>3, <1>5, <2>1, <2>2 DEF TypeOK
<1>8. IsFiniteSet(table)' /\ SequencesGapless' /\ ChainLinked'
  BY <1>3 DEF SequencesGapless, ChainLinked
<1>9. ChainKeepsCausality'
  <2> SUFFICES ASSUME NEW r \in table, NEW s \in table, s.id \in before'[r.id]
               PROVE  s.sequence < r.sequence
    BY <1>3 DEF ChainKeepsCausality
  <2>1. r.id \in Ids /\ r.id <= recorded
    BY <1>4 DEF TableIds
  <2>2. QED
    BY <1>1, <1>6, <2>1, LegacyAssumption, MaxEventsAssumption DEF ChainKeepsCausality, Ids, e
<1>10. \A v \in Writers : Informed(v)'
  BY <1>2, <1>3 DEF Informed
<1>11. IdsApart'
  <2>1. \A v \in Writers : writer'[v].at # "idle" =>
           writer'[v].id \in Legacy + 1 .. e /\ writer'[v].id \notin TableIds
    <3>1. e \notin TableIds /\ e \in Legacy + 1 .. e
      BY <1>1, <1>4, LegacyAssumption DEF e
    <3>2. \A v \in Writers \ {w} : writer[v].at # "idle" =>
             writer[v].id \in Legacy + 1 .. e /\ writer[v].id \notin TableIds
      BY <1>1, LegacyAssumption DEF IdsApart, e
    <3>3. QED
      BY <1>2, <3>1, <3>2
  <2>2. \A v \in Writers \ {w} : writer[v].at # "idle" => writer[v].id # e
    BY <1>1, LegacyAssumption DEF IdsApart, e
  <2>3. \A u, v \in Writers :
           u # v /\ writer'[u].at # "idle" /\ writer'[v].at # "idle" => writer'[u].id # writer'[v].id
    BY <1>2, <2>2 DEF IdsApart
  <2>4. recorded <= recorded' /\ recorded' \in Nat
    BY <1>1 DEF e
  <2>5. \A i \in TableIds : i \in Int /\ i <= recorded'
    BY <1>1, <1>4, <2>4, LegacyAssumption, MaxEventsAssumption DEF Ids
  <2>6. QED
    BY <1>1, <1>3, <1>5, <2>1, <2>3, <2>5 DEF IdsApart
<1>12. QED
  BY <1>7, <1>8, <1>9, <1>10, <1>11

\* A step of w that touches neither the table nor what is recorded.
LEMMA QuietStepKeepsInv ==
    ASSUME Inv, NEW w \in Writers,
           UNCHANGED <<table, recorded, before>>,
           writer' \in [Writers -> Transaction],
           \A v \in Writers \ {w} : writer'[v] = writer[v],
           writer'[w].at # "idle" => writer[w].at # "idle" /\ writer'[w].id = writer[w].id,
           lock' \in Writers \cup {NoWriter},
           \A v \in Writers : lock' = v <=> writer'[v].at \in Holding,
           Informed(w)'
    PROVE  Inv'
<1> USE DEF Inv
<1>1. TypeOK'
  BY DEF TypeOK
<1>2. IsFiniteSet(table)' /\ SequencesGapless' /\ ChainLinked' /\ ChainKeepsCausality'
  BY DEF SequencesGapless, ChainLinked, ChainKeepsCausality
<1>3. \A v \in Writers : Informed(v)'
  BY DEF Informed
<1>4. IdsApart'
  BY DEF IdsApart, TableIds
<1>5. QED
  BY <1>1, <1>2, <1>3, <1>4

LEMMA LockKeepsInv ==
    ASSUME Inv, NEW w \in Writers, Lock(w) PROVE Inv'
<1>1. writer' \in [Writers -> Transaction]
  BY DEF Inv, Lock, TypeOK, Transaction
<1>2. writer'[w].at = "reading" /\ writer'[w].id = writer[w].id /\ writer'[w].previous = writer[w].previous
  BY DEF Inv, Lock, TypeOK, Transaction
<1>3. \A v \in Writers \ {w} : writer'[v] = writer[v]
  BY DEF Inv, Lock, TypeOK
<1>4. \A v \in Writers : writer[v].at \notin Holding
  BY NoWriterAssumption DEF Inv, Lock, TypeOK
<1>5. Informed(w)'
  BY <1>2 DEF Inv, Informed, Lock
<1>6. QED
  BY <1>1, <1>2, <1>3, <1>4, <1>5, QuietStepKeepsInv DEF Lock, Holding

LEMMA ReadPreviousKeepsInv ==
    ASSUME Inv, NEW w \in Writers, ReadPrevious(w) PROVE Inv'
<1> DEFINE n == Cardinality(table)
<1>1. n \in Nat /\ (table = {} <=> n = 0)
  BY FS_CardinalityType, FS_EmptySet DEF Inv
<1>2. writer[w].at = "reading" /\ writer[w].previous = 0 /\ writer[w] \in Transaction
  BY DEF Inv, ReadPrevious, TypeOK, Informed
<1>3. \E t, q \in Nat :
         /\ writer' = [writer EXCEPT ![w] = [@ EXCEPT !.at = "inserting", !.sequence = t, !.previous = q]]
         /\ t = n + 1
         /\ IF n = 0 THEN q = 0 ELSE \E s \in table : s.sequence = n /\ s.id = q
  <2>1. CASE /\ table = {}
             /\ writer' = [writer EXCEPT ![w] = [@ EXCEPT !.at = "inserting", !.sequence = 1]]
    <3>1. [writer[w] EXCEPT !.at = "inserting", !.sequence = 1]
             = [writer[w] EXCEPT !.at = "inserting", !.sequence = 1, !.previous = 0]
      BY <1>2 DEF Transaction
    <3>2. writer' = [writer EXCEPT ![w] = [@ EXCEPT !.at = "inserting", !.sequence = 1, !.previous = 0]]
      BY <2>1, <3>1
    <3>3. n = 0
      BY <1>1, <2>1
    <3> HIDE DEF n
    <3>4. <1>3!(1, 0)
      BY <3>2, <3>3
    <3>5. QED
      BY <3>4
  <2>2. ASSUME NEW r \in Latest,
               writer' = [writer EXCEPT ![w] =
                  [@ EXCEPT !.at = "inserting", !.sequence = r.sequence + 1, !.previous = r.id]]
        PROVE  <1>3!:
    <3>1. r \in table /\ r.sequence = n /\ n # 0
      BY LatestIsLast DEF Inv
    <3>2. r.id \in Nat
      BY <3>1, LegacyAssumption, MaxEventsAssumption DEF Inv, TypeOK, Row, Ids
    <3>3. n + 1 \in Nat
      BY <1>1
    <3>4. r.sequence + 1 = n + 1
      BY <3>1
    <3>5. writer' = [writer EXCEPT ![w] =
             [@ EXCEPT !.at = "inserting", !.sequence = n + 1, !.previous = r.id]]
      BY <2>2, <3>4
    <3>6. \E s \in table : s.sequence = n /\ s.id = r.id
      BY <3>1
    <3> HIDE DEF n
    <3>7. <1>3!(n + 1, r.id)
      BY <3>1, <3>5, <3>6
    <3>8. QED
      BY <3>2, <3>3, <3>7
  <2>3. QED
    BY <2>1, <2>2 DEF ReadPrevious
<1>4. /\ writer' \in [Writers -> Transaction]
      /\ \A v \in Writers \ {w} : writer'[v] = writer[v]
      /\ writer'[w].at = "inserting" /\ writer'[w].id = writer[w].id
      /\ writer'[w].sequence = n + 1
      /\ IF n = 0 THEN writer'[w].previous = 0
         ELSE \E s \in table : s.sequence = n /\ s.id = writer'[w].previous
  <2> HIDE DEF n
  <2>1. PICK t, q \in Nat : <1>3!(t, q)
    BY <1>3
  <2>2. QED
    BY <1>2, <2>1 DEF Inv, TypeOK, Transaction
<1>5. UNCHANGED <<table, lock, recorded, before>>
  BY DEF ReadPrevious
<1>6. Informed(w)'
  BY <1>4, <1>5 DEF Informed
<1>7. \A v \in Writers : lock' = v <=> writer'[v].at \in Holding
  BY <1>2, <1>4, <1>5 DEF Inv, TypeOK, Holding
<1>8. lock' \in Writers \cup {NoWriter}
  BY <1>5 DEF Inv, TypeOK
<1>9. QED
  BY <1>2, <1>4, <1>5, <1>6, <1>7, <1>8, QuietStepKeepsInv

LEMMA InsertKeepsInv ==
    ASSUME Inv, NEW w \in Writers, Insert(w) PROVE Inv'
<1>1. writer' \in [Writers -> Transaction]
  BY DEF Inv, Insert, TypeOK, Transaction
<1>2. /\ writer'[w].at = "committing" /\ writer'[w].id = writer[w].id
      /\ writer'[w].sequence = writer[w].sequence /\ writer'[w].previous = writer[w].previous
  BY DEF Inv, Insert, TypeOK, Transaction
<1>3. \A v \in Writers \ {w} : writer'[v] = writer[v]
  BY DEF Inv, Insert, TypeOK
<1>4. writer[w].at = "inserting" /\ UNCHANGED <<table, lock, recorded, before>>
  BY DEF Insert
<1>5. Informed(w)'
  BY <1>2, <1>4 DEF Inv, Informed
<1>6. lock' \in Writers \cup {NoWriter} /\ \A v \in Writers : lock' = v <=> writer'[v].at \in Holding
  BY <1>2, <1>3, <1>4 DEF Inv, TypeOK, Holding
<1>7. QED
  BY <1>1, <1>2, <1>3, <1>4, <1>5, <1>6, QuietStepKeepsInv

LEMMA AbortKeepsInv ==
    ASSUME Inv, NEW w \in Writers, Abort(w) PROVE Inv'
<1>1. writer' \in [Writers -> Transaction]
  BY DEF Inv, Abort, TypeOK, Transaction, Idle
<1>2. writer'[w].at = "idle"
  BY DEF Inv, Abort, TypeOK, Idle
<1>3. \A v \in Writers \ {w} : writer'[v] = writer[v]
  BY DEF Inv, Abort, TypeOK
<1>4. lock' \in Writers \cup {NoWriter} /\ \A v \in Writers : lock' = v <=> writer'[v].at \in Holding
  BY <1>2, <1>3, NoWriterAssumption DEF Inv, Abort, TypeOK, Holding
<1>5. Informed(w)'
  BY <1>2 DEF Informed
<1>6. QED
  BY <1>1, <1>2, <1>3, <1>4, <1>5, QuietStepKeepsInv DEF Abort

-----------------------------------------------------------------------------
\* The row of a commit is a new one: it comes right after the last row, names
\* it, and the table grows by one.
LEMMA CommitAppends ==
    ASSUME Inv, NEW w \in Writers, Commit(w)
    PROVE  /\ Written(w) \in Row
           /\ Written(w).id = writer[w].id /\ Written(w).id \notin TableIds
           /\ Written(w).id \in Legacy + 1 .. recorded
           /\ Written(w).sequence = Cardinality(table) + 1
           /\ Written(w).previous = writer[w].previous
           /\ Written(w) \notin table
           /\ IsFiniteSet(table') /\ Cardinality(table') = Cardinality(table) + 1
<1> USE DEF Inv
<1>1. writer[w].at = "committing" /\ table' = table \cup {Written(w)} /\ writer[w] \in Transaction
  BY DEF Commit, TypeOK
<1>2. Written(w).id = writer[w].id /\ Written(w).sequence = writer[w].sequence
      /\ Written(w).previous = writer[w].previous
  BY DEF Written
<1>3. writer[w].sequence = Cardinality(table) + 1
  BY <1>1 DEF Informed
<1>4. writer[w].id \in Legacy + 1 .. recorded /\ writer[w].id \notin TableIds
  BY <1>1 DEF IdsApart
<1>5. Written(w) \notin table
  BY <1>2, <1>4 DEF TableIds
<1>6. writer[w].id \in Ids
  BY <1>4, LegacyAssumption, MaxEventsAssumption DEF TypeOK, Ids
<1>7. Written(w) \in Row
  BY <1>1, <1>6 DEF Written, Row, Transaction
<1>8. IsFiniteSet(table') /\ Cardinality(table') = Cardinality(table) + 1
  BY <1>1, <1>5, FS_AddElement
<1>9. QED
  BY <1>2, <1>3, <1>4, <1>5, <1>7, <1>8

LEMMA CommitKeepsInv ==
    ASSUME Inv, NEW w \in Writers, Commit(w) PROVE Inv'
<1> DEFINE e == Written(w)
           n == Cardinality(table)
<1>1. /\ e \in Row /\ e.id = writer[w].id /\ e.id \notin TableIds /\ e.id \in Legacy + 1 .. recorded
      /\ e.sequence = n + 1 /\ e.previous = writer[w].previous
      /\ e \notin table /\ IsFiniteSet(table') /\ Cardinality(table') = n + 1
  BY CommitAppends
<1>2. n \in Nat /\ {r.sequence : r \in table} = 1 .. n
  BY FS_CardinalityType DEF Inv, SequencesGapless
<1>3. /\ table' = table \cup {e} /\ lock' = NoWriter
      /\ recorded' = recorded /\ before' = before
      /\ writer[w].at = "committing"
  BY DEF Commit
<1>4. /\ writer' \in [Writers -> Transaction]
      /\ writer'[w].at = "idle"
      /\ \A v \in Writers \ {w} : writer'[v] = writer[v]
  BY DEF Inv, Commit, TypeOK, Transaction, Idle
<1>5. \A v \in Writers \ {w} : writer[v].at \notin Holding
  BY <1>3 DEF Inv, TypeOK, Holding
<1>6. IF n = 0 THEN e.previous = 0 ELSE \E s \in table : s.sequence = n /\ s.id = e.previous
  BY <1>1, <1>3 DEF Inv, Informed
<1>7. \A r \in table : r \in Row /\ r.sequence \in 1 .. n /\ r.id \in TableIds
  BY <1>2 DEF Inv, TypeOK, TableIds
<1>8. TableIds' = TableIds \cup {e.id}
  BY <1>3 DEF TableIds
<1> HIDE DEF e, n
<1>9. TypeOK'
  BY <1>1, <1>3, <1>4, <1>5, <1>7, NoWriterAssumption DEF Inv, TypeOK, Holding
<1>10. SequencesGapless'
  <2>1. {r.sequence : r \in table'} = {r.sequence : r \in table} \cup {e.sequence}
    BY <1>3
  <2>2. 1 .. n + 1 = (1 .. n) \cup {n + 1}
    BY <1>2
  <2>3. QED
    BY <1>1, <1>2, <2>1, <2>2 DEF SequencesGapless
<1>11. ChainLinked'
  <2> SUFFICES ASSUME NEW r \in table', r.id > Legacy
               PROVE  IF r.sequence = 1 THEN r.previous = 0
                      ELSE \E s \in table' : s.sequence = r.sequence - 1 /\ s.id = r.previous
    BY DEF ChainLinked
  <2>1. CASE r \in table
    BY <2>1, <1>3 DEF Inv, ChainLinked
  <2>2. CASE r = e
    BY <2>2, <1>1, <1>2, <1>3, <1>6
  <2>3. QED
    BY <2>1, <2>2, <1>3
<1>12. ChainKeepsCausality'
  <2> SUFFICES ASSUME NEW r \in table', NEW s \in table', s.id \in before[r.id]
               PROVE  s.sequence < r.sequence
    BY <1>3 DEF ChainKeepsCausality
  <2>1. r.id \in Ids
    BY <1>1, <1>3, <1>7 DEF Row
  <2>2. s \in table
    BY <2>1, <1>1, <1>3 DEF Inv, IdsApart
  <2>3. CASE r \in table
    BY <2>2, <2>3 DEF Inv, ChainKeepsCausality
  <2>4. CASE r = e
    BY <2>2, <2>4, <1>1, <1>2, <1>7
  <2>5. QED
    BY <2>3, <2>4, <1>3
<1>13. \A v \in Writers : Informed(v)'
  <2> TAKE v \in Writers
  <2>1. CASE v = w
    BY <2>1, <1>4 DEF Informed
  <2>2. CASE v # w
    BY <2>2, <1>4, <1>5 DEF Inv, Informed, Holding
  <2>3. QED
    BY <2>1, <2>2
<1>14. IdsApart'
  <2>1. \A v \in Writers : writer'[v].at # "idle" =>
           v # w /\ writer'[v] = writer[v] /\ writer[v].id # e.id
    BY <1>1, <1>3, <1>4 DEF Inv, IdsApart
  <2>2. recorded \in Int /\ e.id <= recorded
    BY <1>1, LegacyAssumption, MaxEventsAssumption DEF Inv, TypeOK
  <2>3. QED
    BY <1>3, <1>8, <2>1, <2>2 DEF Inv, IdsApart
<1>15. QED
  BY <1>1, <1>9, <1>10, <1>11, <1>12, <1>13, <1>14 DEF Inv

LEMMA NextKeepsInv == Inv /\ [Next]_vars => Inv'
<1> SUFFICES ASSUME Inv, [Next]_vars PROVE Inv'
  OBVIOUS
<1>1. CASE UNCHANGED vars
  BY <1>1 DEF Inv, TypeOK, SequencesGapless, ChainLinked, ChainKeepsCausality, Informed,
              IdsApart, TableIds, vars
<1>2. ASSUME NEW w \in Writers, Record(w) \/ Lock(w) \/ Statement(w) \/ Abort(w)
      PROVE  Inv'
  BY <1>2, RecordKeepsInv, LockKeepsInv, ReadPreviousKeepsInv, InsertKeepsInv,
     CommitKeepsInv, AbortKeepsInv DEF Statement
<1>3. QED
  BY <1>1, <1>2 DEF Next

LEMMA InvAlways == Spec => []Inv
<1>1. QED
  BY InitInv, NextKeepsInv, PTL DEF Spec

-----------------------------------------------------------------------------
\* Tables, locks, transactions and histories keep their types; whoever is past
\* the advisory lock, and nobody else, holds it.
THEOREM TypeCorrect == Spec => []TypeOK
<1>1. Inv => TypeOK
  BY DEF Inv
<1>2. QED
  BY <1>1, InvAlways, PTL

\* No history has a gap or a fork, however many processes append to it and
\* whatever transactions are rolled back (PrismaAuditSink.append).
THEOREM NoGaps == Spec => []SequencesGapless
<1>1. Inv => SequencesGapless
  BY DEF Inv
<1>2. QED
  BY <1>1, InvAlways, PTL

\* Every row the service appended names the row right before it.
THEOREM Linked == Spec => []ChainLinked
<1>1. Inv => ChainLinked
  BY DEF Inv
<1>2. QED
  BY <1>1, InvAlways, PTL

\* What was recorded after a commit comes after it in the chain.
THEOREM CausalityKept == Spec => []ChainKeepsCausality
<1>1. Inv => ChainKeepsCausality
  BY DEF Inv
<1>2. QED
  BY <1>1, InvAlways, PTL

-----------------------------------------------------------------------------
(* The refinement of AuditLog *)

\* The migrated rows are the log's beginning.
LEMMA InitIsLogInit == Init => Promise!LogInit
<1> SUFFICES ASSUME Init PROVE Chained = [i \in 1 .. Legacy |-> i]
  BY DEF Promise!LogInit
<1>1. Cardinality(table) = Legacy
  BY LegacyRowsCounted DEF Init
<1>2. ASSUME NEW i \in 1 .. Legacy PROVE IdAt(i) = i
  <2>1. [id |-> i, sequence |-> i, previous |-> 0] \in RowsAt(i)
    BY DEF Init, LegacyRows, RowsAt
  <2>2. \A r \in RowsAt(i) : r.id = i
    BY DEF Init, LegacyRows, RowsAt
  <2>3. (CHOOSE r \in RowsAt(i) : TRUE) \in RowsAt(i)
    BY <2>1
  <2>4. QED
    BY <2>1, <2>2, <2>3 DEF IdAt
<1>3. QED
  BY <1>1, <1>2 DEF Chained

\* A commit appends its event to the log, where it was not before.
LEMMA CommitIsAppend ==
    ASSUME Inv, NEW w \in Writers, Commit(w) PROVE Promise!LogNext
<1>1. PICK n \in Nat : n = Cardinality(table)
  BY FS_CardinalityType DEF Inv
<1>2. PICK e : e = Written(w)
  OBVIOUS
<1>3. /\ e.id \notin TableIds /\ e.id \in Legacy + 1 .. recorded
      /\ e.sequence = n + 1 /\ Cardinality(table') = n + 1
  BY <1>1, <1>2, CommitAppends
<1>4. table' = table \cup {e}
  BY <1>2 DEF Commit
<1>5. {r.sequence : r \in table} = 1 .. n
  BY <1>1 DEF Inv, SequencesGapless
<1>6. e.id \in Ids
  BY <1>3, LegacyAssumption, MaxEventsAssumption DEF Inv, TypeOK, Ids
<1>7. ASSUME NEW i \in 1 .. n PROVE IdAt(i)' = IdAt(i) /\ IdAt(i) \in TableIds
  <2>1. RowsAt(i)' = RowsAt(i)
    BY <1>3, <1>4 DEF RowsAt
  <2>2. RowsAt(i) # {}
    BY <1>5 DEF RowsAt
  <2>3. (CHOOSE r \in RowsAt(i) : TRUE) \in RowsAt(i)
    BY <2>2
  <2>4. IdAt(i) = (CHOOSE r \in RowsAt(i) : TRUE).id
    BY <2>2 DEF IdAt
  <2>5. IdAt(i)' = IdAt(i)
    BY <2>1 DEF IdAt
  <2>6. QED
    BY <2>3, <2>4, <2>5 DEF RowsAt, TableIds
<1>8. IdAt(n + 1)' = e.id
  <2>1. \A r \in table : r.sequence # n + 1
    <3>1. \A r \in table : r.sequence \in 1 .. n
      BY <1>5
    <3>2. QED
      BY <3>1
  <2>2. RowsAt(n + 1)' = {e}
    BY <1>3, <1>4, <2>1 DEF RowsAt
  <2>3. (CHOOSE r \in {e} : TRUE) = e
    OBVIOUS
  <2>4. QED
    BY <2>2, <2>3 DEF IdAt
<1>9. /\ Chained = [i \in 1 .. n |-> IdAt(i)]
      /\ Chained' = [i \in 1 .. n + 1 |-> IdAt(i)']
  BY <1>1, <1>3 DEF Chained
<1>10. \A i \in DOMAIN Chained : Chained[i] # e.id
  BY <1>3, <1>7, <1>9
<1>11. Chained' = Append(Chained, e.id)
  <2>1. Len(Chained) = n /\ \A i \in 1 .. n : Chained[i] = IdAt(i)
    BY <1>9
  <2>2. \A i \in 1 .. n + 1 : IdAt(i)' = IF i = n + 1 THEN e.id ELSE Chained[i]
    <3> TAKE i \in 1 .. n + 1
    <3>1. CASE i = n + 1
      BY <3>1, <1>8
    <3>2. CASE i \in 1 .. n
      BY <3>2, <2>1, <1>7
    <3>3. QED
      BY <3>1, <3>2
  <2>3. Append(Chained, e.id) = [i \in 1 .. n + 1 |-> IF i = n + 1 THEN e.id ELSE Chained[i]]
    BY <2>1
  <2>4. QED
    BY <1>9, <2>2, <2>3
<1>12. QED
  BY <1>6, <1>10, <1>11 DEF Promise!LogNext, Promise!AppendEvent

LEMMA StepIsLogStep == Inv /\ [Next]_vars => [Promise!LogNext]_Chained
<1> SUFFICES ASSUME Inv, [Next]_vars PROVE [Promise!LogNext]_Chained
  OBVIOUS
<1>1. ASSUME table' = table PROVE Chained' = Chained
  BY <1>1 DEF Chained, IdAt, RowsAt
<1>2. CASE UNCHANGED vars
  BY <1>1, <1>2 DEF vars
<1>3. ASSUME NEW w \in Writers, Record(w) \/ Lock(w) \/ ReadPrevious(w) \/ Insert(w) \/ Abort(w)
      PROVE  [Promise!LogNext]_Chained
  BY <1>1, <1>3 DEF Record, Lock, ReadPrevious, Insert, Abort
<1>4. ASSUME NEW w \in Writers, Commit(w) PROVE [Promise!LogNext]_Chained
  BY <1>4, CommitIsAppend
<1>5. QED
  BY <1>2, <1>3, <1>4 DEF Next, Statement

\* The audit history is a log that grows at its end only, by events it does not
\* hold yet (docs/CRM-AUDIT-MODEL.md).
THEOREM LogImplemented == Spec => ImplementsLog
<1>1. QED
  BY InitIsLogInit, InvAlways, StepIsLogStep, PTL DEF Spec, ImplementsLog, Promise!Log
=============================================================================
