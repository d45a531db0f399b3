--------------------------- MODULE RateLimitProofs ---------------------------
(***************************************************************************)
(* Proofs about RateLimit, for any clients, windows and maxima.            *)
(*                                                                         *)
(* Sound relates the window of a key to the passes of the key: the passes  *)
(* of the open window are the last ones and no more than the count, those  *)
(* of earlier windows lie in windows that were over when the next opened.  *)
(***************************************************************************)
EXTENDS RateLimit, FiniteSetTheorems, TLAPS

PassesSound(p, W, M) ==
    /\ \A i \in 1 .. Len(p) : p[i].opened <= p[i].at /\ p[i].at < p[i].opened + W
    /\ \A i, j \in 1 .. Len(p) : i < j =>
          \/ p[i].opened = p[j].opened /\ j - i < M
          \/ p[i].opened + W <= p[j].opened

\* What a bucket b tells of the passes p of its key.
Sound(b, p, W, M) ==
    /\ PassesSound(p, W, M)
    /\ b.count = 0 => Len(p) = 0
    /\ \A i \in 1 .. Len(p) :
          \/ p[i].opened = b.opened /\ Len(p) - i < b.count /\ Len(p) - i < M
          \/ p[i].opened + W <= b.opened
    /\ \A n \in 1 .. M : n <= b.count => n <= Len(p) /\ p[Len(p) + 1 - n].opened = b.opened

Inv == TypeOK /\ \A k \in Keys : Sound(bucket[k], passed[k], Window[k[1]], Max[k[1]])

\* A key has a limiter with a window and a maximum.
LEMMA KeyLimits ==
    ASSUME NEW k \in Keys
    PROVE  /\ Window[k[1]] \in Nat \ {0}
           /\ Max[k[1]] \in Nat \ {0}
<1>1. k[1] \in Limiters
  BY DEF Keys, Limiters
<1>2. QED
  BY <1>1, WindowAssumption, MaxAssumption

\* An arrival that passes is entered in its window.
LEMMA PassKeepsSound ==
    ASSUME NEW now \in Nat, NEW W \in Nat \ {0}, NEW M \in Nat \ {0},
           NEW b \in Bucket, NEW p \in Seq(Pass), Sound(b, p, W, M), b.opened <= now,
           NEW c \in Bucket, NEW q,
           \/ (b.count = 0 \/ now - b.opened >= W) /\ c.opened = now /\ c.count = 1
           \/ b.count # 0 /\ now - b.opened < W /\ c.opened = b.opened /\ c.count = b.count + 1,
           c.count <= M,
           q = Append(p, [at |-> now, opened |-> c.opened])
    PROVE  q \in Seq(Pass) /\ Sound(c, q, W, M)
<1> DEFINE e == [at |-> now, opened |-> c.opened]
<1>1. e \in Pass /\ e.at = now /\ e.opened = c.opened
  BY DEF Pass, Bucket
<1> HIDE DEF e
<1>2. /\ q \in Seq(Pass) /\ Len(q) = Len(p) + 1 /\ q[Len(p) + 1] = e
      /\ \A i \in 1 .. Len(p) : q[i] = p[i]
  BY <1>1 DEF e
<1>3. Len(p) \in Nat /\ b.count \in Nat /\ b.opened \in Nat /\ c.opened \in Nat /\ c.count \in Nat
  BY DEF Bucket
<1>4. \A i \in 1 .. Len(p) : p[i].at \in Nat /\ p[i].opened \in Nat
  <2>1. \A i \in 1 .. Len(p) : p[i] \in Pass
    OBVIOUS
  <2>2. QED
    BY <2>1 DEF Pass
<1>5. \/ c.opened = now /\ c.count = 1 /\ (Len(p) = 0 \/ b.opened + W <= now)
      \/ b.count # 0 /\ now < b.opened + W /\ c.opened = b.opened /\ c.count = b.count + 1
  BY <1>3 DEF Bucket, Sound
<1>6. c.opened <= now /\ now < c.opened + W
  BY <1>3, <1>5
<1>7. \A i \in 1 .. Len(p) :
         \/ p[i].opened = c.opened /\ Len(p) + 1 - i < c.count /\ Len(p) + 1 - i < M
         \/ p[i].opened + W <= c.opened
  <2> TAKE i \in 1 .. Len(p)
  <2>1. \/ p[i].opened = b.opened /\ Len(p) - i < b.count
        \/ p[i].opened + W <= b.opened
    BY DEF Sound
  <2>2. CASE c.opened = now /\ (Len(p) = 0 \/ b.opened + W <= now)
    BY <2>1, <2>2, <1>3, <1>4
  <2>3. CASE c.opened = b.opened /\ c.count = b.count + 1
    BY <2>1, <2>3, <1>3, <1>4
  <2>4. QED
    BY <1>5, <2>2, <2>3
<1>8. PassesSound(q, W, M)
  <2>1. \A i \in 1 .. Len(q) : q[i].opened <= q[i].at /\ q[i].at < q[i].opened + W
    <3> TAKE i \in 1 .. Len(q)
    <3>1. CASE i \in 1 .. Len(p)
      BY <3>1, <1>2 DEF Sound, PassesSound
    <3>2. CASE i = Len(p) + 1
      BY <3>2, <1>1, <1>2, <1>6
    <3>3. QED
      BY <3>1, <3>2, <1>2, <1>3
  <2>2. \A i, j \in 1 .. Len(q) : i < j =>
           \/ q[i].opened = q[j].opened /\ j - i < M
           \/ q[i].opened + W <= q[j].opened
    <3> SUFFICES ASSUME NEW i \in 1 .. Len(q), NEW j \in 1 .. Len(q), i < j
                 PROVE  \/ q[i].opened = q[j].opened /\ j - i < M
                        \/ q[i].opened + W <= q[j].opened
      OBVIOUS
    <3>1. i \in 1 .. Len(p)
      BY <1>2, <1>3
    <3>2. CASE j \in 1 .. Len(p)
      BY <3>1, <3>2, <1>2 DEF Sound, PassesSound
    <3>3. CASE j = Len(p) + 1
      BY <3>1, <3>3, <1>1, <1>2, <1>7
    <3>4. j \in 1 .. Len(p) \/ j = Len(p) + 1
      BY <1>2, <1>3
    <3>5. QED
      BY <3>2, <3>3, <3>4
  <2>3. QED
    BY <2>1, <2>2 DEF PassesSound
<1>9. \A i \in 1 .. Len(q) :
         \/ q[i].opened = c.opened /\ Len(q) - i < c.count /\ Len(q) - i < M
         \/ q[i].opened + W <= c.opened
  <2> TAKE i \in 1 .. Len(q)
  <2>1. CASE i \in 1 .. Len(p)
    <3>1. Len(q) - i = Len(p) + 1 - i
      BY <2>1, <1>2, <1>3
    <3>2. \/ p[i].opened = c.opened /\ Len(p) + 1 - i < c.count /\ Len(p) + 1 - i < M
          \/ p[i].opened + W <= c.opened
      BY <2>1, <1>7
    <3>3. q[i] = p[i]
      BY <2>1, <1>2
    <3>4. QED
      BY <3>1, <3>2, <3>3
  <2>2. CASE i = Len(p) + 1
    BY <2>2, <1>1, <1>2, <1>3, <1>5
  <2>3. QED
    BY <2>1, <2>2, <1>2, <1>3
<1>10. \A n \in 1 .. M : n <= c.count =>
          n <= Len(q) /\ q[Len(q) + 1 - n].opened = c.opened
  <2> SUFFICES ASSUME NEW n \in 1 .. M, n <= c.count
               PROVE  n <= Len(q) /\ q[Len(q) + 1 - n].opened = c.opened
    OBVIOUS
  <2>1. CASE n = 1
    BY <2>1, <1>1, <1>2, <1>3
  <2>2. CASE n > 1
    <3>1. c.opened = b.opened /\ c.count = b.count + 1 /\ n - 1 \in 1 .. M /\ n - 1 <= b.count
      BY <2>2, <1>3, <1>5
    <3>2. n - 1 <= Len(p) /\ p[Len(p) + 1 - (n - 1)].opened = b.opened
      BY <3>1 DEF Sound
    <3>3. Len(p) + 1 - (n - 1) = Len(q) + 1 - n /\ Len(q) + 1 - n \in 1 .. Len(p)
      BY <3>2, <2>2, <1>2, <1>3
    <3>4. QED
      BY <3>1, <3>2, <3>3, <1>2, <1>3
  <2>3. QED
    BY <2>1, <2>2
<1>11. c.count # 0
  BY <1>5, <1>3
<1>12. QED
  BY <1>2, <1>8, <1>9, <1>10, <1>11 DEF Sound

\* An arrival that is refused leaves the passes as they were.
LEMMA RefusalKeepsSound ==
    ASSUME NEW now \in Nat, NEW W \in Nat \ {0}, NEW M \in Nat \ {0},
           NEW b \in Bucket, NEW p \in Seq(Pass), Sound(b, p, W, M), b.opened <= now,
           NEW c \in Bucket,
           \/ (b.count = 0 \/ now - b.opened >= W) /\ c.opened = now /\ c.count = 1
           \/ b.count # 0 /\ now - b.opened < W /\ c.opened = b.opened /\ c.count = b.count + 1,
           c.count > M
    PROVE  Sound(c, p, W, M)
<1>1. b.count \in Nat /\ Len(p) \in Nat
  BY DEF Bucket
<1>2. c.opened = b.opened /\ c.count = b.count + 1 /\ b.count >= M
  BY <1>1 DEF Bucket
<1>3. \A n \in 1 .. M : n <= b.count
  BY <1>1, <1>2
<1>4. QED
  BY <1>1, <1>2, <1>3 DEF Sound

\* What an arrival finds and leaves.
LEMMA CountedIs ==
    ASSUME TypeOK, NEW k \in Keys
    PROVE  /\ Counted(k) \in Bucket /\ Counted(k).opened <= clock
           /\ bucket[k] \in Bucket /\ bucket[k].opened <= clock /\ clock \in Nat
           /\ passed[k] \in Seq(Pass)
           /\ \/ /\ bucket[k].count = 0 \/ clock - bucket[k].opened >= Window[k[1]]
                 /\ Counted(k).opened = clock /\ Counted(k).count = 1
              \/ /\ bucket[k].count # 0 /\ clock - bucket[k].opened < Window[k[1]]
                 /\ Counted(k).opened = bucket[k].opened
                 /\ Counted(k).count = bucket[k].count + 1
<1>1. /\ bucket[k] \in Bucket /\ bucket[k].opened <= clock /\ clock \in Nat
      /\ passed[k] \in Seq(Pass)
  BY BoundsAssumption DEF TypeOK
<1>2. Window[k[1]] \in Nat
  BY KeyLimits
<1>3. bucket[k].opened \in Nat /\ bucket[k].count \in Nat
  BY <1>1 DEF Bucket
<1>4. CASE bucket[k].count = 0 \/ Over(k)
  <2>1. Counted(k) = [opened |-> clock, count |-> 1]
    BY <1>4 DEF Counted
  <2>2. QED
    BY <2>1, <1>1, <1>3, <1>4 DEF Bucket, Over
<1>5. CASE ~(bucket[k].count = 0 \/ Over(k))
  <2>1. Counted(k) = [bucket[k] EXCEPT !.count = @ + 1]
    BY <1>5 DEF Counted
  <2>2. Counted(k) \in Bucket /\ Counted(k).opened = bucket[k].opened
        /\ Counted(k).count = bucket[k].count + 1
    BY <2>1, <1>1, <1>3 DEF Bucket
  <2>3. QED
    BY <2>2, <1>1, <1>2, <1>3, <1>5 DEF Over
<1>6. QED
  BY <1>4, <1>5

\* Counting arrivals, those that pass among them, keeps every key sound.
LEMMA CountKeepsSound ==
    ASSUME Inv, NEW keys \in SUBSET Keys, NEW through \in SUBSET keys,
           Count(keys, through), clock' = clock,
           \A k \in keys : k \in through <=> Passes(k)
    PROVE  /\ bucket' \in [Keys -> Bucket]
           /\ \A k \in Keys : bucket'[k].opened <= clock'
           /\ passed' \in [Keys -> Seq(Pass)]
           /\ \A k \in Keys : Sound(bucket'[k], passed'[k], Window[k[1]], Max[k[1]])
<1>1. /\ bucket' = [k \in Keys |-> bucket'[k]] /\ passed' = [k \in Keys |-> passed'[k]]
  BY DEF Count
<1>2. ASSUME NEW k \in Keys
      PROVE  /\ bucket'[k] \in Bucket /\ bucket'[k].opened <= clock'
             /\ passed'[k] \in Seq(Pass)
             /\ Sound(bucket'[k], passed'[k], Window[k[1]], Max[k[1]])
  <2> DEFINE c == Counted(k)
             W == Window[k[1]]
             M == Max[k[1]]
  <2>1. W \in Nat \ {0} /\ M \in Nat \ {0}
    BY KeyLimits
  <2>2. Sound(bucket[k], passed[k], W, M)
    BY DEF Inv
  <2>3. /\ c \in Bucket /\ c.opened <= clock
        /\ bucket[k] \in Bucket /\ bucket[k].opened <= clock /\ clock \in Nat
        /\ passed[k] \in Seq(Pass)
        /\ \/ (bucket[k].count = 0 \/ clock - bucket[k].opened >= W) /\ c.opened = clock /\ c.count = 1
           \/ /\ bucket[k].count # 0 /\ clock - bucket[k].opened < W /\ c.opened = bucket[k].opened
              /\ c.count = bucket[k].count + 1
    BY CountedIs DEF Inv
  <2>4. Passes(k) <=> c.count <= M
    BY DEF Passes
  <2>5. /\ bucket'[k] = IF k \in keys THEN c ELSE bucket[k]
        /\ passed'[k] = IF k \in through THEN Append(passed[k], [at |-> clock, opened |-> c.opened])
                        ELSE passed[k]
    BY DEF Count
  <2> HIDE DEF c, W, M
  <2>6. CASE k \in through
    <3>1. k \in keys /\ c.count <= M
      BY <2>4, <2>6
    <3>2. passed'[k] \in Seq(Pass) /\ Sound(c, passed'[k], W, M)
      BY <2>1, <2>2, <2>3, <2>5, <2>6, <3>1, PassKeepsSound
    <3>3. QED
      BY <2>3, <2>5, <3>1, <3>2 DEF W, M
  <2>7. CASE k \in keys \ through
    <3>1. c.count > M
      BY <2>1, <2>3, <2>4, <2>7 DEF Bucket
    <3>2. Sound(c, passed[k], W, M)
      BY <2>1, <2>2, <2>3, <3>1, RefusalKeepsSound
    <3>3. QED
      BY <2>3, <2>5, <2>7, <3>2 DEF W, M
  <2>8. CASE k \notin keys
    BY <2>2, <2>3, <2>5, <2>8 DEF W, M
  <2>9. QED
    BY <2>6, <2>7, <2>8
<1>3. QED
  BY <1>1, <1>2

LEMMA InitInv == Init => Inv
<1> SUFFICES ASSUME Init PROVE Inv
  OBVIOUS
<1>1. TypeOK
  BY BoundsAssumption DEF Init, TypeOK, Bucket, Absent
<1>2. ASSUME NEW k \in Keys PROVE Sound(bucket[k], passed[k], Window[k[1]], Max[k[1]])
  <2>1. bucket[k] = Absent /\ passed[k] = <<>> /\ Max[k[1]] \in Nat
    BY KeyLimits DEF Init
  <2>2. Absent.count = 0 /\ Len(<<>>) = 0
    BY DEF Absent
  <2>3. QED
    BY <2>1, <2>2 DEF Sound, PassesSound
<1>3. QED
  BY <1>1, <1>2 DEF Inv

\* What remains of TypeOK when the buckets and the passes are seen to.
LEMMA ReachTyped ==
    ASSUME TypeOK, NEW r \in Logins \cup Intakes, Reach(r)
    PROVE  parsing' \in [Logins \cup Intakes -> Nat]
BY DEF TypeOK, Reach

LEMMA NextInv == Inv /\ [Next]_vars => Inv'
<1> SUFFICES ASSUME Inv, [Next]_vars PROVE Inv'
  OBVIOUS
<1> USE DEF Inv
<1>1. CASE UNCHANGED vars
  BY <1>1 DEF vars, TypeOK
<1>2. CASE Tick
  <2>1. bucket' = bucket /\ passed' = passed
    BY <1>2 DEF Tick
  <2>2. \A k \in Keys : bucket[k].opened <= clock'
    <3>1. TAKE k \in Keys
    <3>2. bucket[k].opened \in Nat /\ bucket[k].opened <= clock /\ clock \in Nat
      BY BoundsAssumption DEF TypeOK, Bucket
    <3>3. QED
      BY <3>2, <1>2 DEF Tick
  <2>3. TypeOK'
    BY <1>2, <2>1, <2>2, BoundsAssumption DEF Tick, TypeOK
  <2>4. QED
    BY <2>1, <2>3
<1>3. ASSUME NEW ip \in Ips, Request(ip) PROVE Inv'
  <2> DEFINE k == <<"api", ip>>
  <2>1. k \in Keys
    BY DEF Keys
  <2>2. clock' = clock
    BY <1>3 DEF Request
  <2>3. \E through \in SUBSET {k} : Count({k}, through) /\ (k \in through <=> Passes(k))
    <3>1. CASE Passes(k)
      BY <1>3, <3>1 DEF Request
    <3>2. CASE ~Passes(k)
      BY <1>3, <3>2 DEF Request
    <3>3. QED
      BY <3>1, <3>2
  <2>4. /\ bucket' \in [Keys -> Bucket]
        /\ \A q \in Keys : bucket'[q].opened <= clock'
        /\ passed' \in [Keys -> Seq(Pass)]
        /\ \A q \in Keys : Sound(bucket'[q], passed'[q], Window[q[1]], Max[q[1]])
    <3> HIDE DEF k
    <3>1. PICK through \in SUBSET {k} : Count({k}, through) /\ (k \in through <=> Passes(k))
      BY <2>3
    <3>2. {k} \in SUBSET Keys /\ \A q \in {k} : q \in through <=> Passes(q)
      BY <2>1, <3>1
    <3>3. QED
      BY <2>2, <3>1, <3>2, CountKeepsSound DEF Inv
  <2>5. parsing' \in [Logins \cup Intakes -> Nat]
    BY <1>3 DEF Request, TypeOK
  <2>6. requests' \in 0 .. MaxRequests /\ restarts' = restarts
    BY <1>3, BoundsAssumption DEF Request, TypeOK
  <2>7. QED
    BY <2>2, <2>4, <2>5, <2>6 DEF TypeOK
<1>4. ASSUME NEW r \in Logins, Login(r) PROVE Inv'
  <2> DEFINE ip == <<"login", r.ip>>
             user == <<"login", r.email>>
  <2>1. ip \in Keys /\ user \in Keys /\ ip # user
    BY KeysAssumption DEF Keys, Logins
  <2>2. clock' = clock /\ requests' = requests /\ restarts' = restarts
    BY <1>4 DEF Login
  <2>3. \E keys \in SUBSET {ip, user} : \E through \in SUBSET keys :
           Count(keys, through) /\ \A k \in keys : k \in through <=> Passes(k)
    <3>1. CASE ~Passes(ip)
      <4>1. Count({ip}, {}) /\ \A k \in {ip} : k \in {} <=> Passes(k)
        BY <1>4, <3>1 DEF Login
      <4>2. QED
        BY <4>1
    <3>2. CASE Passes(ip) /\ ~Passes(user)
      <4>1. Count({ip, user}, {ip}) /\ \A k \in {ip, user} : k \in {ip} <=> Passes(k)
        BY <1>4, <3>2, <2>1 DEF Login
      <4>2. QED
        BY <4>1
    <3>3. CASE Passes(ip) /\ Passes(user)
      <4>1. Count({ip, user}, {ip, user}) /\ \A k \in {ip, user} : k \in {ip, user} <=> Passes(k)
        BY <1>4, <3>3 DEF Login
      <4>2. QED
        BY <4>1
    <3>4. QED
      BY <3>1, <3>2, <3>3
  <2>4. /\ bucket' \in [Keys -> Bucket]
        /\ \A q \in Keys : bucket'[q].opened <= clock'
        /\ passed' \in [Keys -> Seq(Pass)]
        /\ \A q \in Keys : Sound(bucket'[q], passed'[q], Window[q[1]], Max[q[1]])
    <3> HIDE DEF ip, user
    <3>1. PICK keys \in SUBSET {ip, user} : \E through \in SUBSET keys :
             Count(keys, through) /\ \A k \in keys : k \in through <=> Passes(k)
      BY <2>3
    <3>2. keys \in SUBSET Keys
      BY <2>1, <3>1
    <3>3. QED
      BY <2>2, <3>1, <3>2, CountKeepsSound DEF Inv
  <2>5. parsing' \in [Logins \cup Intakes -> Nat]
    BY <1>4, ReachTyped DEF Login
  <2>6. QED
    BY <2>2, <2>4, <2>5 DEF TypeOK
<1>5. ASSUME NEW r \in Intakes, Intake(r) PROVE Inv'
  <2> DEFINE k == <<"intake", r.ip>>
  <2>1. k \in Keys
    BY DEF Keys, Intakes
  <2>2. clock' = clock /\ requests' = requests /\ restarts' = restarts
    BY <1>5 DEF Intake
  <2>3. parsing' \in [Logins \cup Intakes -> Nat]
    BY <1>5, ReachTyped DEF Intake
  <2>4. CASE Passes(k)
    <3>1. Count({k}, {k})
      BY <1>5, <2>4 DEF Intake
    <3> HIDE DEF k
    <3>2. {k} \in SUBSET Keys /\ {k} \in SUBSET {k} /\ \A q \in {k} : q \in {k} <=> Passes(q)
      BY <2>1, <2>4
    <3>3. /\ bucket' \in [Keys -> Bucket]
          /\ \A q \in Keys : bucket'[q].opened <= clock'
          /\ passed' \in [Keys -> Seq(Pass)]
          /\ \A q \in Keys : Sound(bucket'[q], passed'[q], Window[q[1]], Max[q[1]])
      BY <2>2, <3>1, <3>2, CountKeepsSound DEF Inv
    <3>4. QED
      BY <2>2, <2>3, <3>3 DEF TypeOK
  <2>5. CASE ~Passes(k)
    <3>1. bucket' = bucket /\ passed' = passed
      BY <1>5, <2>5 DEF Intake
    <3>2. QED
      BY <2>2, <2>3, <3>1 DEF TypeOK
  <2>6. QED
    BY <2>4, <2>5
<1>6. ASSUME NEW r \in Logins \cup Intakes, Unreadable(r) PROVE Inv'
  <2>1. parsing' \in [Logins \cup Intakes -> Nat]
    BY <1>6, ReachTyped DEF Unreadable
  <2>2. UNCHANGED <<clock, bucket, requests, restarts, passed>>
    BY <1>6 DEF Unreadable
  <2>3. QED
    BY <2>1, <2>2 DEF TypeOK
<1>7. CASE Restart
  <2>1. /\ clock' = clock /\ requests' = requests /\ restarts' \in 0 .. MaxRestarts
        /\ bucket' = [k \in Keys |-> Absent] /\ passed' = [k \in Keys |-> <<>>]
        /\ parsing' \in [Logins \cup Intakes -> Nat]
    BY <1>7, BoundsAssumption DEF Restart, TypeOK
  <2>2. Absent \in Bucket /\ Absent.count = 0 /\ Absent.opened = 0 /\ <<>> \in Seq(Pass)
        /\ Len(<<>>) = 0 /\ clock \in Nat
    BY BoundsAssumption DEF Absent, Bucket, TypeOK
  <2>3. TypeOK'
    BY <2>1, <2>2 DEF TypeOK
  <2>4. ASSUME NEW k \in Keys PROVE Sound(bucket'[k], passed'[k], Window[k[1]], Max[k[1]])
    <3>1. bucket'[k] = Absent /\ passed'[k] = <<>> /\ Max[k[1]] \in Nat
      BY <2>1, KeyLimits
    <3>2. QED
      BY <3>1, <2>2 DEF Sound, PassesSound
  <2>5. QED
    BY <2>3, <2>4
<1>8. QED
  BY <1>1, <1>2, <1>3, <1>4, <1>5, <1>6, <1>7 DEF Next

\* The inductive invariant of the limiters.
LEMMA AlwaysInv == Spec => []Inv
<1>1. QED
  BY InitInv, NextInv, PTL DEF Spec

\* Every variable stays within its type.
THEOREM TypeCorrect == Spec => []TypeOK
<1>1. Inv => TypeOK
  BY DEF Inv
<1>2. QED
  BY <1>1, AlwaysInv, PTL

\* Passes 2 * M apart are more than a window apart: one of the passes between
\* them is in a window of its own.
LEMMA BurstOf ==
    ASSUME NEW W \in Nat \ {0}, NEW M \in Nat \ {0}, NEW p \in Seq(Pass), PassesSound(p, W, M),
           NEW i \in 1 .. Len(p), NEW j \in 1 .. Len(p), j >= i + 2 * M
    PROVE  p[j].at > p[i].at + W
<1> DEFINE m == i + M
<1>1. m \in 1 .. Len(p) /\ i < m /\ m < j /\ ~(m - i < M) /\ ~(j - m < M)
  OBVIOUS
<1> HIDE DEF m
<1>2. p[i] \in Pass /\ p[m] \in Pass /\ p[j] \in Pass
  BY <1>1
<1>3. p[i].opened + W <= p[m].opened /\ p[m].opened + W <= p[j].opened
  BY <1>1 DEF PassesSound
<1>4. p[j].opened <= p[j].at /\ p[i].at < p[i].opened + W
  BY DEF PassesSound
<1>5. /\ p[i].opened \in Nat /\ p[m].opened \in Nat /\ p[j].opened \in Nat
      /\ p[i].at \in Nat /\ p[j].at \in Nat
  BY <1>2 DEF Pass
<1>6. \A iOpened, mOpened, jOpened, iAt, jAt \in Nat :
         /\ iOpened + W <= mOpened /\ mOpened + W <= jOpened
         /\ jOpened <= jAt /\ iAt < iOpened + W
         => jAt > iAt + W
  OBVIOUS
<1>7. QED
  BY <1>3, <1>4, <1>5, <1>6

\* In any stretch of time as long as a window, at most twice the maximum pass
\* a limiter for a key, whatever the requests and for any window and maximum.
THEOREM BurstsAreBounded == Spec => []BurstBounded
<1>1. Inv => BurstBounded
  <2> SUFFICES ASSUME Inv, NEW k \in Keys,
                      NEW i \in DOMAIN passed[k], NEW j \in DOMAIN passed[k],
                      j >= i + 2 * Max[k[1]]
               PROVE  passed[k][j].at > passed[k][i].at + Window[k[1]]
    BY DEF BurstBounded
  <2>1. passed[k] \in Seq(Pass) /\ PassesSound(passed[k], Window[k[1]], Max[k[1]])
    BY DEF Inv, Sound, TypeOK
  <2>2. Window[k[1]] \in Nat \ {0} /\ Max[k[1]] \in Nat \ {0}
    BY KeyLimits
  <2>3. i \in 1 .. Len(passed[k]) /\ j \in 1 .. Len(passed[k])
    BY <2>1
  <2>4. QED
    BY <2>1, <2>2, <2>3, BurstOf
<1>2. QED
  BY <1>1, AlwaysInv, PTL

\* A limiter refuses only those whose key was let in as often as the maximum
\* within the last window, for any window and maximum.
THEOREM RefusalsAreDeserved == Spec => []RefusalsDeserved
<1>1. Inv => RefusalsDeserved
  <2> SUFFICES ASSUME Inv, NEW k \in Keys, ~Passes(k)
               PROVE  Cardinality(Recent(k)) >= Max[k[1]]
    BY DEF RefusalsDeserved
  <2> DEFINE b == bucket[k]
             p == passed[k]
             M == Max[k[1]]
             W == Window[k[1]]
             last == (Len(p) + 1 - M) .. Len(p)
  <2>1. M \in Nat \ {0} /\ W \in Nat \ {0}
    BY KeyLimits
  <2>2. p \in Seq(Pass) /\ b \in Bucket /\ clock \in Nat /\ Sound(b, p, W, M)
    BY CountedIs DEF Inv
  <2>3. b.count >= M /\ clock - b.opened < W
    <3>1. Counted(k) \in Bucket /\ ~(Counted(k).count <= M)
      BY CountedIs DEF Inv, Passes
    <3>2. \/ Counted(k).count = 1
          \/ clock - b.opened < W /\ Counted(k).count = b.count + 1
      BY CountedIs DEF Inv
    <3> HIDE DEF b, p, M, W
    <3>3. QED
      BY <2>1, <2>2, <3>1, <3>2 DEF Bucket
  <2> HIDE DEF b, M, W
  <2>4. M <= Len(p)
    BY <2>1, <2>2, <2>3 DEF Sound, Bucket
  <2>5. \A i \in last : i \in DOMAIN p /\ p[i].at > clock - W
    <3> SUFFICES ASSUME NEW i \in last PROVE i \in DOMAIN p /\ p[i].at > clock - W
      OBVIOUS
    <3>1. Len(p) \in Nat /\ i \in 1 .. Len(p) /\ DOMAIN p = 1 .. Len(p)
      BY <2>1, <2>2, <2>4
    <3>2. Len(p) + 1 - i \in 1 .. M /\ Len(p) + 1 - (Len(p) + 1 - i) = i
      BY <2>1, <3>1
    <3>3. Len(p) + 1 - i <= b.count
      BY <2>1, <2>2, <2>3, <3>2 DEF Bucket
    <3>4. p[i].opened = b.opened
      BY <2>2, <3>2, <3>3 DEF Sound
    <3>5. p[i].opened <= p[i].at /\ p[i] \in Pass
      BY <2>2, <3>1 DEF Sound, PassesSound
    <3>6. p[i].opened \in Nat /\ p[i].at \in Nat /\ b.opened \in Nat /\ clock \in Nat
      BY <2>2, <3>5 DEF Bucket, Pass
    <3>7. QED
      BY <2>1, <2>3, <3>1, <3>4, <3>5, <3>6
  <2>6. last \subseteq Recent(k)
    BY <2>5 DEF Recent, W
  <2>7. IsFiniteSet(Recent(k))
    <3>1. IsFiniteSet(1 .. Len(p)) /\ DOMAIN p = 1 .. Len(p)
      BY <2>2, FS_Interval
    <3>2. Recent(k) \subseteq 1 .. Len(p)
      BY <3>1 DEF Recent
    <3>3. QED
      BY <3>1, <3>2, FS_Subset
  <2>8. Cardinality(last) = M
    <3>1. Len(p) \in Int /\ Len(p) + 1 - M \in Int /\ Len(p) + 1 - M <= Len(p)
      BY <2>1, <2>2
    <3>2. Cardinality(last) = Len(p) - (Len(p) + 1 - M) + 1
      BY <3>1, FS_Interval
    <3>3. QED
      BY <3>1, <3>2, <2>1
  <2>9. Cardinality(last) <= Cardinality(Recent(k))
    BY <2>6, <2>7, FS_Subset
  <2>10. Cardinality(Recent(k)) \in Nat
    BY <2>7, FS_CardinalityType
  <2>11. QED
    BY <2>1, <2>8, <2>9, <2>10 DEF M
<1>2. QED
  BY <1>1, AlwaysInv, PTL
=============================================================================
